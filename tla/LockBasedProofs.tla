--------------------------- MODULE LockBasedProofs --------------------------
(***************************************************************************)
(* Proofs about LockBased, for every set of keys, servers, workers and     *)
(* transactions.                                                           *)
(***************************************************************************)
EXTENDS LockBasedInv, WellFoundedInduction, FiniteSetTheorems, TLAPS

-----------------------------------------------------------------------------
(* Types *)

\* What the fields of a message hold, by the type of the message.
LEMMA MessageFields ==
    ASSUME NEW m \in Message
    PROVE  /\ m.type = "PUT" => m.key \in Keys /\ m.trx \in Trxs /\ m.ts \in Timestamps
           /\ m.type = "GET" => m.key \in Keys
           /\ m.type = "RESULT" => m.key \in Keys /\ m.item \in Version
  BY DEF Message

\* Sending a message keeps the connections well typed.
LEMMA SendType ==
    ASSUME TypeOK, NEW w \in Workers, NEW s \in Servers, NEW m \in Message, Send(w, s, m)
    PROVE  conn' \in [Workers -> [Servers -> Message]]
  BY DEF TypeOK, Send

\* So does an executor that remembers or forgets keys.
LEMMA AccessKeysType ==
    ASSUME TypeOK, NEW w \in Workers, NEW s \in Servers, NEW S \in SUBSET Keys,
           access_keys' = [access_keys EXCEPT ![w][s] = S]
    PROVE  access_keys' \in [Workers -> [Servers -> SUBSET Keys]]
  BY DEF TypeOK

\* What a GET returns for a key is a version.
LEMMA LatestItemType ==
    ASSUME TypeOK, NEW k \in Keys
    PROVE  LatestItem(k) \in Version
<1>1. CASE latest_commit[k] = 0
  BY <1>1, LockAssumption DEF LatestItem, EmptyItem, Version, TsOrEmpty
<1>2. CASE latest_commit[k] # 0
  <2>1. latest_commit[k] \in Timestamps
    BY <1>2, LockAssumption DEF TypeOK, TsOrEmpty, Timestamps
  <2>. QED  BY <1>2, <2>1 DEF LatestItem, Version, TypeOK
<1>. QED  BY <1>1, <1>2

\* Every step keeps every variable in its type.
LEMMA TypeStep ==
    ASSUME TypeOK, ControlOK, MessagesOK, [Next]_vars
    PROVE  TypeOK'
<1>. USE DEF TypeOK
<1>1. CASE UNCHANGED vars
  BY <1>1 DEF vars, workerVars, lockVars, tableVars
<1>2. ASSUME NEW w \in Workers, Pop(w)
      PROVE  TypeOK'
  BY <1>2 DEF Pop, lockVars, tableVars
<1>3. ASSUME NEW w \in Workers, Exit(w)
      PROVE  TypeOK'
  BY <1>3 DEF Exit, lockVars, tableVars
<1>4. ASSUME NEW w \in Workers, Finish(w)
      PROVE  TypeOK'
  BY <1>4 DEF Finish, lockVars, tableVars
<1>5. ASSUME NEW w \in Workers, PutAll(w)
      PROVE  TypeOK'
  <2>1. trx[w] \in Trxs
    BY <1>5 DEF PutAll, ControlOK, Running
  <2>2. trx_ts' \in [Trxs -> TsOrEmpty]
    BY <1>5, <2>1, LockAssumption DEF PutAll, Timestamps, TsOrEmpty
  <2>3. todo' \in [Workers -> SUBSET Keys]
    BY <1>5, <2>1, LockAssumption DEF PutAll
  <2>. QED  BY <1>5, <2>2, <2>3 DEF PutAll, lockVars, tableVars
<1>6. ASSUME NEW w \in Workers, GetAll(w)
      PROVE  TypeOK'
  <2>1. trx[w] \in Trxs
    BY <1>6 DEF GetAll, ControlOK, Running
  <2>2. todo' \in [Workers -> SUBSET Keys]
    BY <1>6, <2>1, LockAssumption DEF GetAll
  <2>3. EmptyItem \in Version
    BY LockAssumption DEF EmptyItem, Version, TsOrEmpty
  <2>4. ret' \in [Workers -> [Keys -> Version]]
    BY <1>6, <2>3 DEF GetAll
  <2>. QED  BY <1>6, <2>2, <2>4 DEF GetAll, lockVars, tableVars
<1>7. ASSUME NEW w \in Workers, BeginRelease(w)
      PROVE  TypeOK'
  BY <1>7 DEF BeginRelease, ReleaseAt, lockVars, tableVars
<1>8. ASSUME NEW w \in Workers, Return(w)
      PROVE  TypeOK'
  BY <1>8 DEF Return, lockVars, tableVars
<1>9. ASSUME NEW w \in Workers, NEW k \in Keys, SendPut(w, k)
      PROVE  TypeOK'
  <2>1. trx[w] \in Trxs /\ trx_ts[trx[w]] # 0
    BY <1>9 DEF SendPut, ControlOK, Running
  <2>2. Put(trx[w], k) \in Message
    BY <2>1, LockAssumption DEF Message, Put, Timestamps, TsOrEmpty
  <2>3. ServerOf[k] \in Servers
    BY LockAssumption
  <2>4. conn' \in [Workers -> [Servers -> Message]]
    BY <1>9, <2>2, <2>3, SendType DEF SendPut, SendKey
  <2>. QED  BY <1>9, <2>3, <2>4 DEF SendPut, SendKey, lockVars, tableVars
<1>10. ASSUME NEW w \in Workers, NEW k \in Keys, SendGet(w, k)
       PROVE  TypeOK'
  <2>1. [type |-> "GET", key |-> k] \in Message
    BY DEF Message
  <2>2. ServerOf[k] \in Servers
    BY LockAssumption
  <2>3. conn' \in [Workers -> [Servers -> Message]]
    BY <1>10, <2>1, <2>2, SendType DEF SendGet, SendKey
  <2>. QED  BY <1>10, <2>2, <2>3 DEF SendGet, SendKey, lockVars, tableVars
<1>11. ASSUME NEW w \in Workers, NEW s \in Servers, SendRelease(w, s)
       PROVE  TypeOK'
  <2>1. conn' \in [Workers -> [Servers -> Message]]
    BY <1>11, SendType DEF SendRelease, Message, NoMsg
  <2>. QED  BY <1>11, <2>1 DEF SendRelease, workerVars, lockVars, tableVars
<1>12. ASSUME NEW w \in Workers, NEW s \in Servers, RecvDone(w, s)
       PROVE  TypeOK'
  <2>1. conn' \in [Workers -> [Servers -> Message]]
    BY <1>12, SendType DEF RecvDone, Message, NoMsg
  <2>. QED  BY <1>12, <2>1 DEF RecvDone, workerVars, lockVars, tableVars
<1>13. ASSUME NEW w \in Workers, NEW s \in Servers, RecvResult(w, s)
       PROVE  TypeOK'
  <2>1. conn[w][s] \in Message
    OBVIOUS
  <2>2. conn[w][s].key \in Keys /\ conn[w][s].item \in Version
    BY <1>13, <2>1, MessageFields DEF RecvResult
  <2>3. conn' \in [Workers -> [Servers -> Message]]
    BY <1>13, SendType DEF RecvResult, Message, NoMsg
  <2>. QED  BY <1>13, <2>2, <2>3 DEF RecvResult, lockVars, tableVars
<1>14. ASSUME NEW w \in Workers, NEW s \in Servers, WriteLock(w, s)
       PROVE  TypeOK'
  <2>1. conn[w][s] \in Message
    OBVIOUS
  <2>2. conn[w][s].key \in Keys
    BY <1>14, <2>1, MessageFields DEF WriteLock
  <2>. QED  BY <1>14, <2>2 DEF WriteLock, workerVars, tableVars
<1>15. ASSUME NEW w \in Workers, NEW s \in Servers, PutItem(w, s)
       PROVE  TypeOK'
  <2>1. conn[w][s] \in Message
    OBVIOUS
  <2>. DEFINE m == conn[w][s]
  <2>2. m.key \in Keys /\ m.trx \in Trxs /\ m.ts \in Timestamps
    BY <1>15, <2>1, MessageFields DEF PutItem
  <2>3. items' \in [Keys -> [Timestamps -> Trxs \cup {NoTrx}]]
    BY <1>15, <2>2 DEF PutItem
  <2>. QED  BY <1>15, <2>3 DEF PutItem, workerVars, lockVars
<1>16. ASSUME NEW w \in Workers, NEW s \in Servers, CommitKey(w, s)
       PROVE  TypeOK'
  <2>1. conn[w][s] \in Message
    OBVIOUS
  <2>. DEFINE m == conn[w][s]
  <2>2. m.type = "PUT"
    BY <1>16 DEF CommitKey, MessagesOK
  <2>3. m.key \in Keys /\ m.ts \in TsOrEmpty
    BY <2>1, <2>2, MessageFields, LockAssumption DEF Timestamps, TsOrEmpty
  <2>4. latest_commit' \in [Keys -> TsOrEmpty]
    BY <1>16, <2>3 DEF CommitKey
  <2>. QED  BY <1>16, <2>4 DEF CommitKey, workerVars, lockVars
<1>17. ASSUME NEW w \in Workers, NEW s \in Servers, PutDone(w, s)
       PROVE  TypeOK'
  <2>1. conn[w][s] \in Message
    OBVIOUS
  <2>. DEFINE k == conn[w][s].key
  <2>2. conn[w][s].type = "PUT"
    BY <1>17 DEF PutDone, MessagesOK
  <2>3. k \in Keys
    BY <2>1, <2>2, MessageFields
  <2>4. conn' \in [Workers -> [Servers -> Message]]
    BY <1>17, SendType DEF PutDone, Message
  <2>5. access_keys' \in [Workers -> [Servers -> SUBSET Keys]]
    <3>1. \/ access_keys' = [access_keys EXCEPT ![w][s] = access_keys[w][s] \cup {k}]
          \/ access_keys' = access_keys
      BY <1>17 DEF PutDone, KeepsWriteLock
    <3>2. access_keys[w][s] \cup {k} \in SUBSET Keys
      BY <2>3
    <3>. QED  BY <3>1, <3>2, AccessKeysType
  <2>6. writer' \in [Keys -> Workers \cup {NoWorker}]
    BY <1>17 DEF PutDone
  <2>. QED  BY <1>17, <2>4, <2>5, <2>6 DEF PutDone, workerVars, tableVars
<1>18. ASSUME NEW w \in Workers, NEW s \in Servers, ReadLock(w, s)
       PROVE  TypeOK'
  <2>1. conn[w][s] \in Message
    OBVIOUS
  <2>2. conn[w][s].key \in Keys
    BY <1>18, <2>1, MessageFields DEF ReadLock
  <2>. QED  BY <1>18, <2>2 DEF ReadLock, workerVars, tableVars
<1>19. ASSUME NEW w \in Workers, NEW s \in Servers, GetItem(w, s)
       PROVE  TypeOK'
  <2>1. conn[w][s] \in Message
    OBVIOUS
  <2>. DEFINE k == conn[w][s].key
  <2>2. k \in Keys
    BY <1>19, <2>1, MessageFields DEF GetItem
  <2>3. [type |-> "RESULT", key |-> k, item |-> LatestItem(k)] \in Message
    BY <2>2, LatestItemType DEF Message
  <2>4. conn' \in [Workers -> [Servers -> Message]]
    BY <1>19, <2>3, SendType DEF GetItem
  <2>5. access_keys' \in [Workers -> [Servers -> SUBSET Keys]]
    <3>1. \/ access_keys' = [access_keys EXCEPT ![w][s] = access_keys[w][s] \cup {k}]
          \/ access_keys' = access_keys
      BY <1>19 DEF GetItem, KeepsReadLock
    <3>2. access_keys[w][s] \cup {k} \in SUBSET Keys
      BY <2>2
    <3>. QED  BY <3>1, <3>2, AccessKeysType
  <2>8. readers' \in [Keys -> SUBSET Workers]
    BY <1>19 DEF GetItem, KeepsReadLock
  <2>6. at' \in [Workers -> [Servers -> {"recv", "locked", "set", "answer", "closed"}]]
    BY <1>19 DEF GetItem
  <2>7. UNCHANGED <<workerVars, writer, tableVars, read_duration>>
    BY <1>19 DEF GetItem
  <2>. QED  BY <2>4, <2>5, <2>6, <2>7, <2>8 DEF workerVars, tableVars
<1>20. ASSUME NEW w \in Workers, NEW s \in Servers, Unlock(w, s)
       PROVE  TypeOK'
  BY <1>20 DEF Unlock, FirstKey, workerVars, tableVars
<1>21. ASSUME NEW w \in Workers, NEW s \in Servers, ReleaseDone(w, s)
       PROVE  TypeOK'
  <2>1. conn' \in [Workers -> [Servers -> Message]]
    BY <1>21, SendType DEF ReleaseDone, Message, NoMsg
  <2>. QED  BY <1>21, <2>1 DEF ReleaseDone, workerVars, lockVars, tableVars
<1>22. ASSUME NEW w \in Workers, NEW s \in Servers, HandleClose(w, s)
       PROVE  TypeOK'
  <2>1. conn' \in [Workers -> [Servers -> Message]]
    BY <1>22, SendType DEF HandleClose, Message, NoMsg
  <2>. QED  BY <1>22, <2>1 DEF HandleClose, workerVars, lockVars, tableVars
<1>23. ASSUME NEW w \in Workers, NEW s \in Servers, SendClose(w, s)
       PROVE  TypeOK'
  <2>1. conn' \in [Workers -> [Servers -> Message]]
    BY <1>23, SendType DEF SendClose, Message, NoMsg
  <2>. QED  BY <1>23, <2>1 DEF SendClose, workerVars, lockVars, tableVars
<1>. QED
  BY <1>1, <1>2, <1>3, <1>4, <1>5, <1>6, <1>7, <1>8, <1>9, <1>10, <1>11, <1>12,
     <1>13, <1>14, <1>15, <1>16, <1>17, <1>18, <1>19, <1>20, <1>21, <1>22, <1>23
  DEF Next, WorkerStep, ExecutorStep, Terminating
-----------------------------------------------------------------------------
(* Control *)

\* A worker runs a transaction, and keeps the timestamp it took.
LEMMA ControlStep ==
    ASSUME TypeOK, ControlOK, [Next]_vars
    PROVE  ControlOK'
<1>. USE DEF ControlOK, Running, Releasing
<1>1. CASE UNCHANGED vars
  BY <1>1 DEF vars, workerVars
<1>2. ASSUME NEW w \in Workers, Pop(w)
      PROVE  ControlOK'
  BY <1>2 DEF Pop, TypeOK
<1>3. ASSUME NEW w \in Workers, Exit(w)
      PROVE  ControlOK'
  BY <1>3 DEF Exit, TypeOK
<1>4. ASSUME NEW w \in Workers, Finish(w)
      PROVE  ControlOK'
  BY <1>4 DEF Finish, TypeOK
<1>5. ASSUME NEW w \in Workers, PutAll(w)
      PROVE  ControlOK'
  BY <1>5 DEF PutAll, TypeOK, Timestamps
<1>6. ASSUME NEW w \in Workers, GetAll(w)
      PROVE  ControlOK'
  BY <1>6 DEF GetAll, TypeOK
<1>7. ASSUME NEW w \in Workers, BeginRelease(w)
      PROVE  ControlOK'
  BY <1>7 DEF BeginRelease, TypeOK
<1>8. ASSUME NEW w \in Workers, Return(w)
      PROVE  ControlOK'
  BY <1>8 DEF Return, TypeOK
<1>9. ASSUME NEW w \in Workers, NEW k \in Keys, SendPut(w, k)
      PROVE  ControlOK'
  BY <1>9 DEF SendPut, SendKey
<1>10. ASSUME NEW w \in Workers, NEW k \in Keys, SendGet(w, k)
       PROVE  ControlOK'
  BY <1>10 DEF SendGet, SendKey
<1>11. ASSUME NEW w \in Workers, NEW s \in Servers, SendRelease(w, s)
       PROVE  ControlOK'
  BY <1>11 DEF SendRelease, TypeOK
<1>12. ASSUME NEW w \in Workers, NEW s \in Servers, RecvDone(w, s)
       PROVE  ControlOK'
  BY <1>12 DEF RecvDone, workerVars
<1>13. ASSUME NEW w \in Workers, NEW s \in Servers, RecvResult(w, s)
       PROVE  ControlOK'
  BY <1>13 DEF RecvResult, workerVars
<1>14. ASSUME NEW w \in Workers, NEW s \in Servers, WriteLock(w, s)
       PROVE  ControlOK'
  BY <1>14 DEF WriteLock, workerVars
<1>15. ASSUME NEW w \in Workers, NEW s \in Servers, PutItem(w, s)
       PROVE  ControlOK'
  BY <1>15 DEF PutItem, workerVars
<1>16. ASSUME NEW w \in Workers, NEW s \in Servers, CommitKey(w, s)
       PROVE  ControlOK'
  BY <1>16 DEF CommitKey, workerVars
<1>17. ASSUME NEW w \in Workers, NEW s \in Servers, PutDone(w, s)
       PROVE  ControlOK'
  BY <1>17 DEF PutDone, workerVars
<1>18. ASSUME NEW w \in Workers, NEW s \in Servers, ReadLock(w, s)
       PROVE  ControlOK'
  BY <1>18 DEF ReadLock, workerVars
<1>19. ASSUME NEW w \in Workers, NEW s \in Servers, GetItem(w, s)
       PROVE  ControlOK'
  BY <1>19 DEF GetItem, workerVars
<1>20. ASSUME NEW w \in Workers, NEW s \in Servers, Unlock(w, s)
       PROVE  ControlOK'
  BY <1>20 DEF Unlock, workerVars
<1>21. ASSUME NEW w \in Workers, NEW s \in Servers, ReleaseDone(w, s)
       PROVE  ControlOK'
  BY <1>21 DEF ReleaseDone, workerVars
<1>22. ASSUME NEW w \in Workers, NEW s \in Servers, HandleClose(w, s)
       PROVE  ControlOK'
  BY <1>22 DEF HandleClose, workerVars
<1>23. ASSUME NEW w \in Workers, NEW s \in Servers, SendClose(w, s)
       PROVE  ControlOK'
  BY <1>23 DEF SendClose, workerVars
<1>. QED
  BY <1>1, <1>2, <1>3, <1>4, <1>5, <1>6, <1>7, <1>8, <1>9, <1>10, <1>11, <1>12,
     <1>13, <1>14, <1>15, <1>16, <1>17, <1>18, <1>19, <1>20, <1>21, <1>22, <1>23
  DEF Next, WorkerStep, ExecutorStep, Terminating

\* An action keeps MessagesOK for the connections it leaves alone.
LEMMA MessagesStep ==
    ASSUME TypeOK, ControlOK, MessagesOK, [Next]_vars
    PROVE  MessagesOK'
<1>. USE DEF MessagesOK, IsRequest, Releasing
<1>1. CASE UNCHANGED vars
  BY <1>1 DEF vars, workerVars
<1>2. ASSUME NEW w \in Workers, Pop(w)
      PROVE  MessagesOK'
  BY <1>2 DEF Pop, TypeOK, workerVars, NoMsg, Send
<1>3. ASSUME NEW w \in Workers, Exit(w)
      PROVE  MessagesOK'
  BY <1>3 DEF Exit, TypeOK, workerVars, NoMsg, Send
<1>4. ASSUME NEW w \in Workers, Finish(w)
      PROVE  MessagesOK'
  BY <1>4 DEF Finish, TypeOK, workerVars, NoMsg, Send
<1>5. ASSUME NEW w \in Workers, PutAll(w)
      PROVE  MessagesOK'
  BY <1>5 DEF PutAll, TypeOK, workerVars, NoMsg, Send
<1>6. ASSUME NEW w \in Workers, GetAll(w)
      PROVE  MessagesOK'
  BY <1>6 DEF GetAll, TypeOK, workerVars, NoMsg, Send
<1>7. ASSUME NEW w \in Workers, BeginRelease(w)
      PROVE  MessagesOK'
  BY <1>7 DEF BeginRelease, TypeOK, Idle, NoMsg
<1>8. ASSUME NEW w \in Workers, Return(w)
      PROVE  MessagesOK'
  BY <1>8 DEF Return, TypeOK, Idle, NoMsg
<1>9. ASSUME NEW w \in Workers, NEW k \in Keys, SendPut(w, k)
      PROVE  MessagesOK'
  BY <1>9, LockAssumption DEF SendPut, SendKey, Put, Send, TypeOK, NoMsg, Idle
<1>10. ASSUME NEW w \in Workers, NEW k \in Keys, SendGet(w, k)
       PROVE  MessagesOK'
  BY <1>10, LockAssumption DEF SendGet, SendKey, Put, Send, TypeOK, NoMsg, Idle
<1>11. ASSUME NEW w \in Workers, NEW s \in Servers, SendRelease(w, s)
       PROVE  MessagesOK'
  BY <1>11 DEF SendRelease, TypeOK, Send, ControlOK
<1>12. ASSUME NEW w \in Workers, NEW s \in Servers, RecvDone(w, s)
       PROVE  MessagesOK'
  BY <1>12 DEF RecvDone, TypeOK, workerVars, NoMsg, Send
<1>13. ASSUME NEW w \in Workers, NEW s \in Servers, RecvResult(w, s)
       PROVE  MessagesOK'
  BY <1>13 DEF RecvResult, TypeOK, workerVars, NoMsg, Send
<1>14. ASSUME NEW w \in Workers, NEW s \in Servers, WriteLock(w, s)
       PROVE  MessagesOK'
  BY <1>14 DEF WriteLock, TypeOK, workerVars, NoMsg, Send
<1>15. ASSUME NEW w \in Workers, NEW s \in Servers, PutItem(w, s)
       PROVE  MessagesOK'
  BY <1>15 DEF PutItem, TypeOK, workerVars, NoMsg, Send
<1>16. ASSUME NEW w \in Workers, NEW s \in Servers, CommitKey(w, s)
       PROVE  MessagesOK'
  BY <1>16 DEF CommitKey, TypeOK, workerVars, NoMsg, Send
<1>17. ASSUME NEW w \in Workers, NEW s \in Servers, PutDone(w, s)
       PROVE  MessagesOK'
  BY <1>17 DEF PutDone, TypeOK, workerVars, NoMsg, Send
<1>18. ASSUME NEW w \in Workers, NEW s \in Servers, ReadLock(w, s)
       PROVE  MessagesOK'
  BY <1>18 DEF ReadLock, TypeOK, workerVars, NoMsg, Send
<1>19. ASSUME NEW w \in Workers, NEW s \in Servers, GetItem(w, s)
       PROVE  MessagesOK'
  BY <1>19 DEF GetItem, TypeOK, workerVars, NoMsg, Send
<1>20. ASSUME NEW w \in Workers, NEW s \in Servers, Unlock(w, s)
       PROVE  MessagesOK'
  BY <1>20 DEF Unlock, TypeOK, workerVars, NoMsg, Send
<1>21. ASSUME NEW w \in Workers, NEW s \in Servers, ReleaseDone(w, s)
       PROVE  MessagesOK'
  BY <1>21 DEF ReleaseDone, TypeOK, workerVars, NoMsg, Send
<1>22. ASSUME NEW w \in Workers, NEW s \in Servers, HandleClose(w, s)
       PROVE  MessagesOK'
  BY <1>22 DEF HandleClose, TypeOK, workerVars, NoMsg, Send
<1>23. ASSUME NEW w \in Workers, NEW s \in Servers, SendClose(w, s)
       PROVE  MessagesOK'
  BY <1>23 DEF SendClose, TypeOK, workerVars, NoMsg, Send
<1>. QED
  BY <1>1, <1>2, <1>3, <1>4, <1>5, <1>6, <1>7, <1>8, <1>9, <1>10, <1>11, <1>12,
     <1>13, <1>14, <1>15, <1>16, <1>17, <1>18, <1>19, <1>20, <1>21, <1>22, <1>23
  DEF Next, WorkerStep, ExecutorStep, Terminating
-----------------------------------------------------------------------------
(* Locks *)

\* Outside the phases that send something no connection is busy.
LEMMA QuietPhases ==
    ASSUME TypeOK, MessagesOK, NEW w \in Workers, NEW s \in Servers,
           pc[w] \in {"pop", "put_all", "get_all", "returned"}
    PROVE  conn[w][s] = NoMsg
<1>1. conn[w][s] \in Message
  BY DEF TypeOK
<1>2. conn[w][s].type = "none"
  BY <1>1 DEF MessagesOK, Releasing, Message
<1>. QED  BY <1>1, <1>2 DEF Message, NoMsg

\* A request is for a key of the server it was sent to.
LEMMA RequestKey ==
    ASSUME TypeOK, MessagesOK, NEW w \in Workers, NEW s \in Servers, IsRequest(conn[w][s])
    PROVE  /\ conn[w][s].key \in Keys
           /\ ServerOf[conn[w][s].key] = s
           /\ s \in access_coms[w]
<1>1. conn[w][s] \in Message
  BY DEF TypeOK
<1>. QED  BY <1>1, MessageFields DEF MessagesOK, IsRequest

\* What the last step of put changes, for the key j of the request.
PutDoneChange(w, s, j) ==
    /\ j = conn[w][s].key
    /\ conn[w][s].type = "PUT" /\ at[w][s] = "answer" /\ pc[w] = "put"
    /\ j \in Keys /\ ServerOf[j] = s /\ s \in access_coms[w]
    /\ conn'[w][s].type = "DONE" /\ at'[w][s] = "recv"
    /\ \A v \in Workers, r \in Servers :
          \/ v = w /\ r = s
          \/ /\ conn'[v][r] = conn[v][r] /\ at'[v][r] = at[v][r]
             /\ access_keys'[v][r] = access_keys[v][r]
    /\ access_keys'[w][s] = IF KeepsWriteLock THEN access_keys[w][s] \cup {j}
                            ELSE access_keys[w][s]
    /\ \A k \in Keys : k # j => writer'[k] = writer[k]
    /\ writer'[j] = IF WriteDuration # "NONE" /\ ~KeepsWriteLock
                    THEN NoWorker ELSE writer[j]
    /\ readers' = readers
    /\ UNCHANGED <<pc, todo, access_coms, pending_coms>>

LEMMA PutDoneEffect ==
    ASSUME TypeOK, MessagesOK, NEW w \in Workers, NEW s \in Servers, PutDone(w, s)
    PROVE  \E j \in Keys : PutDoneChange(w, s, j)
<1>0. PICK j : j = conn[w][s].key
  OBVIOUS
<1>1. conn[w][s].type = "PUT" /\ at[w][s] = "answer" /\ pc[w] = "put"
  BY DEF PutDone, MessagesOK
<1>2. j \in Keys /\ ServerOf[j] = s /\ s \in access_coms[w]
  BY <1>0, <1>1, RequestKey DEF IsRequest
<1>3. conn'[w][s].type = "DONE" /\ at'[w][s] = "recv"
  BY DEF PutDone, Send, TypeOK
<1>4. access_keys' = [access_keys EXCEPT ![w][s] =
                        IF KeepsWriteLock THEN @ \cup {j} ELSE @]
  <2>1. CASE KeepsWriteLock
    BY <1>0, <2>1 DEF PutDone, TypeOK, KeepsWriteLock
  <2>2. CASE ~KeepsWriteLock
    <3>1. access_keys' = access_keys
      BY <2>2 DEF PutDone, KeepsWriteLock
    <3>2. access_keys = [access_keys EXCEPT ![w][s] = @]
      BY DEF TypeOK
    <3>. QED  BY <2>2, <3>1, <3>2
  <2>. QED  BY <2>1, <2>2
<1>5. \A v \in Workers, r \in Servers :
         \/ v = w /\ r = s
         \/ /\ conn'[v][r] = conn[v][r] /\ at'[v][r] = at[v][r]
            /\ access_keys'[v][r] = access_keys[v][r]
  BY <1>4 DEF PutDone, Send, TypeOK
<1>6. access_keys'[w][s] = IF KeepsWriteLock THEN access_keys[w][s] \cup {j}
                           ELSE access_keys[w][s]
  BY <1>0, <1>4 DEF TypeOK
<1>7. writer' = [writer EXCEPT ![j] = IF WriteDuration # "NONE" /\ ~KeepsWriteLock
                                      THEN NoWorker ELSE @]
  BY <1>0 DEF PutDone
<1>8. /\ \A k \in Keys : k # j => writer'[k] = writer[k]
      /\ writer'[j] = IF WriteDuration # "NONE" /\ ~KeepsWriteLock THEN NoWorker ELSE writer[j]
  BY <1>0, <1>2, <1>7 DEF TypeOK
<1>9. readers' = readers /\ UNCHANGED <<pc, todo, access_coms, pending_coms>>
  BY DEF PutDone, workerVars
<1>. QED  BY <1>0, <1>1, <1>2, <1>3, <1>5, <1>6, <1>8, <1>9 DEF PutDoneChange

\* What the last step of get changes, for the key j of the request.
GetItemChange(w, s, j) ==
    /\ j = conn[w][s].key
    /\ conn[w][s].type = "GET" /\ at[w][s] \in {"recv", "locked"} /\ pc[w] = "get"
    /\ j \in Keys /\ ServerOf[j] = s /\ s \in access_coms[w]
    /\ conn'[w][s].type = "RESULT" /\ at'[w][s] = "recv"
    /\ \A v \in Workers, r \in Servers :
          \/ v = w /\ r = s
          \/ /\ conn'[v][r] = conn[v][r] /\ at'[v][r] = at[v][r]
             /\ access_keys'[v][r] = access_keys[v][r]
    /\ access_keys'[w][s] = IF KeepsReadLock THEN access_keys[w][s] \cup {j}
                            ELSE access_keys[w][s]
    /\ \A k \in Keys : k # j => readers'[k] = readers[k]
    /\ readers'[j] = IF KeepsReadLock THEN readers[j] ELSE readers[j] \ {w}
    /\ writer' = writer
    /\ UNCHANGED <<pc, todo, access_coms, pending_coms>>

LEMMA GetItemEffect ==
    ASSUME TypeOK, MessagesOK, NEW w \in Workers, NEW s \in Servers, GetItem(w, s)
    PROVE  \E j \in Keys : GetItemChange(w, s, j)
<1>0. PICK j : j = conn[w][s].key
  OBVIOUS
<1>1. conn[w][s].type = "GET" /\ at[w][s] \in {"recv", "locked"} /\ pc[w] = "get"
  BY DEF GetItem, MessagesOK
<1>2. j \in Keys /\ ServerOf[j] = s /\ s \in access_coms[w]
  BY <1>0, <1>1, RequestKey DEF IsRequest
<1>3. conn'[w][s].type = "RESULT" /\ at'[w][s] = "recv"
  BY DEF GetItem, Send, TypeOK
<1>4. /\ access_keys' = [access_keys EXCEPT ![w][s] = IF KeepsReadLock THEN @ \cup {j} ELSE @]
      /\ readers' = [readers EXCEPT ![j] = IF KeepsReadLock THEN @ ELSE @ \ {w}]
  <2>1. CASE KeepsReadLock
    <3>1. /\ access_keys' = [access_keys EXCEPT ![w][s] = @ \cup {j}]
          /\ readers' = readers
      BY <1>0, <2>1 DEF GetItem, KeepsReadLock
    <3>2. readers = [readers EXCEPT ![j] = @]
      BY <1>0 DEF TypeOK
    <3>. QED  BY <2>1, <3>1, <3>2
  <2>2. CASE ~KeepsReadLock
    <3>1. /\ readers' = [readers EXCEPT ![j] = @ \ {w}]
          /\ access_keys' = access_keys
      BY <1>0, <2>2 DEF GetItem, KeepsReadLock
    <3>2. access_keys = [access_keys EXCEPT ![w][s] = @]
      BY DEF TypeOK
    <3>. QED  BY <2>2, <3>1, <3>2
  <2>. QED  BY <2>1, <2>2
<1>5. \A v \in Workers, r \in Servers :
         \/ v = w /\ r = s
         \/ /\ conn'[v][r] = conn[v][r] /\ at'[v][r] = at[v][r]
            /\ access_keys'[v][r] = access_keys[v][r]
  BY <1>4 DEF GetItem, Send, TypeOK
<1>6. access_keys'[w][s] = IF KeepsReadLock THEN access_keys[w][s] \cup {j}
                           ELSE access_keys[w][s]
  BY <1>0, <1>4 DEF TypeOK
<1>8. /\ \A k \in Keys : k # j => readers'[k] = readers[k]
      /\ readers'[j] = IF KeepsReadLock THEN readers[j] ELSE readers[j] \ {w}
  BY <1>0, <1>2, <1>4 DEF TypeOK
<1>9. writer' = writer /\ UNCHANGED <<pc, todo, access_coms, pending_coms>>
  BY DEF GetItem, workerVars
<1>. QED  BY <1>0, <1>1, <1>2, <1>3, <1>5, <1>6, <1>8, <1>9 DEF GetItemChange

\* A handler in its loop waits for one answer at a time.
LEMMA OneRequestStep ==
    ASSUME TypeOK, ControlOK, MessagesOK, OneRequest, [Next]_vars
    PROVE  OneRequest'
<1>. USE DEF OneRequest, Locking
<1>1. CASE UNCHANGED vars
  BY <1>1 DEF vars, workerVars
<1>2. ASSUME NEW w \in Workers, Pop(w)
      PROVE  OneRequest'
  BY <1>2 DEF Pop, TypeOK, Send, NoMsg
<1>3. ASSUME NEW w \in Workers, Exit(w)
      PROVE  OneRequest'
  BY <1>3 DEF Exit, TypeOK, Send, NoMsg
<1>4. ASSUME NEW w \in Workers, Finish(w)
      PROVE  OneRequest'
  BY <1>4 DEF Finish, TypeOK, Send, NoMsg
<1>5. ASSUME NEW w \in Workers, PutAll(w)
      PROVE  OneRequest'
  BY <1>5, QuietPhases DEF PutAll, TypeOK
<1>6. ASSUME NEW w \in Workers, GetAll(w)
      PROVE  OneRequest'
  BY <1>6, QuietPhases DEF GetAll, TypeOK
<1>7. ASSUME NEW w \in Workers, BeginRelease(w)
      PROVE  OneRequest'
  BY <1>7 DEF BeginRelease, TypeOK, Send, NoMsg
<1>8. ASSUME NEW w \in Workers, Return(w)
      PROVE  OneRequest'
  BY <1>8 DEF Return, TypeOK, Send, NoMsg
<1>9. ASSUME NEW w \in Workers, NEW k \in Keys, SendPut(w, k)
      PROVE  OneRequest'
  BY <1>9, LockAssumption DEF SendPut, SendKey, Send, TypeOK, NoMsg, Idle
<1>10. ASSUME NEW w \in Workers, NEW k \in Keys, SendGet(w, k)
       PROVE  OneRequest'
  BY <1>10, LockAssumption DEF SendGet, SendKey, Send, TypeOK, NoMsg, Idle
<1>11. ASSUME NEW w \in Workers, NEW s \in Servers, SendRelease(w, s)
       PROVE  OneRequest'
  <2>1. ~Locking(w)
    BY <1>11 DEF SendRelease, ControlOK, Releasing
  <2>2. \A v \in Workers, r \in Servers : v # w => conn'[v][r] = conn[v][r]
    BY <1>11 DEF SendRelease, Send, TypeOK
  <2>3. UNCHANGED <<pc, todo, access_keys>>
    BY <1>11 DEF SendRelease
  <2>. QED  BY <2>1, <2>2, <2>3
<1>12. ASSUME NEW w \in Workers, NEW s \in Servers, RecvDone(w, s)
       PROVE  OneRequest'
  BY <1>12 DEF RecvDone, workerVars, MessagesOK, TypeOK, Send, NoMsg
<1>13. ASSUME NEW w \in Workers, NEW s \in Servers, RecvResult(w, s)
       PROVE  OneRequest'
  BY <1>13 DEF RecvResult, workerVars, MessagesOK, TypeOK, Send, NoMsg
<1>14. ASSUME NEW w \in Workers, NEW s \in Servers, WriteLock(w, s)
       PROVE  OneRequest'
  BY <1>14 DEF WriteLock, workerVars, MessagesOK, TypeOK, Send, NoMsg
<1>15. ASSUME NEW w \in Workers, NEW s \in Servers, PutItem(w, s)
       PROVE  OneRequest'
  BY <1>15 DEF PutItem, workerVars, MessagesOK, TypeOK, Send, NoMsg
<1>16. ASSUME NEW w \in Workers, NEW s \in Servers, CommitKey(w, s)
       PROVE  OneRequest'
  BY <1>16 DEF CommitKey, workerVars, MessagesOK, TypeOK, Send, NoMsg
<1>17. ASSUME NEW w \in Workers, NEW s \in Servers, PutDone(w, s)
       PROVE  OneRequest'
  BY <1>17 DEF PutDone, workerVars, MessagesOK, TypeOK, Send, NoMsg
<1>18. ASSUME NEW w \in Workers, NEW s \in Servers, ReadLock(w, s)
       PROVE  OneRequest'
  BY <1>18 DEF ReadLock, workerVars, MessagesOK, TypeOK, Send, NoMsg
<1>19. ASSUME NEW w \in Workers, NEW s \in Servers, GetItem(w, s)
       PROVE  OneRequest'
  BY <1>19 DEF GetItem, workerVars, MessagesOK, TypeOK, Send, NoMsg
<1>20. ASSUME NEW w \in Workers, NEW s \in Servers, Unlock(w, s)
       PROVE  OneRequest'
  BY <1>20 DEF Unlock, workerVars, MessagesOK, TypeOK, Send, NoMsg
<1>21. ASSUME NEW w \in Workers, NEW s \in Servers, ReleaseDone(w, s)
       PROVE  OneRequest'
  BY <1>21 DEF ReleaseDone, workerVars, MessagesOK, TypeOK, Send, NoMsg
<1>22. ASSUME NEW w \in Workers, NEW s \in Servers, HandleClose(w, s)
       PROVE  OneRequest'
  BY <1>22 DEF HandleClose, workerVars, MessagesOK, TypeOK, Send, NoMsg
<1>23. ASSUME NEW w \in Workers, NEW s \in Servers, SendClose(w, s)
       PROVE  OneRequest'
  BY <1>23 DEF SendClose, workerVars, MessagesOK, TypeOK, Send, NoMsg
<1>. QED
  BY <1>1, <1>2, <1>3, <1>4, <1>5, <1>6, <1>7, <1>8, <1>9, <1>10, <1>11, <1>12,
     <1>13, <1>14, <1>15, <1>16, <1>17, <1>18, <1>19, <1>20, <1>21, <1>22, <1>23
  DEF Next, WorkerStep, ExecutorStep, Terminating

\* Read-write locks exclude writers from everyone else.
LEMMA ExclusionStep ==
    ASSUME TypeOK, ControlOK, MessagesOK, ExclusionOK, [Next]_vars
    PROVE  ExclusionOK'
<1>. USE DEF ExclusionOK
<1>1. CASE UNCHANGED vars
  BY <1>1 DEF vars, workerVars, lockVars
<1>2. ASSUME NEW w \in Workers, Pop(w)
      PROVE  ExclusionOK'
  BY <1>2, LockAssumption DEF Pop, TypeOK, lockVars
<1>3. ASSUME NEW w \in Workers, Exit(w)
      PROVE  ExclusionOK'
  BY <1>3, LockAssumption DEF Exit, TypeOK, lockVars
<1>4. ASSUME NEW w \in Workers, Finish(w)
      PROVE  ExclusionOK'
  BY <1>4, LockAssumption DEF Finish, TypeOK, lockVars
<1>5. ASSUME NEW w \in Workers, PutAll(w)
      PROVE  ExclusionOK'
  BY <1>5, LockAssumption DEF PutAll, TypeOK, lockVars
<1>6. ASSUME NEW w \in Workers, GetAll(w)
      PROVE  ExclusionOK'
  BY <1>6, LockAssumption DEF GetAll, TypeOK, lockVars
<1>7. ASSUME NEW w \in Workers, BeginRelease(w)
      PROVE  ExclusionOK'
  BY <1>7, LockAssumption DEF BeginRelease, TypeOK, lockVars
<1>8. ASSUME NEW w \in Workers, Return(w)
      PROVE  ExclusionOK'
  BY <1>8, LockAssumption DEF Return, TypeOK, lockVars
<1>9. ASSUME NEW w \in Workers, NEW k \in Keys, SendPut(w, k)
      PROVE  ExclusionOK'
  BY <1>9, LockAssumption DEF SendPut, SendKey, Send, Put, TypeOK, NoMsg, Idle, lockVars,
     MessagesOK, IsRequest
<1>10. ASSUME NEW w \in Workers, NEW k \in Keys, SendGet(w, k)
       PROVE  ExclusionOK'
  BY <1>10, LockAssumption DEF SendGet, SendKey, Send, Put, TypeOK, NoMsg, Idle, lockVars,
     MessagesOK, IsRequest
<1>11. ASSUME NEW w \in Workers, NEW s \in Servers, SendRelease(w, s)
       PROVE  ExclusionOK'
  BY <1>11 DEF SendRelease, workerVars, lockVars, MessagesOK, ControlOK, Releasing, TypeOK, Send, NoMsg
<1>12. ASSUME NEW w \in Workers, NEW s \in Servers, RecvDone(w, s)
       PROVE  ExclusionOK'
  BY <1>12 DEF RecvDone, workerVars, lockVars, MessagesOK, ControlOK, Releasing, TypeOK, Send, NoMsg
<1>13. ASSUME NEW w \in Workers, NEW s \in Servers, RecvResult(w, s)
       PROVE  ExclusionOK'
  BY <1>13 DEF RecvResult, workerVars, lockVars, MessagesOK, ControlOK, Releasing, TypeOK, Send, NoMsg
<1>14. ASSUME NEW w \in Workers, NEW s \in Servers, WriteLock(w, s)
       PROVE  ExclusionOK'
  <2>1. PICK j : j = conn[w][s].key
    OBVIOUS
  <2>2. j \in Keys /\ writer[j] = NoWorker /\ readers[j] = {}
    BY <1>14, <2>1, RequestKey DEF WriteLock, CanWriteLock, IsRequest
  <2>3. writer' = [writer EXCEPT ![j] = w] /\ readers' = readers /\ conn' = conn
    BY <1>14, <2>1 DEF WriteLock
  <2>4. \A v \in Workers, r \in Servers : at'[v][r] = at[v][r] \/ (v = w /\ r = s)
    BY <1>14 DEF WriteLock, TypeOK
  <2>5. \A v \in Workers, r \in Servers :
           at[v][r] \in {"locked", "set", "answer"} /\ conn[v][r].type = "PUT" =>
               conn[v][r].key # j /\ conn[v][r].key \in Keys
    BY <2>2, RequestKey, LockAssumption DEF IsRequest
  <2>6. \A k \in Keys : writer'[k] = IF k = j THEN w ELSE writer[k]
    BY <2>2, <2>3 DEF TypeOK
  <2>7. conn[w][s].type = "PUT"
    BY <1>14 DEF WriteLock
  <2>. QED  BY <2>1, <2>2, <2>3, <2>4, <2>5, <2>6, <2>7
<1>15. ASSUME NEW w \in Workers, NEW s \in Servers, PutItem(w, s)
       PROVE  ExclusionOK'
  BY <1>15 DEF PutItem, workerVars, lockVars, MessagesOK, ControlOK, Releasing, TypeOK, Send, NoMsg
<1>16. ASSUME NEW w \in Workers, NEW s \in Servers, CommitKey(w, s)
       PROVE  ExclusionOK'
  BY <1>16 DEF CommitKey, workerVars, lockVars, MessagesOK, ControlOK, Releasing, TypeOK, Send, NoMsg
<1>17. ASSUME NEW w \in Workers, NEW s \in Servers, PutDone(w, s)
       PROVE  ExclusionOK'
  <2>1. PICK j \in Keys : PutDoneChange(w, s, j)
    BY <1>17, PutDoneEffect
  <2>2. writer[j] = w
    BY <1>17, <2>1 DEF PutDoneChange
  <2>3. \A v \in Workers, r \in Servers :
           at[v][r] \in {"locked", "set", "answer"} /\ conn[v][r].type = "PUT" =>
               conn[v][r].key \in Keys /\ ((v = w /\ r = s) \/ conn[v][r].key # j)
    BY <1>17, <2>1, <2>2, RequestKey DEF PutDoneChange, IsRequest
  <2>4. \A k \in Keys : writer'[k] = writer[k] \/ writer'[k] = NoWorker
    BY <1>17, <2>1 DEF PutDoneChange
  <2>. QED  BY <1>17, <2>1, <2>3, <2>4 DEF PutDoneChange
<1>18. ASSUME NEW w \in Workers, NEW s \in Servers, ReadLock(w, s)
       PROVE  ExclusionOK'
  BY <1>18, MessageFields
  DEF ReadLock, MessagesOK, IsRequest, Releasing, TypeOK, Send, CanReadLock, CanWriteLock, KeepsReadLock
<1>19. ASSUME NEW w \in Workers, NEW s \in Servers, GetItem(w, s)
       PROVE  ExclusionOK'
  <2>1. PICK j \in Keys : GetItemChange(w, s, j)
    BY <1>19, GetItemEffect
  <2>2. \A v \in Workers, r \in Servers :
           at[v][r] = "locked" /\ conn[v][r].type = "GET" =>
               conn[v][r].key \in Keys /\ (v # w \/ r = s \/ conn[v][r].key # j)
    BY <1>19, <2>1, RequestKey DEF GetItemChange, IsRequest
  <2>3. \A k \in Keys : readers'[k] \subseteq readers[k]
    BY <1>19, <2>1 DEF GetItemChange
  <2>4. \A k \in Keys, v \in Workers :
           v \in readers[k] => v \in readers'[k] \/ (v = w /\ k = j)
    BY <1>19, <2>1 DEF GetItemChange
  <2>. QED  BY <1>19, <2>1, <2>2, <2>3, <2>4 DEF GetItemChange
<1>20. ASSUME NEW w \in Workers, NEW s \in Servers, Unlock(w, s)
       PROVE  ExclusionOK'
  <2>1. PICK j \in FirstKey(access_keys[w][s]) :
           /\ writer' = [writer EXCEPT ![j] = IF @ = w THEN NoWorker ELSE @]
           /\ readers' = [readers EXCEPT ![j] = @ \ {w}]
    BY <1>20 DEF Unlock
  <2>2. Releasing(w)
    BY <1>20 DEF Unlock, MessagesOK
  <2>3. \A r \in Servers : ~IsRequest(conn[w][r])
    BY <2>2 DEF MessagesOK, IsRequest, Releasing
  <2>4. \A k \in Keys : (writer'[k] = writer[k] \/ (writer'[k] = NoWorker /\ writer[k] = w))
                        /\ readers'[k] \subseteq readers[k] /\ readers[k] \ {w} \subseteq readers'[k]
    BY <2>1 DEF TypeOK
  <2>5. UNCHANGED <<conn, at>>
    BY <1>20 DEF Unlock
  <2>6. \A v \in Workers, r \in Servers : IsRequest(conn[v][r]) => conn[v][r].key \in Keys
    BY RequestKey
  <2>. QED  BY <2>3, <2>4, <2>5, <2>6 DEF IsRequest
<1>21. ASSUME NEW w \in Workers, NEW s \in Servers, ReleaseDone(w, s)
       PROVE  ExclusionOK'
  BY <1>21 DEF ReleaseDone, workerVars, lockVars, MessagesOK, ControlOK, Releasing, TypeOK, Send, NoMsg
<1>22. ASSUME NEW w \in Workers, NEW s \in Servers, HandleClose(w, s)
       PROVE  ExclusionOK'
  BY <1>22 DEF HandleClose, workerVars, lockVars, MessagesOK, ControlOK, Releasing, TypeOK, Send, NoMsg
<1>23. ASSUME NEW w \in Workers, NEW s \in Servers, SendClose(w, s)
       PROVE  ExclusionOK'
  BY <1>23 DEF SendClose, workerVars, lockVars, MessagesOK, ControlOK, Releasing, TypeOK, Send, NoMsg
<1>. QED
  BY <1>1, <1>2, <1>3, <1>4, <1>5, <1>6, <1>7, <1>8, <1>9, <1>10, <1>11, <1>12,
     <1>13, <1>14, <1>15, <1>16, <1>17, <1>18, <1>19, <1>20, <1>21, <1>22, <1>23
  DEF Next, WorkerStep, ExecutorStep, Terminating

\* No lock is forgotten while its worker goes on, if write locks are released
\* at all.
LEMMA LocksStep ==
    ASSUME TypeOK, ControlOK, MessagesOK, ExclusionOK, LocksOK, [Next]_vars,
           WriteDuration # "NONE"
    PROVE  LocksOK'
<1>. USE DEF LocksOK, Locking, Releasing
<1>1. CASE UNCHANGED vars
  BY <1>1 DEF vars, workerVars, lockVars, Holds, Working
<1>2. ASSUME NEW w \in Workers, Pop(w)
      PROVE  LocksOK'
  BY <1>2, LockAssumption DEF Pop, TypeOK, Send, NoMsg, Holds, Working, lockVars
<1>3. ASSUME NEW w \in Workers, Exit(w)
      PROVE  LocksOK'
  BY <1>3, LockAssumption DEF Exit, TypeOK, Send, NoMsg, Holds, Working, lockVars
<1>4. ASSUME NEW w \in Workers, Finish(w)
      PROVE  LocksOK'
  BY <1>4, LockAssumption DEF Finish, TypeOK, Send, NoMsg, Holds, Working, lockVars
<1>5. ASSUME NEW w \in Workers, PutAll(w)
      PROVE  LocksOK'
  BY <1>5, LockAssumption DEF PutAll, TypeOK, Send, NoMsg, Holds, Working, lockVars
<1>6. ASSUME NEW w \in Workers, GetAll(w)
      PROVE  LocksOK'
  BY <1>6, LockAssumption DEF GetAll, TypeOK, Send, NoMsg, Holds, Working, lockVars
<1>7. ASSUME NEW w \in Workers, BeginRelease(w)
      PROVE  LocksOK'
  BY <1>7 DEF BeginRelease, TypeOK, ReleaseAt, Idle, NoMsg, Holds, Working, lockVars
<1>8. ASSUME NEW w \in Workers, Return(w)
      PROVE  LocksOK'
  <2>1. \A r \in Servers : access_keys[w][r] = {}
    BY <1>8 DEF Return, Idle, NoMsg
  <2>2. \A v \in Workers : v # w => pc'[v] = pc[v]
    BY <1>8 DEF Return, TypeOK
  <2>3. UNCHANGED <<access_keys, access_coms, pending_coms, conn, at, writer, readers>>
    BY <1>8 DEF Return, lockVars
  <2>. QED  BY <2>1, <2>2, <2>3 DEF Holds, Working
<1>9. ASSUME NEW w \in Workers, NEW k \in Keys, SendPut(w, k)
      PROVE  LocksOK'
  BY <1>9, LockAssumption DEF SendPut, SendKey, Send, TypeOK, NoMsg, Idle, Holds, Working,
     lockVars, MessagesOK, IsRequest
<1>10. ASSUME NEW w \in Workers, NEW k \in Keys, SendGet(w, k)
       PROVE  LocksOK'
  BY <1>10, LockAssumption DEF SendGet, SendKey, Send, TypeOK, NoMsg, Idle, Holds, Working,
     lockVars, MessagesOK, IsRequest
<1>11. ASSUME NEW w \in Workers, NEW s \in Servers, SendRelease(w, s)
       PROVE  LocksOK'
  <2>1. Releasing(w)
    BY <1>11 DEF SendRelease, ControlOK
  <2>2. at[w][s] \notin {"locked", "set", "answer"}
    BY <2>1 DEF MessagesOK, IsRequest
  <2>. QED  BY <1>11, <2>1, <2>2, LockAssumption DEF SendRelease, TypeOK, Send, Holds, Working, lockVars
<1>12. ASSUME NEW w \in Workers, NEW s \in Servers, RecvDone(w, s)
       PROVE  LocksOK'
  BY <1>12, LockAssumption DEF RecvDone, workerVars, lockVars, MessagesOK, IsRequest,
     TypeOK, Send, NoMsg, Holds, Working
<1>13. ASSUME NEW w \in Workers, NEW s \in Servers, RecvResult(w, s)
       PROVE  LocksOK'
  BY <1>13, LockAssumption DEF RecvResult, workerVars, lockVars, MessagesOK, IsRequest,
     TypeOK, Send, NoMsg, Holds, Working
<1>14. ASSUME NEW w \in Workers, NEW s \in Servers, WriteLock(w, s)
       PROVE  LocksOK'
  BY <1>14, LockAssumption DEF WriteLock, workerVars, lockVars, MessagesOK, IsRequest,
     TypeOK, Send, NoMsg, Holds, Working
<1>15. ASSUME NEW w \in Workers, NEW s \in Servers, PutItem(w, s)
       PROVE  LocksOK'
  BY <1>15, LockAssumption DEF PutItem, workerVars, lockVars, MessagesOK, IsRequest,
     TypeOK, Send, NoMsg, Holds, Working
<1>16. ASSUME NEW w \in Workers, NEW s \in Servers, CommitKey(w, s)
       PROVE  LocksOK'
  BY <1>16, LockAssumption DEF CommitKey, workerVars, lockVars, MessagesOK, IsRequest,
     TypeOK, Send, NoMsg, Holds, Working
<1>17. ASSUME NEW w \in Workers, NEW s \in Servers, PutDone(w, s)
       PROVE  LocksOK'
  <2>1. PICK j \in Keys : PutDoneChange(w, s, j)
    BY <1>17, PutDoneEffect
  <2>2. writer[j] = w /\ readers[j] = {}
    BY <1>17, <2>1, LockAssumption DEF PutDoneChange, ExclusionOK
  <2>3. \A v \in Workers, k \in Keys : Holds(v, k)' => Holds(v, k)
    <3>1. \A k \in Keys : (writer'[k] = writer[k] \/ writer'[k] = NoWorker)
                          /\ readers'[k] \subseteq readers[k]
      BY <2>1 DEF PutDoneChange
    <3>. QED  BY <3>1, LockAssumption DEF Holds
  <2>4. Holds(w, j)' => j \in access_keys'[w][s]
    BY <1>17, <2>1, <2>2, LockAssumption DEF PutDoneChange, Holds
  <2>5. \A v \in Workers, k \in Keys : Working(v, k) => Working(v, k)' \/ (v = w /\ k = j)
    BY <1>17, <2>1, LockAssumption DEF PutDoneChange, Working
  <2>6. \A v \in Workers, r \in Servers : access_keys[v][r] \subseteq access_keys'[v][r]
    BY <1>17, <2>1 DEF PutDoneChange
  <2>7. ASSUME NEW v \in Workers, NEW k \in Keys, Holds(v, k)'
        PROVE  k \in access_keys'[v][ServerOf[k]] \/ Working(v, k)'
    BY <1>17, <2>1, <2>3, <2>4, <2>5, <2>6, <2>7, LockAssumption DEF PutDoneChange
  <2>8. ASSUME NEW v \in Workers, NEW r \in Servers, access_keys'[v][r] # {}
        PROVE  \/ Locking(v)' /\ r \in access_coms'[v]
               \/ Releasing(v)' /\ (r \in pending_coms'[v] \/ conn'[v][r].type = "RELEASE_LOCKS")
    BY <1>17, <2>1, <2>8 DEF PutDoneChange
  <2>. QED  BY <2>7, <2>8
<1>18. ASSUME NEW w \in Workers, NEW s \in Servers, ReadLock(w, s)
       PROVE  LocksOK'
  BY <1>18, LockAssumption DEF ReadLock, workerVars, lockVars, MessagesOK, IsRequest,
     TypeOK, Send, NoMsg, Holds, Working
<1>19. ASSUME NEW w \in Workers, NEW s \in Servers, GetItem(w, s)
       PROVE  LocksOK'
  <2>1. PICK j \in Keys : GetItemChange(w, s, j)
    BY <1>19, GetItemEffect
  <2>2. j \in access_keys[w][s] \/ writer[j] # w
    BY <1>19, <2>1, LockAssumption DEF GetItemChange, ExclusionOK, Holds, Working
  <2>3. \A v \in Workers, k \in Keys : Holds(v, k)' => Holds(v, k)
    <3>1. \A k \in Keys : (writer'[k] = writer[k] \/ writer'[k] = NoWorker)
                          /\ readers'[k] \subseteq readers[k]
      BY <2>1 DEF GetItemChange
    <3>. QED  BY <3>1, LockAssumption DEF Holds
  <2>4. Holds(w, j)' => j \in access_keys'[w][s]
    BY <1>19, <2>1, <2>2, LockAssumption DEF GetItemChange, Holds
  <2>5. \A v \in Workers, k \in Keys : Working(v, k) => Working(v, k)' \/ (v = w /\ k = j)
    BY <1>19, <2>1, LockAssumption DEF GetItemChange, Working
  <2>6. \A v \in Workers, r \in Servers : access_keys[v][r] \subseteq access_keys'[v][r]
    BY <1>19, <2>1 DEF GetItemChange
  <2>7. ASSUME NEW v \in Workers, NEW k \in Keys, Holds(v, k)'
        PROVE  k \in access_keys'[v][ServerOf[k]] \/ Working(v, k)'
    BY <1>19, <2>1, <2>3, <2>4, <2>5, <2>6, <2>7, LockAssumption DEF GetItemChange
  <2>8. ASSUME NEW v \in Workers, NEW r \in Servers, access_keys'[v][r] # {}
        PROVE  \/ Locking(v)' /\ r \in access_coms'[v]
               \/ Releasing(v)' /\ (r \in pending_coms'[v] \/ conn'[v][r].type = "RELEASE_LOCKS")
    BY <1>19, <2>1, <2>8 DEF GetItemChange
  <2>. QED  BY <2>7, <2>8
<1>20. ASSUME NEW w \in Workers, NEW s \in Servers, Unlock(w, s)
       PROVE  LocksOK'
  BY <1>20, LockAssumption DEF Unlock, workerVars, lockVars, MessagesOK, IsRequest,
     TypeOK, Send, NoMsg, Holds, Working
<1>21. ASSUME NEW w \in Workers, NEW s \in Servers, ReleaseDone(w, s)
       PROVE  LocksOK'
  BY <1>21, LockAssumption DEF ReleaseDone, workerVars, lockVars, MessagesOK, IsRequest,
     TypeOK, Send, NoMsg, Holds, Working
<1>22. ASSUME NEW w \in Workers, NEW s \in Servers, HandleClose(w, s)
       PROVE  LocksOK'
  BY <1>22, LockAssumption DEF HandleClose, workerVars, lockVars, MessagesOK, IsRequest,
     TypeOK, Send, NoMsg, Holds, Working
<1>23. ASSUME NEW w \in Workers, NEW s \in Servers, SendClose(w, s)
       PROVE  LocksOK'
  BY <1>23, LockAssumption DEF SendClose, workerVars, lockVars, MessagesOK, IsRequest,
     TypeOK, Send, NoMsg, Holds, Working
<1>. QED
  BY <1>1, <1>2, <1>3, <1>4, <1>5, <1>6, <1>7, <1>8, <1>9, <1>10, <1>11, <1>12,
     <1>13, <1>14, <1>15, <1>16, <1>17, <1>18, <1>19, <1>20, <1>21, <1>22, <1>23
  DEF Next, WorkerStep, ExecutorStep, Terminating

\* Locks are asked for in the order of the keys.
LEMMA OrderStep ==
    ASSUME TypeOK, ControlOK, MessagesOK, OneRequest, LocksOK, OrderOK, [Next]_vars
    PROVE  OrderOK'
<1>. USE DEF OrderOK, Locking
<1>1. CASE UNCHANGED vars
  BY <1>1 DEF vars, workerVars, IsRequest
<1>2. ASSUME NEW w \in Workers, Pop(w)
      PROVE  OrderOK'
  BY <1>2, LockAssumption DEF Pop, TypeOK, Send, NoMsg, IsRequest
<1>3. ASSUME NEW w \in Workers, Exit(w)
      PROVE  OrderOK'
  BY <1>3, LockAssumption DEF Exit, TypeOK, Send, NoMsg, IsRequest
<1>4. ASSUME NEW w \in Workers, Finish(w)
      PROVE  OrderOK'
  BY <1>4, LockAssumption DEF Finish, TypeOK, Send, NoMsg, IsRequest
<1>5. ASSUME NEW w \in Workers, PutAll(w)
      PROVE  OrderOK'
  <2>1. \A r \in Servers : access_keys[w][r] = {}
    BY <1>5 DEF PutAll, LocksOK, Releasing
  <2>2. \A r \in Servers : ~IsRequest(conn[w][r])
    BY <1>5, QuietPhases DEF PutAll, IsRequest, NoMsg
  <2>. QED  BY <1>5, <2>1, <2>2 DEF PutAll, TypeOK, IsRequest
<1>6. ASSUME NEW w \in Workers, GetAll(w)
      PROVE  OrderOK'
  <2>1. \A r \in Servers : access_keys[w][r] = {}
    BY <1>6 DEF GetAll, LocksOK, Releasing
  <2>2. \A r \in Servers : ~IsRequest(conn[w][r])
    BY <1>6, QuietPhases DEF GetAll, IsRequest, NoMsg
  <2>. QED  BY <1>6, <2>1, <2>2 DEF GetAll, TypeOK, IsRequest
<1>7. ASSUME NEW w \in Workers, BeginRelease(w)
      PROVE  OrderOK'
  BY <1>7, LockAssumption DEF BeginRelease, TypeOK, Send, NoMsg, IsRequest
<1>8. ASSUME NEW w \in Workers, Return(w)
      PROVE  OrderOK'
  BY <1>8, LockAssumption DEF Return, TypeOK, Send, NoMsg, IsRequest
<1>9. ASSUME NEW w \in Workers, NEW k \in Keys, SendPut(w, k)
      PROVE  OrderOK'
  BY <1>9, LockAssumption DEF SendPut, SendKey, FirstKey, Send, TypeOK, NoMsg, Idle, IsRequest, Put
<1>10. ASSUME NEW w \in Workers, NEW k \in Keys, SendGet(w, k)
       PROVE  OrderOK'
  BY <1>10, LockAssumption DEF SendGet, SendKey, FirstKey, Send, TypeOK, NoMsg, Idle, IsRequest, Put
<1>11. ASSUME NEW w \in Workers, NEW s \in Servers, SendRelease(w, s)
       PROVE  OrderOK'
  <2>1. ~Locking(w)
    BY <1>11 DEF SendRelease, ControlOK, Releasing
  <2>2. \A v \in Workers, r \in Servers : v # w => conn'[v][r] = conn[v][r]
    BY <1>11 DEF SendRelease, Send, TypeOK
  <2>3. UNCHANGED <<pc, todo, access_keys>>
    BY <1>11 DEF SendRelease
  <2>. QED  BY <2>1, <2>2, <2>3
<1>12. ASSUME NEW w \in Workers, NEW s \in Servers, RecvDone(w, s)
       PROVE  OrderOK'
  BY <1>12, LockAssumption DEF RecvDone, workerVars, MessagesOK, IsRequest, TypeOK, Send, NoMsg, OneRequest
<1>13. ASSUME NEW w \in Workers, NEW s \in Servers, RecvResult(w, s)
       PROVE  OrderOK'
  BY <1>13, LockAssumption DEF RecvResult, workerVars, MessagesOK, IsRequest, TypeOK, Send, NoMsg, OneRequest
<1>14. ASSUME NEW w \in Workers, NEW s \in Servers, WriteLock(w, s)
       PROVE  OrderOK'
  BY <1>14, LockAssumption DEF WriteLock, workerVars, MessagesOK, IsRequest, TypeOK, Send, NoMsg, OneRequest
<1>15. ASSUME NEW w \in Workers, NEW s \in Servers, PutItem(w, s)
       PROVE  OrderOK'
  BY <1>15, LockAssumption DEF PutItem, workerVars, MessagesOK, IsRequest, TypeOK, Send, NoMsg, OneRequest
<1>16. ASSUME NEW w \in Workers, NEW s \in Servers, CommitKey(w, s)
       PROVE  OrderOK'
  BY <1>16, LockAssumption DEF CommitKey, workerVars, MessagesOK, IsRequest, TypeOK, Send, NoMsg, OneRequest
<1>17. ASSUME NEW w \in Workers, NEW s \in Servers, PutDone(w, s)
       PROVE  OrderOK'
  <2>1. PICK j \in Keys : PutDoneChange(w, s, j)
    BY <1>17, PutDoneEffect
  <2>2. IsRequest(conn[w][s])
    BY <1>17, <2>1 DEF PutDoneChange, IsRequest
  <2>3. \A r \in Servers : ~IsRequest(conn'[w][r])
    BY <1>17, <2>1, <2>2 DEF PutDoneChange, OneRequest, IsRequest, NoMsg
  <2>4. \A r \in Servers : access_keys'[w][r] \subseteq access_keys[w][r] \cup {j}
    BY <1>17, <2>1 DEF PutDoneChange
  <2>6. \A v \in Workers, r \in Servers :
           v # w => access_keys'[v][r] = access_keys[v][r] /\ conn'[v][r] = conn[v][r]
    BY <1>17, <2>1 DEF PutDoneChange
  <2>7. UNCHANGED <<pc, todo>>
    BY <1>17, <2>1 DEF PutDoneChange
  <2>8. /\ \A i \in todo[w] : j < i
        /\ \A r \in Servers : \A k \in access_keys'[w][r], i \in todo[w] : k < i
    BY <2>1, <2>2, <2>4 DEF PutDoneChange
  <2>. QED  BY <2>3, <2>6, <2>7, <2>8
<1>18. ASSUME NEW w \in Workers, NEW s \in Servers, ReadLock(w, s)
       PROVE  OrderOK'
  BY <1>18, LockAssumption DEF ReadLock, workerVars, MessagesOK, IsRequest, TypeOK, Send, NoMsg, OneRequest
<1>19. ASSUME NEW w \in Workers, NEW s \in Servers, GetItem(w, s)
       PROVE  OrderOK'
  <2>1. PICK j \in Keys : GetItemChange(w, s, j)
    BY <1>19, GetItemEffect
  <2>2. IsRequest(conn[w][s])
    BY <1>19, <2>1 DEF GetItemChange, IsRequest
  <2>3. \A r \in Servers : ~IsRequest(conn'[w][r])
    BY <1>19, <2>1, <2>2 DEF GetItemChange, OneRequest, IsRequest, NoMsg
  <2>4. \A r \in Servers : access_keys'[w][r] \subseteq access_keys[w][r] \cup {j}
    BY <1>19, <2>1 DEF GetItemChange
  <2>6. \A v \in Workers, r \in Servers :
           v # w => access_keys'[v][r] = access_keys[v][r] /\ conn'[v][r] = conn[v][r]
    BY <1>19, <2>1 DEF GetItemChange
  <2>7. UNCHANGED <<pc, todo>>
    BY <1>19, <2>1 DEF GetItemChange
  <2>8. /\ \A i \in todo[w] : j < i
        /\ \A r \in Servers : \A k \in access_keys'[w][r], i \in todo[w] : k < i
    BY <2>1, <2>2, <2>4 DEF GetItemChange
  <2>. QED  BY <2>3, <2>6, <2>7, <2>8
<1>20. ASSUME NEW w \in Workers, NEW s \in Servers, Unlock(w, s)
       PROVE  OrderOK'
  <2>1. \A v \in Workers, r \in Servers : access_keys'[v][r] \subseteq access_keys[v][r]
    BY <1>20 DEF Unlock, TypeOK
  <2>2. UNCHANGED <<pc, todo, conn>>
    BY <1>20 DEF Unlock, workerVars
  <2>. QED  BY <2>1, <2>2 DEF IsRequest
<1>21. ASSUME NEW w \in Workers, NEW s \in Servers, ReleaseDone(w, s)
       PROVE  OrderOK'
  BY <1>21, LockAssumption DEF ReleaseDone, workerVars, MessagesOK, IsRequest, TypeOK, Send, NoMsg, OneRequest
<1>22. ASSUME NEW w \in Workers, NEW s \in Servers, HandleClose(w, s)
       PROVE  OrderOK'
  BY <1>22, LockAssumption DEF HandleClose, workerVars, MessagesOK, IsRequest, TypeOK, Send, NoMsg, OneRequest
<1>23. ASSUME NEW w \in Workers, NEW s \in Servers, SendClose(w, s)
       PROVE  OrderOK'
  BY <1>23, LockAssumption DEF SendClose, workerVars, MessagesOK, IsRequest, TypeOK, Send, NoMsg, OneRequest
<1>. QED
  BY <1>1, <1>2, <1>3, <1>4, <1>5, <1>6, <1>7, <1>8, <1>9, <1>10, <1>11, <1>12,
     <1>13, <1>14, <1>15, <1>16, <1>17, <1>18, <1>19, <1>20, <1>21, <1>22, <1>23
  DEF Next, WorkerStep, ExecutorStep, Terminating
-----------------------------------------------------------------------------
(* Theorems *)

LEMMA LockInit == Init => LockInv
<1>. SUFFICES ASSUME Init
              PROVE  LockInv
  OBVIOUS
<1>. USE LockAssumption DEF Init
<1>1. TypeOK
  <2>1. EmptyItem \in Version /\ NoMsg \in Message /\ 0 \in TsOrEmpty
    BY DEF EmptyItem, Version, NoMsg, Message, TsOrEmpty
  <2>. QED  BY <2>1 DEF TypeOK
<1>2. \A w \in Workers, s \in Servers : conn[w][s] = NoMsg /\ at[w][s] = "recv"
  OBVIOUS
<1>3. ControlOK /\ MessagesOK
  BY <1>2 DEF ControlOK, MessagesOK, Running, Releasing, IsRequest, NoMsg
<1>4. OneRequest /\ ExclusionOK
  BY <1>2 DEF OneRequest, ExclusionOK
<1>5. LocksOK
  BY DEF LocksOK, Holds
<1>6. OrderOK
  BY DEF OrderOK, Locking
<1>. QED  BY <1>1, <1>3, <1>4, <1>5, <1>6 DEF LockInv

\* Every variable keeps its type, whatever the lock durations are.
THEOREM LockTypeCorrect == Spec => []TypeOK
<1>. DEFINE Inv == TypeOK /\ ControlOK /\ MessagesOK
<1>1. Init => Inv
  BY LockInit DEF LockInv
<1>2. Inv /\ [Next]_vars => Inv'
  BY TypeStep, ControlStep, MessagesStep
<1>. QED  BY <1>1, <1>2, PTL DEF Spec

\* If write locks are released at all, the lock invariant holds in every
\* reachable state: executors remember every lock until it is released, and
\* handlers ask for locks in the order of the keys.
THEOREM LockInvariant == ASSUME WriteDuration # "NONE" PROVE Spec => []LockInv
<1>1. Init => LockInv
  BY LockInit
<1>2. LockInv /\ [Next]_vars => LockInv'
  <2>. SUFFICES ASSUME LockInv, [Next]_vars
                PROVE  LockInv'
    OBVIOUS
  <2>. USE DEF LockInv
  <2>1. TypeOK' /\ ControlOK' /\ MessagesOK'
    BY TypeStep, ControlStep, MessagesStep
  <2>2. OneRequest' /\ ExclusionOK'
    BY OneRequestStep, ExclusionStep
  <2>3. LocksOK' /\ OrderOK'
    BY LocksStep, OrderStep
  <2>. QED  BY <2>1, <2>2, <2>3
<1>. QED  BY <1>1, <1>2, PTL DEF Spec

\* No lock survives the put_all or get_all that took it: RELEASE_LOCKS goes to
\* every server that was asked for a key.
THEOREM NoLockLeftBehind == ASSUME WriteDuration # "NONE" PROVE Spec => []NoLockLeft
<1>1. LockInv => NoLockLeft
  <2>. SUFFICES ASSUME LockInv, NEW w \in Workers, NEW k \in Keys, Holds(w, k),
                       pc[w] \in {"pop", "get_all", "returned", "exit"}
                PROVE  FALSE
    BY DEF NoLockLeft
  <2>1. ~Locking(w) /\ ~Releasing(w)
    BY DEF Locking, Releasing
  <2>2. ServerOf[k] \in Servers
    BY LockAssumption
  <2>3. k \notin access_keys[w][ServerOf[k]]
    BY <2>1, <2>2 DEF LockInv, LocksOK
  <2>4. ~Working(w, k)
    BY <2>1, <2>2 DEF LockInv, MessagesOK, IsRequest, Locking, Working
  <2>. QED  BY <2>3, <2>4 DEF LockInv, LocksOK
<1>. QED  BY <1>1, LockInvariant, PTL

\* In any set of workers some request waits for nobody in the set: the one for
\* the greatest key, for whoever holds that key asks for a greater one.
LEMMA OrderedLocks ==
    ASSUME LockInv, IsFiniteSet(Keys)
    PROVE  NoCircularWait
<1>. DEFINE Asks(w, s) == at[w][s] = "recv" /\ IsRequest(conn[w][s])
<1>. SUFFICES ASSUME NEW W \in SUBSET Workers, W # {},
                     \A w \in W : \E v \in W : WaitsFor(w, v)
              PROVE  FALSE
  BY DEF NoCircularWait
<1>1. ASSUME NEW w \in W
      PROVE  \E v \in W, s \in Servers : Asks(w, s) /\ Holds(v, conn[w][s].key)
  BY DEF WaitsFor, Holds, IsRequest
<1>2. \A w \in W, s \in Servers : Asks(w, s) => conn[w][s].key \in Keys /\ Locking(w)
  BY RequestKey DEF LockInv, MessagesOK, IsRequest, Locking
<1>3. \A w \in W : \A r, s \in Servers : Asks(w, r) /\ Asks(w, s) => r = s
  BY <1>2 DEF LockInv, OneRequest, IsRequest, NoMsg
<1>4. ASSUME NEW v \in W, NEW r \in Servers, Asks(v, r), NEW k \in Keys, Holds(v, k)
      PROVE  k < conn[v][r].key
  <2>1. ServerOf[k] \in Servers
    BY LockAssumption
  <2>2. ~Working(v, k)
    <3>1. SUFFICES ASSUME Working(v, k)
                   PROVE  FALSE
      OBVIOUS
    <3>2. IsRequest(conn[v][ServerOf[k]])
      BY <2>1, <3>1 DEF Working, LockInv, MessagesOK, IsRequest
    <3>3. ServerOf[k] = r
      BY <1>2, <1>4, <2>1, <3>2 DEF LockInv, OneRequest, IsRequest, NoMsg
    <3>. QED  BY <1>4, <3>1, <3>3 DEF Working
  <2>3. k \in access_keys[v][ServerOf[k]]
    BY <1>4, <2>2 DEF LockInv, LocksOK
  <2>. QED  BY <1>2, <1>4, <2>1, <2>3 DEF LockInv, OrderOK
<1>. DEFINE Asked == {k \in Keys : \E w \in W, s \in Servers : Asks(w, s) /\ conn[w][s].key = k}
<1>5. Asked # {}
  BY <1>1, <1>2
<1>6. PICK k \in Asked : \A j \in Asked : ~(k < j)
  <2>. DEFINE Above(i) == {j \in Asked : i < j}
              Aboves == {Above(i) : i \in Asked}
  <2>1. Asked \subseteq Keys /\ Keys \subseteq Nat
    BY LockAssumption
  <2>. HIDE DEF Asked
  <2>2. Aboves \subseteq SUBSET Keys /\ Aboves # {}
    BY <1>5, <2>1
  <2>3. PICK T \in Aboves : \A U \in Aboves : <<U, T>> \notin StrictSubsetOrdering(Keys)
    <3>1. IsWellFoundedOn(StrictSubsetOrdering(Keys), SUBSET Keys)
      BY FS_StrictSubsetOrderingWellFounded, FS_FiniteSubsetsOfFinite
    <3>. HIDE DEF Aboves
    <3>. QED  BY <2>2, <3>1, WFMin
  <2>4. PICK i \in Asked : T = Above(i)
    OBVIOUS
  <2>5. ASSUME NEW j \in Asked, i < j
        PROVE  FALSE
    <3>1. Above(j) \subseteq Above(i)
      <4>1. \A x \in Asked : x \in Nat
        BY <2>1
      <4>2. \A x \in Asked : j < x => i < x
        BY <4>1, <2>5
      <4>. QED  BY <4>2
    <3>2. j \in Above(i) /\ j \notin Above(j)
      BY <2>1, <2>5
    <3>3. <<Above(j), Above(i)>> \notin StrictSubsetOrdering(Keys)
      <4>1. Above(j) \in Aboves
        OBVIOUS
      <4>. HIDE DEF Above, Aboves
      <4>. QED  BY <2>3, <2>4, <4>1
    <3>4. Above(i) \in SUBSET Keys /\ Above(j) \in SUBSET Keys
      BY <2>1
    <3>. HIDE DEF Above
    <3>. QED  BY <3>1, <3>2, <3>3, <3>4 DEF StrictSubsetOrdering
  <2>. QED  BY <2>5
<1>7. PICK w \in W, s \in Servers : Asks(w, s) /\ conn[w][s].key = k
  OBVIOUS
<1>8. PICK v \in W : Holds(v, k)
  BY <1>1, <1>3, <1>7
<1>9. PICK r \in Servers : Asks(v, r)
  BY <1>1
<1>10. k < conn[v][r].key /\ conn[v][r].key \in Asked
  BY <1>2, <1>4, <1>8, <1>9
<1>. QED  BY <1>6, <1>10

\* Lock requests never wait for each other in a circle, for any number of
\* workers, servers and transactions and any finite set of keys.
THEOREM DeadlockFree ==
    ASSUME WriteDuration # "NONE", IsFiniteSet(Keys)
    PROVE  Spec => []NoCircularWait
<1>1. LockInv => NoCircularWait
  BY OrderedLocks
<1>. QED  BY <1>1, LockInvariant, PTL

=============================================================================

--------------------------- MODULE RAMPFastProofs ---------------------------
(***************************************************************************)
(* Proofs about RAMPFast, for every set of keys, servers, workers and      *)
(* transactions.                                                           *)
(***************************************************************************)
EXTENDS RAMPFastInv, RAMPFastVisible, WellFoundedInduction, TLAPS

-----------------------------------------------------------------------------
(* Least and greatest elements *)

\* Min returns an element of a non-empty set of naturals that no other element
\* is below: the index of the first item in GetItemByVer.
LEMMA MinInSet ==
    ASSUME NEW S, S \subseteq Nat, S # {}
    PROVE  Min(S) \in S /\ \A y \in S : Min(S) <= y
<1>. DEFINE R == {ss \in Nat \X Nat : ss[1] < ss[2]}
<1>1. IsWellFoundedOn(R, Nat)
  BY NatLessThanWellFounded, Zenon DEF OpToRel
<1>2. PICK x \in S : \A y \in S : ~ (<<y, x>> \in R)
  <2>. HIDE DEF R
  <2>. QED  BY <1>1, WFMin
<1>3. \A y \in S : x <= y
  <2>. SUFFICES ASSUME NEW y \in S PROVE ~ (y < x)
    OBVIOUS
  <2>1. <<y, x>> \notin R
    BY <1>2
  <2>. QED  BY <2>1
<1>. QED  BY <1>3 DEF Min

\* Max returns the greatest element of a non-empty bounded set of naturals:
\* the newest timestamp in LatestSibling.
LEMMA MaxInSet ==
    ASSUME NEW N \in Nat, NEW S, S \subseteq 0..N, S # {}
    PROVE  Max(S) \in S /\ \A y \in S : Max(S) >= y
<1>. DEFINE T == {N - x : x \in S}
<1>1. T \subseteq Nat /\ T # {}
  <2>1. \A x \in S : N - x \in Nat
    OBVIOUS
  <2>2. T \subseteq Nat
    BY <2>1
  <2>3. PICK x \in S : TRUE
    OBVIOUS
  <2>4. N - x \in T
    OBVIOUS
  <2>. QED  BY <2>2, <2>4
<1>2. Min(T) \in T /\ \A y \in T : Min(T) <= y
  BY <1>1, MinInSet
<1>3. PICK m \in S : Min(T) = N - m
  BY <1>2
<1>4. \A y \in S : m >= y
  <2>. TAKE y \in S
  <2>1. N - m <= N - y
    BY <1>2, <1>3
  <2>. QED  BY <2>1
<1>. QED  BY <1>4 DEF Max
-----------------------------------------------------------------------------
(* Types *)

\* What the fields of a message hold, by the type of the message.
LEMMA MessageFields ==
    ASSUME NEW m \in Message
    PROVE  /\ m.type = "PREPARE" => m.item \in Item
           /\ m.type = "COMMIT" => m.ts \in Timestamps
           /\ m.type = "GET" => m.key \in Keys /\ m.ts \in TsOrEmpty
           /\ m.type = "RESULT" => m.key \in Keys /\ m.item \in Item
  BY DEF Message

\* A transaction's item is an Item.
LEMMA ItemOfType ==
    ASSUME TypeOK, NEW t \in Trxs, NEW k \in Keys
    PROVE  ItemOf(t, k) \in Item
  BY ConstantsAssumption DEF TypeOK, ItemOf, Item, AccessKeys

\* The version number a GET leads to is a timestamp or zero.
LEMMA RequestedVersionType ==
    ASSUME TypeOK, NEW k \in Keys, NEW ts \in TsOrEmpty
    PROVE  RequestedVersion(k, ts) \in TsOrEmpty
  BY DEF TypeOK, RequestedVersion

\* GetItemByVer returns Item() or one of the items stored under the timestamp
\* for the key, and Item() only if there is none.
LEMMA GetItemByVerHit ==
    ASSUME TypeOK, NEW s \in Servers, NEW k \in Keys, NEW ts \in TsOrEmpty
    PROVE  \/ /\ GetItemByVer(s, k, ts) = EmptyItem
              /\ ts # 0 => \A j \in DOMAIN items[s][ts] : items[s][ts][j].key # k
           \/ /\ ts \in Timestamps
              /\ \E j \in DOMAIN items[s][ts] :
                    items[s][ts][j].key = k /\ GetItemByVer(s, k, ts) = items[s][ts][j]
<1>. DEFINE Hits == {j \in DOMAIN items[s][ts] : items[s][ts][j].key = k}
<1>1. CASE ts = 0 \/ Hits = {}
  BY <1>1 DEF GetItemByVer
<1>2. CASE ts # 0 /\ Hits # {}
  <2>1. ts \in Timestamps
    BY <1>2, ConstantsAssumption DEF Timestamps, TsOrEmpty
  <2>2. items[s][ts] \in Seq(Item)
    BY <2>1 DEF TypeOK
  <2>3. Hits \subseteq Nat
    BY <2>2
  <2>4. Min(Hits) \in Hits
    BY <2>3, <1>2, MinInSet
  <2>5. GetItemByVer(s, k, ts) = items[s][ts][Min(Hits)]
    BY <1>2 DEF GetItemByVer
  <2>. QED  BY <2>1, <2>4, <2>5
<1>. QED  BY <1>1, <1>2

\* What GetItemByVer returns is an Item.
LEMMA GetItemByVerType ==
    ASSUME TypeOK, NEW s \in Servers, NEW k \in Keys, NEW ts \in TsOrEmpty
    PROVE  GetItemByVer(s, k, ts) \in Item
<1>1. EmptyItem \in Item
  BY ConstantsAssumption DEF EmptyItem, Item, TsOrEmpty
<1>2. ts \in Timestamps => items[s][ts] \in Seq(Item)
  BY DEF TypeOK
<1>. QED  BY <1>1, <1>2, GetItemByVerHit

\* The timestamp CheckMissing computes for a key is zero or that of a returned
\* item that names the key, and none of those is newer.
LEMMA LatestSiblingMax ==
    ASSUME TypeOK, NEW w \in Workers, NEW k \in Keys
    PROVE  /\ LatestSibling(w, k) \in TsOrEmpty
           /\ LatestSibling(w, k) # 0 =>
                 \E j \in Keys : k \in ret[w][j].trx_keys /\ LatestSibling(w, k) = ret[w][j].ts
           /\ \A j \in Keys : k \in ret[w][j].trx_keys => LatestSibling(w, k) >= ret[w][j].ts
<1>. DEFINE Siblings == {ret[w][j].ts : j \in {r \in Keys : k \in ret[w][r].trx_keys}}
            S == {0} \cup Siblings
<1>1. \A j \in Keys : ret[w][j].ts \in TsOrEmpty
  BY DEF TypeOK, Item
<1>2. Siblings \subseteq TsOrEmpty
  BY <1>1
<1>3. S \subseteq 0..MaxTs /\ S # {}
  BY <1>2, ConstantsAssumption DEF TsOrEmpty
<1>4. Max(S) \in S /\ \A y \in S : Max(S) >= y
  BY <1>3, ConstantsAssumption, MaxInSet
<1>5. LatestSibling(w, k) = Max(S)
  BY DEF LatestSibling
<1>. QED  BY <1>3, <1>4, <1>5 DEF TsOrEmpty

\* Sending a message keeps the connections well typed.
LEMMA SendType ==
    ASSUME TypeOK, NEW w \in Workers, NEW s \in Servers, NEW m \in Message, Send(w, s, m)
    PROVE  conn' \in [Workers -> [Servers -> Message]]
  BY DEF TypeOK, Send

\* So does an executor's move to another state of its loop.
LEMMA ExecutorType ==
    ASSUME TypeOK, NEW w \in Workers, NEW s \in Servers, NEW e \in ExecutorState,
           executor' = [executor EXCEPT ![w][s] = e]
    PROVE  executor' \in [Workers -> [Servers -> ExecutorState]]
  BY DEF TypeOK

\* A step of one executor leaves the others where they are.
LEMMA ExecutorFrame ==
    ASSUME executor \in [Workers -> [Servers -> ExecutorState]],
           NEW w \in Workers, NEW s \in Servers, NEW e,
           executor' = [executor EXCEPT ![w][s] = e]
    PROVE  /\ executor'[w][s] = e
           /\ \A v \in Workers, r \in Servers :
                 <<v, r>> # <<w, s>> => executor'[v][r] = executor[v][r]
  OBVIOUS

\* What the comparison in the loop of commit does.
LEMMA CommitTestMoves ==
    ASSUME NEW w, NEW s, CommitTest(w, s)
    PROVE  /\ executor[w][s].at = "test" /\ executor[w][s].i <= executor[w][s].n
           /\ UNCHANGED workerVars /\ conn' = conn
           /\ items' = items /\ latest_commit' = latest_commit
           /\ \E e \in {[executor[w][s] EXCEPT !.at = "set"], NextItem(executor[w][s])} :
                 executor' = [executor EXCEPT ![w][s] = e]
  BY DEF CommitTest, tableVars

\* What the store in the loop of commit does.
LEMMA CommitSetMoves ==
    ASSUME NEW w, NEW s, CommitSet(w, s)
    PROVE  /\ executor[w][s].at = "set"
           /\ UNCHANGED workerVars /\ conn' = conn /\ items' = items
           /\ executor' = [executor EXCEPT ![w][s] = NextItem(executor[w][s])]
  BY DEF CommitSet

\* The moves of an executor stay among its states.
LEMMA ExecutorMoves ==
    ASSUME NEW e \in ExecutorState
    PROVE  /\ NextItem(e) \in ExecutorState
           /\ [e EXCEPT !.at = "set"] \in ExecutorState
           /\ [e EXCEPT !.at = "closed"] \in ExecutorState
<1>1. e.i + 1 \in Nat
  BY DEF ExecutorState
<1>2. NextItem(e) \in ExecutorState
  BY <1>1 DEF ExecutorState, NextItem
<1>3. [e EXCEPT !.at = "set"] \in ExecutorState
  BY DEF ExecutorState
<1>4. [e EXCEPT !.at = "closed"] \in ExecutorState
  BY DEF ExecutorState
<1>. QED  BY <1>2, <1>3, <1>4

\* Every step keeps every variable in its type.
LEMMA TypeStep ==
    ASSUME TypeOK, ControlOK, MessagesOK, [Next]_vars
    PROVE  TypeOK'
<1>. USE DEF TypeOK
<1>1. CASE UNCHANGED vars
  BY <1>1 DEF vars, workerVars, tableVars
<1>2. ASSUME NEW w \in Workers, Pop(w)
      PROVE  TypeOK'
  BY <1>2 DEF Pop, tableVars
<1>3. ASSUME NEW w \in Workers, Exit(w)
      PROVE  TypeOK'
  BY <1>3 DEF Exit, tableVars
<1>4. ASSUME NEW w \in Workers, Finish(w)
      PROVE  TypeOK'
  BY <1>4 DEF Finish, tableVars
<1>5. ASSUME NEW w \in Workers, PutAll(w)
      PROVE  TypeOK'
  <2>1. trx[w] \in Trxs
    BY <1>5 DEF PutAll, ControlOK, Running
  <2>2. trx_ts' \in [Trxs -> TsOrEmpty]
    BY <1>5, <2>1, ConstantsAssumption DEF PutAll, Timestamps, TsOrEmpty
  <2>3. todo' \in [Workers -> SUBSET Keys]
    BY <1>5, <2>1, ConstantsAssumption DEF PutAll
  <2>. QED  BY <1>5, <2>2, <2>3 DEF PutAll, tableVars
<1>6. ASSUME NEW w \in Workers, BeginCommit(w)
      PROVE  TypeOK'
  BY <1>6 DEF BeginCommit, tableVars
<1>7. ASSUME NEW w \in Workers, PutAllReturn(w)
      PROVE  TypeOK'
  BY <1>7 DEF PutAllReturn, tableVars
<1>8. ASSUME NEW w \in Workers, GetAll(w)
      PROVE  TypeOK'
  <2>1. trx[w] \in Trxs
    BY <1>8 DEF GetAll, ControlOK, Running
  <2>2. todo' \in [Workers -> SUBSET Keys]
    BY <1>8, <2>1, ConstantsAssumption DEF GetAll
  <2>3. EmptyItem \in Item
    BY ConstantsAssumption DEF EmptyItem, Item, TsOrEmpty
  <2>4. ret' \in [Workers -> [Keys -> Item]]
    BY <1>8, <2>3 DEF GetAll
  <2>. QED  BY <1>8, <2>2, <2>4 DEF GetAll, tableVars
<1>9. ASSUME NEW w \in Workers, CheckMissing(w)
      PROVE  TypeOK'
  <2>1. \A k \in Keys : LatestSibling(w, k) \in TsOrEmpty
    BY LatestSiblingMax
  <2>2. trx[w] \in Trxs
    BY <1>9 DEF CheckMissing, ControlOK, Running
  <2>3. {k \in ReadSet[trx[w]] : LatestSibling(w, k) > ret[w][k].ts} \in SUBSET Keys
    BY <2>2, ConstantsAssumption
  <2>4. CASE TrxType = "RAMP_FAST"
    <3>3. [k \in Keys |-> LatestSibling(w, k)] \in [Keys -> TsOrEmpty]
      BY <2>1
    <3>1. v_latest' \in [Workers -> [Keys -> TsOrEmpty]]
      BY <1>9, <3>3, <2>4 DEF CheckMissing
    <3>2. todo' \in [Workers -> SUBSET Keys]
      BY <1>9, <2>3, <2>4 DEF CheckMissing
    <3>. QED  BY <1>9, <2>4, <3>1, <3>2 DEF CheckMissing, tableVars
  <2>5. CASE TrxType # "RAMP_FAST"
    BY <1>9, <2>5 DEF CheckMissing, tableVars
  <2>. QED  BY <2>4, <2>5
<1>10. ASSUME NEW w \in Workers, GetAllReturn(w)
       PROVE  TypeOK'
  BY <1>10 DEF GetAllReturn, tableVars
<1>11. ASSUME NEW w \in Workers, NEW k \in Keys, SendPrepare(w, k)
       PROVE  TypeOK'
  <2>1. trx[w] \in Trxs
    BY <1>11 DEF SendPrepare, ControlOK, Running
  <2>2. [type |-> "PREPARE", item |-> ItemOf(trx[w], k)] \in Message
    BY <2>1, ItemOfType DEF Message
  <2>3. ServerOf[k] \in Servers
    BY ConstantsAssumption
  <2>4. conn' \in [Workers -> [Servers -> Message]]
    BY <1>11, <2>2, <2>3, SendType DEF SendPrepare
  <2>. QED  BY <1>11, <2>3, <2>4 DEF SendPrepare, tableVars
<1>12. ASSUME NEW w \in Workers, NEW k \in Keys, SendGet(w, k)
       PROVE  TypeOK'
  <2>1. [type |-> "GET", key |-> k,
         ts |-> IF pc[w] = "round1" THEN 0 ELSE v_latest[w][k]] \in Message
    BY ConstantsAssumption DEF Message, TsOrEmpty
  <2>2. ServerOf[k] \in Servers
    BY ConstantsAssumption
  <2>3. conn' \in [Workers -> [Servers -> Message]]
    BY <1>12, <2>1, <2>2, SendType DEF SendGet
  <2>. QED  BY <1>12, <2>2, <2>3 DEF SendGet, tableVars
<1>13. ASSUME NEW w \in Workers, NEW s \in Servers, SendCommit(w, s)
       PROVE  TypeOK'
  <2>1. trx[w] \in Trxs /\ trx_ts[trx[w]] # 0
    BY <1>13 DEF SendCommit, ControlOK, Running
  <2>2. Commit(trx_ts[trx[w]]) \in Message
    BY <2>1, ConstantsAssumption DEF Message, Commit, TsOrEmpty, Timestamps
  <2>3. conn' \in [Workers -> [Servers -> Message]]
    BY <1>13, <2>2, SendType DEF SendCommit
  <2>. QED  BY <1>13, <2>3 DEF SendCommit, tableVars
<1>14. ASSUME NEW w \in Workers, NEW s \in Servers, RecvDone(w, s)
       PROVE  TypeOK'
  BY <1>14, SendType DEF RecvDone, workerVars, tableVars, Message, Close, NoMsg
<1>15. ASSUME NEW w \in Workers, NEW s \in Servers, RecvResult(w, s)
       PROVE  TypeOK'
  <2>1. conn[w][s] \in Message
    OBVIOUS
  <2>2. conn[w][s].key \in Keys /\ conn[w][s].item \in Item
    BY <1>15, <2>1, MessageFields DEF RecvResult
  <2>3. conn' \in [Workers -> [Servers -> Message]]
    BY <1>15, SendType DEF RecvResult, Message, NoMsg
  <2>. QED  BY <1>15, <2>2, <2>3 DEF RecvResult, tableVars
<1>16. ASSUME NEW w \in Workers, NEW s \in Servers, Prepare(w, s)
       PROVE  TypeOK'
  <2>. DEFINE item == conn[w][s].item
  <2>1. conn[w][s] \in Message
    OBVIOUS
  <2>2. item \in Item
    BY <1>16, <2>1, MessageFields DEF Prepare
  <2>3. conn' \in [Workers -> [Servers -> Message]]
    BY <1>16, SendType DEF Prepare, Message, Done
  <2>4. items' = [items EXCEPT ![s][item.ts] = Append(@, item)]
    BY <1>16 DEF Prepare
  <2>5. item.ts \in Timestamps => Append(items[s][item.ts], item) \in Seq(Item)
    BY <2>2
  <2>. HIDE DEF item
  <2>7. items' \in [Servers -> [Timestamps -> Seq(Item)]]
    BY <2>4, <2>5
  <2>. QED  BY <1>16, <2>3, <2>7 DEF Prepare, workerVars
<1>17. ASSUME NEW w \in Workers, NEW s \in Servers, Get(w, s)
       PROVE  TypeOK'
  <2>1. conn[w][s] \in Message
    OBVIOUS
  <2>. DEFINE k == conn[w][s].key
              item == GetItemByVer(s, k, RequestedVersion(k, conn[w][s].ts))
  <2>2. k \in Keys /\ conn[w][s].ts \in TsOrEmpty
    BY <1>17, <2>1, MessageFields DEF Get
  <2>3. item \in Item
    BY <2>2, RequestedVersionType, GetItemByVerType
  <2>4. Result(k, item) \in Message
    BY <2>2, <2>3 DEF Message, Result
  <2>5. conn' \in [Workers -> [Servers -> Message]]
    BY <1>17, <2>4, SendType DEF Get
  <2>. QED  BY <1>17, <2>5 DEF Get, workerVars, tableVars
<1>18. ASSUME NEW w \in Workers, NEW s \in Servers, HandleClose(w, s)
       PROVE  TypeOK'
  <2>. DEFINE e == [executor[w][s] EXCEPT !.at = "closed"]
  <2>1. e \in ExecutorState
    <3>1. executor[w][s] \in ExecutorState
      OBVIOUS
    <3>. QED  BY <3>1, ExecutorMoves
  <2>4. executor' = [executor EXCEPT ![w][s] = e]
    BY <1>18 DEF HandleClose
  <2>2. executor' \in [Workers -> [Servers -> ExecutorState]]
    <3>. HIDE DEF e
    <3>. QED  BY <2>1, <2>4, ExecutorType
  <2>3. conn' \in [Workers -> [Servers -> Message]]
    BY <1>18, SendType DEF HandleClose, Message, NoMsg
  <2>. QED  BY <1>18, <2>2, <2>3 DEF HandleClose, workerVars, tableVars
<1>19. ASSUME NEW w \in Workers, NEW s \in Servers, CommitBegin(w, s)
       PROVE  TypeOK'
  <2>. DEFINE e == [at |-> "test", i |-> 1, n |-> Len(items[s][conn[w][s].ts])]
  <2>1. conn[w][s] \in Message
    OBVIOUS
  <2>2. conn[w][s].ts \in Timestamps
    BY <1>19, <2>1, MessageFields DEF CommitBegin
  <2>3. e \in ExecutorState
    BY <2>2 DEF ExecutorState
  <2>4. executor' \in [Workers -> [Servers -> ExecutorState]]
    BY <1>19, <2>3, ExecutorType DEF CommitBegin
  <2>. QED  BY <1>19, <2>4 DEF CommitBegin, workerVars, tableVars
<1>20. ASSUME NEW w \in Workers, NEW s \in Servers, CommitTest(w, s)
       PROVE  TypeOK'
  <2>. DEFINE e == executor[w][s]
  <2>1. [e EXCEPT !.at = "set"] \in ExecutorState /\ NextItem(e) \in ExecutorState
    BY ExecutorMoves
  <2>3. \E x \in ExecutorState : executor' = [executor EXCEPT ![w][s] = x]
    <3>. HIDE DEF TypeOK, ControlOK, MessagesOK, LoopOK
    <3>1. \E x \in {[executor[w][s] EXCEPT !.at = "set"], NextItem(executor[w][s])} :
             executor' = [executor EXCEPT ![w][s] = x]
      BY <1>20, CommitTestMoves
    <3>. QED  BY <2>1, <3>1
  <2>2. executor' \in [Workers -> [Servers -> ExecutorState]]
    BY <2>3, ExecutorType
  <2>. QED  BY <1>20, <2>2 DEF CommitTest, workerVars, tableVars
<1>21. ASSUME NEW w \in Workers, NEW s \in Servers, CommitSet(w, s)
       PROVE  TypeOK'
  <2>. DEFINE ts_c == conn[w][s].ts
              k == items[s][ts_c][executor[w][s].i].key
  <2>1. conn[w][s] \in Message
    OBVIOUS
  <2>2. ts_c \in Timestamps
    BY <1>21, <2>1, MessageFields DEF CommitSet, MessagesOK
  <2>3. k \in Keys => CommittedTs(latest_commit[k], ts_c) \in TsOrEmpty
    <3>. HIDE DEF k, ts_c
    <3>. QED  BY <2>2, ConstantsAssumption DEF CommittedTs, Timestamps, TsOrEmpty
  <2>4. latest_commit' = [latest_commit EXCEPT ![k] = CommittedTs(@, ts_c)]
    BY <1>21 DEF CommitSet
  <2>5. latest_commit' \in [Keys -> TsOrEmpty]
    BY <2>3, <2>4
  <2>6. NextItem(executor[w][s]) \in ExecutorState
    BY ExecutorMoves
  <2>7. executor' \in [Workers -> [Servers -> ExecutorState]]
    BY <1>21, <2>6, ExecutorType DEF CommitSet
  <2>. QED  BY <1>21, <2>5, <2>7 DEF CommitSet, workerVars
<1>22. ASSUME NEW w \in Workers, NEW s \in Servers, CommitDone(w, s)
       PROVE  TypeOK'
  <2>1. Receiving \in ExecutorState
    BY DEF Receiving, ExecutorState
  <2>2. executor' \in [Workers -> [Servers -> ExecutorState]]
    BY <1>22, <2>1, ExecutorType DEF CommitDone
  <2>3. conn' \in [Workers -> [Servers -> Message]]
    BY <1>22, SendType DEF CommitDone, Message, Done
  <2>. QED  BY <1>22, <2>2, <2>3 DEF CommitDone, workerVars, tableVars
<1>23. ASSUME NEW w \in Workers, NEW s \in Servers, SendClose(w, s)
       PROVE  TypeOK'
  BY <1>23, SendType DEF SendClose, workerVars, tableVars, Message, Close, NoMsg
<1>. QED
  BY <1>1, <1>2, <1>3, <1>4, <1>5, <1>6, <1>7, <1>8, <1>9, <1>10, <1>11, <1>12, <1>13, <1>14, <1>15, <1>16, <1>17, <1>18, <1>19, <1>20, <1>21, <1>22, <1>23
  DEF Next, WorkerStep, ExecutorStep, Terminating

\* Every step keeps each transaction with one worker at most.
LEMMA ControlStep ==
    ASSUME TypeOK, ControlOK, [Next]_vars
    PROVE  ControlOK'
<1>. USE DEF TypeOK, ControlOK, Running, Reading
<1>1. CASE UNCHANGED vars
  BY <1>1 DEF vars, workerVars
<1>2. ASSUME NEW w \in Workers, Pop(w)
      PROVE  ControlOK'
  BY <1>2 DEF Pop
<1>3. ASSUME NEW w \in Workers, Exit(w)
      PROVE  ControlOK'
  BY <1>3 DEF Exit
<1>4. ASSUME NEW w \in Workers, Finish(w)
      PROVE  ControlOK'
  BY <1>4 DEF Finish
<1>5. ASSUME NEW w \in Workers, PutAll(w)
      PROVE  ControlOK'
  <2>1. PICK now \in Timestamps : trx_ts' = [trx_ts EXCEPT ![trx[w]] = now]
    BY <1>5 DEF PutAll
  <2>2. pc' = [pc EXCEPT ![w] = "prepare"] /\ trx' = trx /\ queue' = queue
    BY <1>5 DEF PutAll
  <2>3. trx[w] \in Trxs /\ trx[w] \notin queue
    BY <1>5 DEF PutAll
  <2>4. now # 0
    BY ConstantsAssumption DEF Timestamps
  <2>5. \A t \in queue' : trx_ts'[t] = 0
    BY <2>1, <2>2, <2>3
  <2>6. ASSUME NEW v \in Workers, pc'[v] = "put_all"
        PROVE  trx_ts'[trx'[v]] = 0
    <3>1. v # w /\ pc[v] = "put_all" /\ pc[w] = "put_all"
      BY <1>5, <2>2, <2>6 DEF PutAll
    <3>2. trx[v] # trx[w] /\ trx_ts[trx[v]] = 0 /\ trx[v] \in Trxs
      BY <3>1
    <3>. HIDE DEF TypeOK, ControlOK
    <3>3. trx_ts'[trx[v]] = trx_ts[trx[v]]
      <4>1. trx_ts \in [Trxs -> TsOrEmpty]
        BY DEF TypeOK
      <4>. QED  BY <2>1, <3>2, <4>1
    <3>. QED  BY <2>2, <3>2, <3>3
  <2>7. \A v \in Workers : pc'[v] \in {"prepare", "commit"} => trx_ts'[trx'[v]] # 0
    BY <2>1, <2>2, <2>3, <2>4
  <2>8. \A v \in Workers : Running(v)' => Running(v)
    BY <1>5, <2>2 DEF PutAll
  <2>9. todo' = [todo EXCEPT ![w] = WriteSet[trx[w]]]
    BY <1>5 DEF PutAll
  <2>. QED  BY <2>2, <2>9, <2>5, <2>6, <2>7, <2>8
<1>6. ASSUME NEW w \in Workers, BeginCommit(w)
      PROVE  ControlOK'
  BY <1>6 DEF BeginCommit
<1>7. ASSUME NEW w \in Workers, PutAllReturn(w)
      PROVE  ControlOK'
  BY <1>7 DEF PutAllReturn
<1>8. ASSUME NEW w \in Workers, GetAll(w)
      PROVE  ControlOK'
  BY <1>8 DEF GetAll
<1>9. ASSUME NEW w \in Workers, CheckMissing(w)
      PROVE  ControlOK'
  <2>1. \A v \in Workers : v # w => pc'[v] = pc[v] /\ todo'[v] = todo[v]
    BY <1>9 DEF CheckMissing
  <2>2. pc[w] = "round1" /\ pc'[w] \in {"round2", "returned"}
    BY <1>9 DEF CheckMissing
  <2>3. pc'[w] = "round2" => todo'[w] \subseteq ReadSet[trx[w]]
    BY <1>9 DEF CheckMissing
  <2>4. queue' = queue /\ trx' = trx /\ trx_ts' = trx_ts
    BY <1>9 DEF CheckMissing
  <2>. QED  BY <2>1, <2>2, <2>3, <2>4
<1>10. ASSUME NEW w \in Workers, GetAllReturn(w)
       PROVE  ControlOK'
  BY <1>10 DEF GetAllReturn
<1>11. ASSUME NEW w \in Workers, NEW k \in Keys, SendPrepare(w, k)
       PROVE  ControlOK'
  BY <1>11 DEF SendPrepare
<1>12. ASSUME NEW w \in Workers, NEW k \in Keys, SendGet(w, k)
       PROVE  ControlOK'
  BY <1>12 DEF SendGet
<1>13. ASSUME NEW w \in Workers, NEW s \in Servers, SendCommit(w, s)
       PROVE  ControlOK'
  BY <1>13 DEF SendCommit
<1>14. ASSUME NEW w \in Workers, NEW s \in Servers, RecvDone(w, s)
       PROVE  ControlOK'
  BY <1>14 DEF RecvDone, workerVars
<1>15. ASSUME NEW w \in Workers, NEW s \in Servers, RecvResult(w, s)
       PROVE  ControlOK'
  BY <1>15 DEF RecvResult
<1>16. ASSUME NEW w \in Workers, NEW s \in Servers, Prepare(w, s)
       PROVE  ControlOK'
  BY <1>16 DEF Prepare, workerVars
<1>17. ASSUME NEW w \in Workers, NEW s \in Servers, Get(w, s)
       PROVE  ControlOK'
  BY <1>17 DEF Get, workerVars
<1>18. ASSUME NEW w \in Workers, NEW s \in Servers, HandleClose(w, s)
       PROVE  ControlOK'
  BY <1>18 DEF HandleClose, workerVars
<1>19. ASSUME NEW w \in Workers, NEW s \in Servers, CommitBegin(w, s)
       PROVE  ControlOK'
  BY <1>19 DEF CommitBegin, workerVars
<1>20. ASSUME NEW w \in Workers, NEW s \in Servers, CommitTest(w, s)
       PROVE  ControlOK'
  BY <1>20 DEF CommitTest, workerVars
<1>21. ASSUME NEW w \in Workers, NEW s \in Servers, CommitSet(w, s)
       PROVE  ControlOK'
  BY <1>21 DEF CommitSet, workerVars
<1>22. ASSUME NEW w \in Workers, NEW s \in Servers, CommitDone(w, s)
       PROVE  ControlOK'
  BY <1>22 DEF CommitDone, workerVars
<1>23. ASSUME NEW w \in Workers, NEW s \in Servers, SendClose(w, s)
       PROVE  ControlOK'
  BY <1>23 DEF SendClose, workerVars
<1>. QED
  BY <1>1, <1>2, <1>3, <1>4, <1>5, <1>6, <1>7, <1>8, <1>9, <1>10, <1>11, <1>12, <1>13, <1>14, <1>15, <1>16, <1>17, <1>18, <1>19, <1>20, <1>21, <1>22, <1>23
  DEF Next, WorkerStep, ExecutorStep, Terminating

\* Every step keeps each message in the phase of its worker that it belongs to.
LEMMA MessagesStep ==
    ASSUME TypeOK, ControlOK, MessagesOK, [Next]_vars
    PROVE  MessagesOK'
<1>. USE DEF TypeOK, ControlOK, MessagesOK, Running, Reading
<1>1. CASE UNCHANGED vars
  BY <1>1 DEF vars, workerVars
<1>2. ASSUME NEW w \in Workers, Pop(w)
      PROVE  MessagesOK'
  BY <1>2 DEF Pop, tableVars
<1>3. ASSUME NEW w \in Workers, Exit(w)
      PROVE  MessagesOK'
  BY <1>3 DEF Exit, tableVars
<1>4. ASSUME NEW w \in Workers, Finish(w)
      PROVE  MessagesOK'
  BY <1>4 DEF Finish, tableVars
<1>5. ASSUME NEW w \in Workers, PutAll(w)
      PROVE  MessagesOK'
  BY <1>5 DEF PutAll, tableVars
<1>6. ASSUME NEW w \in Workers, BeginCommit(w)
      PROVE  MessagesOK'
  BY <1>6 DEF BeginCommit, tableVars, AllAnswered, Idle, NoMsg
<1>7. ASSUME NEW w \in Workers, PutAllReturn(w)
      PROVE  MessagesOK'
  BY <1>7 DEF PutAllReturn, tableVars, AllAnswered, Idle, NoMsg
<1>8. ASSUME NEW w \in Workers, GetAll(w)
      PROVE  MessagesOK'
  BY <1>8 DEF GetAll, tableVars
<1>9. ASSUME NEW w \in Workers, CheckMissing(w)
      PROVE  MessagesOK'
  BY <1>9 DEF CheckMissing, tableVars, AllAnswered, Idle, NoMsg
<1>10. ASSUME NEW w \in Workers, GetAllReturn(w)
       PROVE  MessagesOK'
  BY <1>10 DEF GetAllReturn, tableVars, AllAnswered, Idle, NoMsg
<1>11. ASSUME NEW w \in Workers, NEW k \in Keys, SendPrepare(w, k)
       PROVE  MessagesOK'
  BY <1>11, ConstantsAssumption DEF SendPrepare, tableVars, Send, NoMsg, Commit
<1>12. ASSUME NEW w \in Workers, NEW k \in Keys, SendGet(w, k)
       PROVE  MessagesOK'
  BY <1>12, ConstantsAssumption DEF SendGet, tableVars, Send, NoMsg, Commit
<1>13. ASSUME NEW w \in Workers, NEW s \in Servers, SendCommit(w, s)
       PROVE  MessagesOK'
  BY <1>13, ConstantsAssumption DEF SendCommit, tableVars, Send, NoMsg, Commit
<1>14. ASSUME NEW w \in Workers, NEW s \in Servers, RecvDone(w, s)
       PROVE  MessagesOK'
  BY <1>14 DEF RecvDone, workerVars, tableVars, Send, NoMsg, Done, Close, Result, Receiving, NextItem
<1>15. ASSUME NEW w \in Workers, NEW s \in Servers, RecvResult(w, s)
       PROVE  MessagesOK'
  BY <1>15, ConstantsAssumption DEF RecvResult, tableVars, Send, NoMsg, Commit
<1>16. ASSUME NEW w \in Workers, NEW s \in Servers, Prepare(w, s)
       PROVE  MessagesOK'
  BY <1>16 DEF Prepare, workerVars, tableVars, Send, NoMsg, Done, Close, Result, Receiving, NextItem
<1>17. ASSUME NEW w \in Workers, NEW s \in Servers, Get(w, s)
       PROVE  MessagesOK'
  BY <1>17 DEF Get, workerVars, tableVars, Send, NoMsg, Done, Close, Result, Receiving, NextItem
<1>18. ASSUME NEW w \in Workers, NEW s \in Servers, HandleClose(w, s)
       PROVE  MessagesOK'
  BY <1>18 DEF HandleClose, workerVars, tableVars, Send, NoMsg, Done, Close, Result, Receiving, NextItem
<1>19. ASSUME NEW w \in Workers, NEW s \in Servers, CommitBegin(w, s)
       PROVE  MessagesOK'
  BY <1>19 DEF CommitBegin, workerVars, tableVars, Send, NoMsg, Done, Close, Result, Receiving, NextItem
<1>20. ASSUME NEW w \in Workers, NEW s \in Servers, CommitTest(w, s)
       PROVE  MessagesOK'
  <2>1. /\ executor[w][s].at = "test" /\ conn' = conn
        /\ UNCHANGED workerVars
        /\ \E e : executor' = [executor EXCEPT ![w][s] = e]
    <3>. HIDE DEF TypeOK, ControlOK, MessagesOK
    <3>. QED  BY <1>20, CommitTestMoves
  <2>2. pc' = pc /\ trx' = trx /\ trx_ts' = trx_ts /\ conn' = conn
    BY <2>1 DEF workerVars
  <2>3. \A v \in Workers, r \in Servers :
           <<v, r>> # <<w, s>> => executor'[v][r] = executor[v][r]
    BY <2>1, ExecutorFrame
  <2>4. \A v \in Workers, r \in Servers :
           executor'[v][r].at \in {"test", "set"} => executor[v][r].at \in {"test", "set"}
    BY <2>1, <2>3
  <2>. HIDE DEF TypeOK, ControlOK
  <2>. QED  BY <2>2, <2>4
<1>21. ASSUME NEW w \in Workers, NEW s \in Servers, CommitSet(w, s)
       PROVE  MessagesOK'
  <2>1. /\ executor[w][s].at = "set" /\ conn' = conn
        /\ UNCHANGED workerVars
        /\ \E e : executor' = [executor EXCEPT ![w][s] = e]
    <3>. HIDE DEF TypeOK, ControlOK, MessagesOK
    <3>. QED  BY <1>21, CommitSetMoves
  <2>2. pc' = pc /\ trx' = trx /\ trx_ts' = trx_ts /\ conn' = conn
    BY <2>1 DEF workerVars
  <2>3. \A v \in Workers, r \in Servers :
           <<v, r>> # <<w, s>> => executor'[v][r] = executor[v][r]
    BY <2>1, ExecutorFrame
  <2>4. \A v \in Workers, r \in Servers :
           executor'[v][r].at \in {"test", "set"} => executor[v][r].at \in {"test", "set"}
    BY <2>1, <2>3
  <2>. HIDE DEF TypeOK, ControlOK
  <2>. QED  BY <2>2, <2>4
<1>22. ASSUME NEW w \in Workers, NEW s \in Servers, CommitDone(w, s)
       PROVE  MessagesOK'
  BY <1>22 DEF CommitDone, workerVars, tableVars, Send, NoMsg, Done, Close, Result, Receiving, NextItem
<1>23. ASSUME NEW w \in Workers, NEW s \in Servers, SendClose(w, s)
       PROVE  MessagesOK'
  BY <1>23 DEF SendClose, workerVars, tableVars, Send, NoMsg, Done, Close, Result, Receiving, NextItem
<1>. QED
  BY <1>1, <1>2, <1>3, <1>4, <1>5, <1>6, <1>7, <1>8, <1>9, <1>10, <1>11, <1>12, <1>13, <1>14, <1>15, <1>16, <1>17, <1>18, <1>19, <1>20, <1>21, <1>22, <1>23
  DEF Next, WorkerStep, ExecutorStep, Terminating

\* new holds at least what old holds, at the same places.
Grows(old, new) ==
    /\ Len(new) >= Len(old)
    /\ \A j \in DOMAIN old : j \in DOMAIN new /\ new[j] = old[j]

Stable ==
    /\ \A t \in Trxs : trx_ts[t] # 0 => trx_ts'[t] = trx_ts[t]
    /\ \A r \in Servers, ts \in Timestamps : Grows(items[r][ts], items'[r][ts])

\* A sequence grows into itself.
LEMMA GrowsReflexive ==
    ASSUME TypeOK
    PROVE  \A r \in Servers, ts \in Timestamps : Grows(items[r][ts], items[r][ts])
<1>1. \A r \in Servers, ts \in Timestamps : Len(items[r][ts]) \in Nat
  BY DEF TypeOK
<1>. QED  BY <1>1 DEF Grows

\* A sequence grows when an element is appended to it.
LEMMA GrowsAppend ==
    ASSUME NEW S, NEW q \in Seq(S), NEW x \in S
    PROVE  Grows(q, Append(q, x))
<1>1. Len(q) \in Nat /\ DOMAIN q = 1..Len(q)
  OBVIOUS
<1>2. Len(Append(q, x)) = Len(q) + 1 /\ DOMAIN Append(q, x) = 1..Len(q) + 1
  OBVIOUS
<1>3. \A j \in 1..Len(q) : Append(q, x)[j] = q[j]
  OBVIOUS
<1>. QED  BY <1>1, <1>2, <1>3 DEF Grows

\* No step takes back a timestamp or an item.
LEMMA StoreGrows ==
    ASSUME TypeOK, ControlOK, [Next]_vars
    PROVE  Stable
<1>. USE DEF TypeOK
<1>. DEFINE Same == items' = items /\ \A t \in Trxs : trx_ts[t] # 0 => trx_ts'[t] = trx_ts[t]
<1>0. Same => Stable
  BY GrowsReflexive DEF Stable
<1>1. ASSUME UNCHANGED vars
      PROVE  Same
  BY <1>1 DEF vars, workerVars, tableVars
<1>2. ASSUME NEW w \in Workers, Pop(w)
      PROVE  Same
  BY <1>2 DEF Pop, workerVars, tableVars
<1>3. ASSUME NEW w \in Workers, Exit(w)
      PROVE  Same
  BY <1>3 DEF Exit, workerVars, tableVars
<1>4. ASSUME NEW w \in Workers, Finish(w)
      PROVE  Same
  BY <1>4 DEF Finish, workerVars, tableVars
<1>5. ASSUME NEW w \in Workers, PutAll(w)
      PROVE  Same
  BY <1>5 DEF PutAll, tableVars, ControlOK, Running
<1>6. ASSUME NEW w \in Workers, BeginCommit(w)
      PROVE  Same
  BY <1>6 DEF BeginCommit, workerVars, tableVars
<1>7. ASSUME NEW w \in Workers, PutAllReturn(w)
      PROVE  Same
  BY <1>7 DEF PutAllReturn, workerVars, tableVars
<1>8. ASSUME NEW w \in Workers, GetAll(w)
      PROVE  Same
  BY <1>8 DEF GetAll, workerVars, tableVars
<1>9. ASSUME NEW w \in Workers, CheckMissing(w)
      PROVE  Same
  BY <1>9 DEF CheckMissing, workerVars, tableVars
<1>10. ASSUME NEW w \in Workers, GetAllReturn(w)
       PROVE  Same
  BY <1>10 DEF GetAllReturn, workerVars, tableVars
<1>11. ASSUME NEW w \in Workers, NEW k \in Keys, SendPrepare(w, k)
       PROVE  Same
  BY <1>11 DEF SendPrepare, workerVars, tableVars
<1>12. ASSUME NEW w \in Workers, NEW k \in Keys, SendGet(w, k)
       PROVE  Same
  BY <1>12 DEF SendGet, workerVars, tableVars
<1>13. ASSUME NEW w \in Workers, NEW s \in Servers, SendCommit(w, s)
       PROVE  Same
  BY <1>13 DEF SendCommit, workerVars, tableVars
<1>14. ASSUME NEW w \in Workers, NEW s \in Servers, RecvDone(w, s)
       PROVE  Same
  BY <1>14 DEF RecvDone, workerVars, tableVars
<1>15. ASSUME NEW w \in Workers, NEW s \in Servers, RecvResult(w, s)
       PROVE  Same
  BY <1>15 DEF RecvResult, workerVars, tableVars
<1>16. ASSUME NEW w \in Workers, NEW s \in Servers, Prepare(w, s)
       PROVE  Stable
  <2>. DEFINE item == conn[w][s].item
  <2>1. conn[w][s] \in Message /\ item \in Item
    BY <1>16, MessageFields DEF Prepare
  <2>2. items' = [items EXCEPT ![s][item.ts] = Append(@, item)] /\ trx_ts' = trx_ts
    BY <1>16 DEF Prepare, workerVars
  <2>. HIDE DEF item
  <2>3. SUFFICES ASSUME NEW r \in Servers, NEW ts \in Timestamps
        PROVE  Grows(items[r][ts], items'[r][ts])
    BY <2>2 DEF Stable
  <2>4. items[r][ts] \in Seq(Item)
    OBVIOUS
  <2>5. items'[r][ts] = items[r][ts] \/ items'[r][ts] = Append(items[r][ts], item)
    BY <2>2
  <2>. QED  BY <2>1, <2>4, <2>5, GrowsReflexive, GrowsAppend
<1>17. ASSUME NEW w \in Workers, NEW s \in Servers, Get(w, s)
       PROVE  Same
  BY <1>17 DEF Get, workerVars, tableVars
<1>18. ASSUME NEW w \in Workers, NEW s \in Servers, HandleClose(w, s)
       PROVE  Same
  BY <1>18 DEF HandleClose, workerVars, tableVars
<1>19. ASSUME NEW w \in Workers, NEW s \in Servers, CommitBegin(w, s)
       PROVE  Same
  BY <1>19 DEF CommitBegin, workerVars, tableVars
<1>20. ASSUME NEW w \in Workers, NEW s \in Servers, CommitTest(w, s)
       PROVE  Same
  BY <1>20 DEF CommitTest, workerVars, tableVars
<1>21. ASSUME NEW w \in Workers, NEW s \in Servers, CommitSet(w, s)
       PROVE  Same
  BY <1>21 DEF CommitSet, workerVars, tableVars
<1>22. ASSUME NEW w \in Workers, NEW s \in Servers, CommitDone(w, s)
       PROVE  Same
  BY <1>22 DEF CommitDone, workerVars, tableVars
<1>23. ASSUME NEW w \in Workers, NEW s \in Servers, SendClose(w, s)
       PROVE  Same
  BY <1>23 DEF SendClose, workerVars, tableVars
<1>. QED
  BY <1>0, <1>1, <1>2, <1>3, <1>4, <1>5, <1>6, <1>7, <1>8, <1>9, <1>10, <1>11, <1>12, <1>13, <1>14, <1>15, <1>16, <1>17, <1>18, <1>19, <1>20, <1>21, <1>22, <1>23
  DEF Next, WorkerStep, ExecutorStep, Terminating

\* What holds of a transaction's items goes on holding.
LEMMA HoldsStable ==
    ASSUME TypeOK, Stable, NEW t \in Trxs
    PROVE  /\ trx_ts[t] # 0 => \A k \in Keys : ItemOf(t, k)' = ItemOf(t, k)
           /\ \A k \in Keys : Holds(t, k) => Holds(t, k)'
           /\ Prepared(t) => Prepared(t)'
<1>1. trx_ts[t] # 0 => \A k \in Keys : ItemOf(t, k)' = ItemOf(t, k)
  BY DEF Stable, ItemOf
<1>2. ASSUME NEW k \in Keys, Holds(t, k)
      PROVE  Holds(t, k)'
  <2>1. trx_ts[t] # 0 /\ trx_ts[t] \in Timestamps /\ trx_ts'[t] = trx_ts[t]
    BY <1>2, ConstantsAssumption DEF Holds, Stable, TypeOK, TsOrEmpty, Timestamps
  <2>2. ServerOf[k] \in Servers
    BY ConstantsAssumption
  <2>3. PICK j \in DOMAIN items[ServerOf[k]][trx_ts[t]] :
               items[ServerOf[k]][trx_ts[t]][j] = ItemOf(t, k)
    BY <1>2 DEF Holds
  <2>4. /\ j \in DOMAIN items'[ServerOf[k]][trx_ts[t]]
        /\ items'[ServerOf[k]][trx_ts[t]][j] = ItemOf(t, k)
    BY <2>1, <2>2, <2>3 DEF Stable, Grows
  <2>. QED  BY <1>1, <2>1, <2>4 DEF Holds
<1>3. Prepared(t) => Prepared(t)'
  BY <1>2, ConstantsAssumption DEF Prepared
<1>. QED  BY <1>1, <1>2, <1>3

\* Every step keeps the loop of commit inside the items it began with: other
\* executors only append to them.
LEMMA LoopStep ==
    ASSUME TypeOK, ControlOK, MessagesOK, LoopOK, [Next]_vars
    PROVE  LoopOK'
<1>. DEFINE InCommit(v, r) == executor[v][r].at \in {"test", "set"}
<1>. DEFINE Kept ==
       \A v \in Workers, r \in Servers :
          InCommit(v, r)' =>
             LET e == executor'[v][r]
             IN  /\ conn'[v][r].ts = conn[v][r].ts
                 /\ conn[v][r].type = "COMMIT"
                 /\ e.i >= 1 /\ e.n <= Len(items[r][conn[v][r].ts])
                 /\ e.at = "set" => e.i <= e.n
<1>0. Kept => LoopOK'
  <2>1. \A v \in Workers, r \in Servers :
           conn[v][r].type = "COMMIT" =>
              /\ conn[v][r].ts \in Timestamps
              /\ Len(items[r][conn[v][r].ts]) \in Nat
              /\ Len(items'[r][conn[v][r].ts]) \in Nat
              /\ Len(items'[r][conn[v][r].ts]) >= Len(items[r][conn[v][r].ts])
    BY StoreGrows, TypeStep, MessageFields DEF TypeOK, Stable, Grows
  <2>2. \A v \in Workers, r \in Servers : executor'[v][r].n \in Nat
    BY TypeStep DEF TypeOK, ExecutorState
  <2>. SUFFICES ASSUME Kept, NEW v \in Workers, NEW r \in Servers, InCommit(v, r)'
                PROVE  /\ executor'[v][r].i >= 1
                       /\ executor'[v][r].n <= Len(items'[r][conn'[v][r].ts])
                       /\ executor'[v][r].at = "set" => executor'[v][r].i <= executor'[v][r].n
    BY DEF LoopOK
  <2>3. /\ conn'[v][r].ts = conn[v][r].ts
        /\ conn[v][r].type = "COMMIT"
        /\ executor'[v][r].i >= 1
        /\ executor'[v][r].n <= Len(items[r][conn[v][r].ts])
        /\ executor'[v][r].at = "set" => executor'[v][r].i <= executor'[v][r].n
    OBVIOUS
  <2>. HIDE DEF Kept
  <2>4. /\ Len(items'[r][conn[v][r].ts]) >= Len(items[r][conn[v][r].ts])
        /\ Len(items'[r][conn[v][r].ts]) \in Nat /\ Len(items[r][conn[v][r].ts]) \in Nat
    BY <2>1, <2>3
  <2>. DEFINE old == Len(items[r][conn[v][r].ts])
              new == Len(items'[r][conn[v][r].ts])
              n == executor'[v][r].n
  <2>6. n \in Nat /\ old \in Nat /\ new \in Nat /\ n <= old /\ old <= new
    BY <2>2, <2>3, <2>4
  <2>5. n <= new
    <3>. HIDE DEF n, old, new
    <3>. QED  BY <2>6
  <2>. QED  BY <2>3, <2>5
<1>. USE DEF TypeOK, MessagesOK, LoopOK
<1>1. ASSUME UNCHANGED vars
      PROVE  Kept
  BY <1>1 DEF vars, workerVars, tableVars
<1>2. ASSUME NEW w \in Workers, Pop(w)
      PROVE  Kept
  BY <1>2 DEF Pop, tableVars, Send
<1>3. ASSUME NEW w \in Workers, Exit(w)
      PROVE  Kept
  BY <1>3 DEF Exit, tableVars, Send
<1>4. ASSUME NEW w \in Workers, Finish(w)
      PROVE  Kept
  BY <1>4 DEF Finish, tableVars, Send
<1>5. ASSUME NEW w \in Workers, PutAll(w)
      PROVE  Kept
  BY <1>5 DEF PutAll, tableVars, Send
<1>6. ASSUME NEW w \in Workers, BeginCommit(w)
      PROVE  Kept
  BY <1>6 DEF BeginCommit, tableVars, Send
<1>7. ASSUME NEW w \in Workers, PutAllReturn(w)
      PROVE  Kept
  BY <1>7 DEF PutAllReturn, AllAnswered, Idle, NoMsg
<1>8. ASSUME NEW w \in Workers, GetAll(w)
      PROVE  Kept
  BY <1>8 DEF GetAll, tableVars, Send
<1>9. ASSUME NEW w \in Workers, CheckMissing(w)
      PROVE  Kept
  BY <1>9 DEF CheckMissing, tableVars, Send
<1>10. ASSUME NEW w \in Workers, GetAllReturn(w)
       PROVE  Kept
  BY <1>10 DEF GetAllReturn, tableVars, Send
<1>11. ASSUME NEW w \in Workers, NEW k \in Keys, SendPrepare(w, k)
       PROVE  Kept
  BY <1>11, ConstantsAssumption DEF SendPrepare, tableVars, Send, NoMsg
<1>12. ASSUME NEW w \in Workers, NEW k \in Keys, SendGet(w, k)
       PROVE  Kept
  BY <1>12, ConstantsAssumption DEF SendGet, tableVars, Send, NoMsg
<1>13. ASSUME NEW w \in Workers, NEW s \in Servers, SendCommit(w, s)
       PROVE  Kept
  BY <1>13 DEF SendCommit, Send, Commit
<1>14. ASSUME NEW w \in Workers, NEW s \in Servers, RecvDone(w, s)
       PROVE  Kept
  BY <1>14 DEF RecvDone, workerVars, Send, NoMsg, Receiving, NextItem, ExecutorState
<1>15. ASSUME NEW w \in Workers, NEW s \in Servers, RecvResult(w, s)
       PROVE  Kept
  BY <1>15 DEF RecvResult, tableVars, Send
<1>16. ASSUME NEW w \in Workers, NEW s \in Servers, Prepare(w, s)
       PROVE  Kept
  BY <1>16 DEF Prepare, workerVars, Send, NoMsg, Receiving, NextItem, ExecutorState
<1>17. ASSUME NEW w \in Workers, NEW s \in Servers, Get(w, s)
       PROVE  Kept
  BY <1>17 DEF Get, workerVars, Send, NoMsg, Receiving, NextItem, ExecutorState
<1>18. ASSUME NEW w \in Workers, NEW s \in Servers, HandleClose(w, s)
       PROVE  Kept
  BY <1>18 DEF HandleClose, workerVars, Send, NoMsg, Receiving, NextItem, ExecutorState
<1>19. ASSUME NEW w \in Workers, NEW s \in Servers, CommitBegin(w, s)
       PROVE  Kept
  BY <1>19 DEF CommitBegin, workerVars, Send, NoMsg, Receiving, NextItem, ExecutorState
<1>20. ASSUME NEW w \in Workers, NEW s \in Servers, CommitTest(w, s)
       PROVE  Kept
  <2>1. executor[w][s] \in ExecutorState
    OBVIOUS
  <2>2. executor[w][s].i \in Nat /\ executor[w][s].n \in Nat
    BY <2>1 DEF ExecutorState
  <2>3. executor[w][s].i + 1 >= 1
    BY <2>2
  <2>c. \E e \in {[executor[w][s] EXCEPT !.at = "set"], NextItem(executor[w][s])} :
           executor' = [executor EXCEPT ![w][s] = e]
    <3>. HIDE DEF TypeOK, MessagesOK, LoopOK
    <3>. QED  BY <1>20, CommitTestMoves
  <2>4. \A v \in Workers, r \in Servers :
           <<v, r>> # <<w, s>> => executor'[v][r] = executor[v][r]
    BY <2>c, ExecutorFrame
  <2>5. executor'[w][s] = [executor[w][s] EXCEPT !.at = "set"]
           \/ executor'[w][s] = NextItem(executor[w][s])
    BY <2>c, ExecutorFrame
  <2>6. conn' = conn /\ executor[w][s].at = "test" /\ executor[w][s].i <= executor[w][s].n
    <3>. HIDE DEF TypeOK, MessagesOK, LoopOK
    <3>. QED  BY <1>20, CommitTestMoves
  <2>7. ASSUME executor'[w][s] = [executor[w][s] EXCEPT !.at = "set"]
        PROVE  /\ executor'[w][s].n = executor[w][s].n
               /\ executor'[w][s].i = executor[w][s].i
    BY <2>1, <2>7 DEF ExecutorState
  <2>8. ASSUME executor'[w][s] = NextItem(executor[w][s])
        PROVE  /\ executor'[w][s].n = executor[w][s].n
               /\ executor'[w][s].i = executor[w][s].i + 1
               /\ executor'[w][s].at = "test"
    BY <2>1, <2>8 DEF ExecutorState, NextItem
  <2>9. /\ executor'[w][s].n = executor[w][s].n
        /\ executor'[w][s].i >= 1
        /\ executor'[w][s].at = "set" => executor'[w][s].i <= executor'[w][s].n
    BY <2>2, <2>3, <2>5, <2>6, <2>7, <2>8
  <2>. SUFFICES ASSUME NEW v \in Workers, NEW r \in Servers, InCommit(v, r)'
                PROVE  LET e == executor'[v][r]
                       IN  /\ conn'[v][r].ts = conn[v][r].ts
                           /\ conn[v][r].type = "COMMIT"
                           /\ e.i >= 1 /\ e.n <= Len(items[r][conn[v][r].ts])
                           /\ e.at = "set" => e.i <= e.n
    OBVIOUS
  <2>a. CASE v = w /\ r = s
    BY <2>a, <2>6, <2>9
  <2>b. CASE ~ (v = w /\ r = s)
    BY <2>b, <2>4, <2>6
  <2>. QED  BY <2>a, <2>b
<1>21. ASSUME NEW w \in Workers, NEW s \in Servers, CommitSet(w, s)
       PROVE  Kept
  <2>1. executor[w][s] \in ExecutorState
    OBVIOUS
  <2>2. executor[w][s].i + 1 >= 1
    BY <2>1 DEF ExecutorState
  <2>c. executor' = [executor EXCEPT ![w][s] = NextItem(executor[w][s])]
    <3>. HIDE DEF TypeOK, MessagesOK, LoopOK
    <3>. QED  BY <1>21, CommitSetMoves
  <2>3. \A v \in Workers, r \in Servers :
           <<v, r>> # <<w, s>> => executor'[v][r] = executor[v][r]
    BY <2>c, ExecutorFrame
  <2>4. executor'[w][s] = NextItem(executor[w][s])
    BY <2>c, ExecutorFrame
  <2>5. conn' = conn /\ executor[w][s].at = "set"
    <3>. HIDE DEF TypeOK, MessagesOK, LoopOK
    <3>. QED  BY <1>21, CommitSetMoves
  <2>6. /\ executor'[w][s].n = executor[w][s].n
        /\ executor'[w][s].i >= 1
        /\ executor'[w][s].at = "test"
    BY <2>1, <2>2, <2>4 DEF ExecutorState, NextItem
  <2>. SUFFICES ASSUME NEW v \in Workers, NEW r \in Servers, InCommit(v, r)'
                PROVE  LET e == executor'[v][r]
                       IN  /\ conn'[v][r].ts = conn[v][r].ts
                           /\ conn[v][r].type = "COMMIT"
                           /\ e.i >= 1 /\ e.n <= Len(items[r][conn[v][r].ts])
                           /\ e.at = "set" => e.i <= e.n
    OBVIOUS
  <2>a. CASE v = w /\ r = s
    BY <2>a, <2>5, <2>6
  <2>b. CASE ~ (v = w /\ r = s)
    BY <2>b, <2>3, <2>5
  <2>. QED  BY <2>a, <2>b
<1>22. ASSUME NEW w \in Workers, NEW s \in Servers, CommitDone(w, s)
       PROVE  Kept
  BY <1>22 DEF CommitDone, workerVars, Send, NoMsg, Receiving, NextItem, ExecutorState
<1>23. ASSUME NEW w \in Workers, NEW s \in Servers, SendClose(w, s)
       PROVE  Kept
  BY <1>23 DEF SendClose, workerVars, Send, NoMsg, Receiving, NextItem, ExecutorState
<1>. QED
  BY <1>0, <1>1, <1>2, <1>3, <1>4, <1>5, <1>6, <1>7, <1>8, <1>9, <1>10, <1>11, <1>12, <1>13, <1>14, <1>15, <1>16, <1>17, <1>18, <1>19, <1>20, <1>21, <1>22, <1>23
  DEF Next, WorkerStep, ExecutorStep, Terminating

\* Which actions write the queue, the tables, the timestamps and what a reader
\* has got.
OneWriter ==
    /\ queue' = queue \/ \E w \in Workers : Pop(w)
    /\ trx_ts' = trx_ts \/ \E w \in Workers : PutAll(w)
    /\ items' = items \/ \E w \in Workers, s \in Servers : Prepare(w, s)
    /\ latest_commit' = latest_commit \/ \E w \in Workers, s \in Servers : CommitSet(w, s)
    /\ ret' = ret \/ \E w \in Workers :
                        GetAll(w) \/ \E s \in Servers : RecvResult(w, s)
    /\ v_latest' = v_latest \/ \E w \in Workers : CheckMissing(w)

\* Nothing else writes them.
LEMMA Writers ==
    ASSUME [Next]_vars
    PROVE  OneWriter
<1>. USE DEF OneWriter
<1>1. CASE UNCHANGED vars
  BY <1>1 DEF vars, workerVars, tableVars
<1>2. ASSUME NEW w \in Workers, Pop(w)
      PROVE  OneWriter
  BY <1>2 DEF Pop, workerVars, tableVars
<1>3. ASSUME NEW w \in Workers, Exit(w)
      PROVE  OneWriter
  BY <1>3 DEF Exit, workerVars, tableVars
<1>4. ASSUME NEW w \in Workers, Finish(w)
      PROVE  OneWriter
  BY <1>4 DEF Finish, workerVars, tableVars
<1>5. ASSUME NEW w \in Workers, PutAll(w)
      PROVE  OneWriter
  BY <1>5 DEF PutAll, workerVars, tableVars
<1>6. ASSUME NEW w \in Workers, BeginCommit(w)
      PROVE  OneWriter
  BY <1>6 DEF BeginCommit, workerVars, tableVars
<1>7. ASSUME NEW w \in Workers, PutAllReturn(w)
      PROVE  OneWriter
  BY <1>7 DEF PutAllReturn, workerVars, tableVars
<1>8. ASSUME NEW w \in Workers, GetAll(w)
      PROVE  OneWriter
  BY <1>8 DEF GetAll, workerVars, tableVars
<1>9. ASSUME NEW w \in Workers, CheckMissing(w)
      PROVE  OneWriter
  BY <1>9 DEF CheckMissing, workerVars, tableVars
<1>10. ASSUME NEW w \in Workers, GetAllReturn(w)
       PROVE  OneWriter
  BY <1>10 DEF GetAllReturn, workerVars, tableVars
<1>11. ASSUME NEW w \in Workers, NEW k \in Keys, SendPrepare(w, k)
       PROVE  OneWriter
  BY <1>11 DEF SendPrepare, workerVars, tableVars
<1>12. ASSUME NEW w \in Workers, NEW k \in Keys, SendGet(w, k)
       PROVE  OneWriter
  BY <1>12 DEF SendGet, workerVars, tableVars
<1>13. ASSUME NEW w \in Workers, NEW s \in Servers, SendCommit(w, s)
       PROVE  OneWriter
  BY <1>13 DEF SendCommit, workerVars, tableVars
<1>14. ASSUME NEW w \in Workers, NEW s \in Servers, RecvDone(w, s)
       PROVE  OneWriter
  BY <1>14 DEF RecvDone, workerVars, tableVars
<1>15. ASSUME NEW w \in Workers, NEW s \in Servers, RecvResult(w, s)
       PROVE  OneWriter
  BY <1>15 DEF RecvResult, workerVars, tableVars
<1>16. ASSUME NEW w \in Workers, NEW s \in Servers, Prepare(w, s)
       PROVE  OneWriter
  BY <1>16 DEF Prepare, workerVars, tableVars
<1>17. ASSUME NEW w \in Workers, NEW s \in Servers, Get(w, s)
       PROVE  OneWriter
  BY <1>17 DEF Get, workerVars, tableVars
<1>18. ASSUME NEW w \in Workers, NEW s \in Servers, HandleClose(w, s)
       PROVE  OneWriter
  BY <1>18 DEF HandleClose, workerVars, tableVars
<1>19. ASSUME NEW w \in Workers, NEW s \in Servers, CommitBegin(w, s)
       PROVE  OneWriter
  BY <1>19 DEF CommitBegin, workerVars, tableVars
<1>20. ASSUME NEW w \in Workers, NEW s \in Servers, CommitTest(w, s)
       PROVE  OneWriter
  BY <1>20 DEF CommitTest, workerVars, tableVars
<1>21. ASSUME NEW w \in Workers, NEW s \in Servers, CommitSet(w, s)
       PROVE  OneWriter
  BY <1>21 DEF CommitSet, workerVars, tableVars
<1>22. ASSUME NEW w \in Workers, NEW s \in Servers, CommitDone(w, s)
       PROVE  OneWriter
  BY <1>22 DEF CommitDone, workerVars, tableVars
<1>23. ASSUME NEW w \in Workers, NEW s \in Servers, SendClose(w, s)
       PROVE  OneWriter
  BY <1>23 DEF SendClose, workerVars, tableVars
<1>. QED
  BY <1>1, <1>2, <1>3, <1>4, <1>5, <1>6, <1>7, <1>8, <1>9, <1>10, <1>11, <1>12, <1>13, <1>14, <1>15, <1>16, <1>17, <1>18, <1>19, <1>20, <1>21, <1>22, <1>23
  DEF Next, WorkerStep, ExecutorStep, Terminating

\* A timestamp that is not empty is a clock reading.
LEMMA NonEmptyTs ==
    ASSUME NEW ts \in TsOrEmpty, ts # 0
    PROVE  ts \in Timestamps
  BY ConstantsAssumption DEF TsOrEmpty, Timestamps

\* A clock reading that no transaction has keeps timestamps unique.
LEMMA UniqueTsStep ==
    ASSUME DistinctTs, TypeOK, ControlOK, UniqueTs, [Next]_vars
    PROVE  UniqueTs'
<1>1. CASE trx_ts' = trx_ts
  BY <1>1 DEF UniqueTs
<1>2. ASSUME NEW w \in Workers, PutAll(w)
      PROVE  UniqueTs'
  <2>1. PICK now \in Timestamps : /\ \A t \in Trxs : trx_ts[t] # now
                                 /\ trx_ts' = [trx_ts EXCEPT ![trx[w]] = now]
    BY <1>2 DEF PutAll
  <2>. QED  BY <2>1 DEF UniqueTs, TypeOK
<1>. QED  BY <1>1, <1>2, Writers DEF OneWriter

\* An item that is stored stays the item its transaction writes, and a PREPARE
\* adds another such item.
LEMMA ItemsStep ==
    ASSUME TypeOK, ControlOK, MessagesOK, ItemsOK, PrepareOK, [Next]_vars
    PROVE  ItemsOK'
<1>1. ASSUME NEW s \in Servers, NEW ts \in Timestamps, NEW item, Written(s, ts, item)
      PROVE  Written(s, ts, item)'
  <2>1. PICK t \in Trxs : \E k \in WriteSet[t] :
               trx_ts[t] = ts /\ ServerOf[k] = s /\ item = ItemOf(t, k)
    BY <1>1 DEF Written
  <2>2. PICK k \in WriteSet[t] : trx_ts[t] = ts /\ ServerOf[k] = s /\ item = ItemOf(t, k)
    BY <2>1
  <2>3. ts # 0 /\ k \in Keys
    BY ConstantsAssumption DEF Timestamps
  <2>4. trx_ts'[t] = ts /\ ItemOf(t, k)' = ItemOf(t, k)
    BY <2>2, <2>3, StoreGrows, HoldsStable DEF Stable
  <2>. QED  BY <2>2, <2>4 DEF Written
<1>2. CASE items' = items
  BY <1>1, <1>2 DEF ItemsOK
<1>3. ASSUME NEW w \in Workers, NEW s \in Servers, Prepare(w, s)
      PROVE  ItemsOK'
  <2>. DEFINE item == conn[w][s].item
  <2>1. items' = [items EXCEPT ![s][item.ts] = Append(@, item)]
    BY <1>3 DEF Prepare
  <2>2. pc[w] = "prepare" /\ conn[w][s].type = "PREPARE"
    BY <1>3 DEF Prepare, MessagesOK
  <2>3. PICK k \in WriteSet[trx[w]] : ServerOf[k] = s /\ item = ItemOf(trx[w], k)
    BY <2>2 DEF PrepareOK, Preparing
  <2>4. trx[w] \in Trxs /\ trx_ts[trx[w]] \in Timestamps
    <3>1. trx[w] \in Trxs /\ trx_ts[trx[w]] # 0
      BY <2>2 DEF ControlOK, Running
    <3>2. trx_ts[trx[w]] \in TsOrEmpty
      BY <3>1 DEF TypeOK
    <3>. QED  BY <3>1, <3>2, NonEmptyTs
  <2>7. item.ts = trx_ts[trx[w]]
    BY <2>3 DEF ItemOf
  <2>5. Written(s, item.ts, item)
    BY <2>3, <2>4, <2>7 DEF Written
  <2>. HIDE DEF item
  <2>6. ASSUME NEW r \in Servers, NEW ts \in Timestamps, NEW j \in DOMAIN items'[r][ts]
        PROVE  Written(r, ts, items'[r][ts][j])
    <3>1. CASE r = s /\ ts = item.ts
      <4>1. items[s][ts] \in Seq(Item) /\ items'[r][ts] = Append(items[s][ts], item)
        BY <2>1, <2>4, <2>7, <3>1 DEF TypeOK
      <4>2. \/ j \in DOMAIN items[s][ts] /\ items'[r][ts][j] = items[s][ts][j]
            \/ items'[r][ts][j] = item
        BY <2>6, <4>1
      <4>. QED  BY <4>2, <3>1, <2>5 DEF ItemsOK
    <3>2. CASE ~ (r = s /\ ts = item.ts)
      <4>1. items'[r][ts] = items[r][ts]
        BY <2>1, <2>4, <2>7, <3>2 DEF TypeOK
      <4>. QED  BY <2>6, <4>1 DEF ItemsOK
    <3>. QED  BY <3>1, <3>2
  <2>. QED  BY <1>1, <2>6 DEF ItemsOK
<1>. QED  BY <1>2, <1>3, Writers DEF OneWriter

\* Every step keeps the progress of prepare: a key leaves todo with its message,
\* and the message leaves the connection when the item is stored.
LEMMA PrepareStep ==
    ASSUME TypeOK, ControlOK, MessagesOK, PrepareOK, [Next]_vars
    PROVE  PrepareOK'
<1>. DEFINE Kept(v) ==
       pc'[v] = "prepare" =>
          /\ pc[v] = "prepare" /\ trx'[v] = trx[v] /\ todo'[v] = todo[v]
          /\ \A s \in Servers :
                conn[v][s].type = "PREPARE" \/ conn'[v][s].type = "PREPARE" =>
                   conn'[v][s] = conn[v][s]
<1>0. ASSUME NEW v \in Workers, Kept(v), pc'[v] = "prepare"
      PROVE  Preparing(v)'
  <2>1. /\ pc[v] = "prepare" /\ trx'[v] = trx[v] /\ todo'[v] = todo[v]
        /\ \A s \in Servers :
              conn[v][s].type = "PREPARE" \/ conn'[v][s].type = "PREPARE" =>
                 conn'[v][s] = conn[v][s]
    BY <1>0
  <2>2. Preparing(v) /\ trx[v] \in Trxs /\ trx_ts[trx[v]] # 0
    BY <2>1 DEF PrepareOK, ControlOK, Running
  <2>3. \A k \in Keys : /\ ItemOf(trx[v], k)' = ItemOf(trx[v], k)
                        /\ Holds(trx[v], k) => Holds(trx[v], k)'
    BY <2>1, <2>2, StoreGrows, HoldsStable
  <2>4. \A k \in WriteSet[trx[v]] : k \in Keys /\ ServerOf[k] \in Servers
    BY <2>2, ConstantsAssumption
  <2>. QED  BY <2>1, <2>2, <2>3, <2>4 DEF Preparing
<1>. USE DEF TypeOK, PrepareOK, MessagesOK
<1>1. ASSUME UNCHANGED vars
      PROVE  \A v \in Workers : Kept(v)
  BY <1>1 DEF vars, workerVars
<1>2. ASSUME NEW w \in Workers, Pop(w)
      PROVE  \A v \in Workers : Kept(v)
  BY <1>2 DEF Pop, tableVars, Send
<1>3. ASSUME NEW w \in Workers, Exit(w)
      PROVE  \A v \in Workers : Kept(v)
  BY <1>3 DEF Exit, tableVars, Send
<1>4. ASSUME NEW w \in Workers, Finish(w)
      PROVE  \A v \in Workers : Kept(v)
  BY <1>4 DEF Finish, tableVars, Send
<1>5. ASSUME NEW w \in Workers, PutAll(w)
      PROVE  PrepareOK'
  <2>1. \A v \in Workers : v # w => Kept(v)
    BY <1>5 DEF PutAll
  <2>2. pc[w] = "put_all" /\ conn' = conn /\ trx' = trx /\ todo'[w] = WriteSet[trx[w]]
    BY <1>5 DEF PutAll
  <2>3. Preparing(w)'
    BY <2>2 DEF Preparing
  <2>. QED  BY <1>0, <2>1, <2>3
<1>6. ASSUME NEW w \in Workers, BeginCommit(w)
      PROVE  \A v \in Workers : Kept(v)
  BY <1>6 DEF BeginCommit, tableVars, Send
<1>7. ASSUME NEW w \in Workers, PutAllReturn(w)
      PROVE  \A v \in Workers : Kept(v)
  BY <1>7 DEF PutAllReturn, tableVars, Send
<1>8. ASSUME NEW w \in Workers, GetAll(w)
      PROVE  \A v \in Workers : Kept(v)
  BY <1>8 DEF GetAll, tableVars, Send
<1>9. ASSUME NEW w \in Workers, CheckMissing(w)
      PROVE  \A v \in Workers : Kept(v)
  BY <1>9 DEF CheckMissing, tableVars, Send
<1>10. ASSUME NEW w \in Workers, GetAllReturn(w)
       PROVE  \A v \in Workers : Kept(v)
  BY <1>10 DEF GetAllReturn, tableVars, Send
<1>11. ASSUME NEW w \in Workers, NEW k \in Keys, SendPrepare(w, k)
       PROVE  PrepareOK'
  <2>. DEFINE m == [type |-> "PREPARE", item |-> ItemOf(trx[w], k)]
  <2>1. \A v \in Workers : v # w => Kept(v)
    BY <1>11 DEF SendPrepare, Send
  <2>2. /\ pc[w] = "prepare" /\ k \in todo[w] /\ conn[w][ServerOf[k]] = NoMsg
        /\ pc' = pc /\ trx' = trx /\ trx_ts' = trx_ts /\ items' = items
        /\ todo'[w] = todo[w] \ {k}
        /\ conn' = [conn EXCEPT ![w][ServerOf[k]] = m]
    BY <1>11 DEF SendPrepare, Send, tableVars
  <2>3. trx[w] \in Trxs /\ k \in WriteSet[trx[w]] /\ ServerOf[k] \in Servers
    BY <2>2, ConstantsAssumption DEF ControlOK, Running
  <2>4. \A j \in Keys : ItemOf(trx[w], j)' = ItemOf(trx[w], j)
    BY <2>2 DEF ItemOf
  <2>5. Preparing(w)
    BY <2>2 DEF PrepareOK
  <2>6. ASSUME NEW j \in WriteSet[trx[w]]
        PROVE  \/ j \in todo'[w]
               \/ conn'[w][ServerOf[j]] = [type |-> "PREPARE", item |-> ItemOf(trx[w], j)]
               \/ Holds(trx[w], j)'
    <3>1. j \in Keys /\ ServerOf[j] \in Servers
      BY <2>3, ConstantsAssumption
    <3>2. CASE j = k
      BY <2>2, <2>3, <3>2
    <3>3. CASE j # k /\ j \in todo[w]
      BY <2>2, <3>3
    <3>4. CASE conn[w][ServerOf[j]] = [type |-> "PREPARE", item |-> ItemOf(trx[w], j)]
      <4>1. ServerOf[j] # ServerOf[k]
        BY <2>2, <3>4 DEF NoMsg
      <4>. QED  BY <2>2, <2>3, <3>1, <3>4, <4>1
    <3>5. CASE Holds(trx[w], j)
      BY <2>2, <2>3, <3>1, <3>5, HoldsStable, StoreGrows
    <3>. QED  BY <2>5, <3>2, <3>3, <3>4, <3>5 DEF Preparing
  <2>7. ASSUME NEW s \in Servers, conn'[w][s].type = "PREPARE"
        PROVE  \E j \in WriteSet[trx[w]] :
                  ServerOf[j] = s /\ conn'[w][s].item = ItemOf(trx[w], j)
    <3>1. CASE s = ServerOf[k]
      BY <2>2, <2>3, <3>1
    <3>2. CASE s # ServerOf[k]
      <4>1. conn'[w][s] = conn[w][s]
        BY <2>2, <2>3, <3>2
      <4>. QED  BY <2>5, <2>7, <4>1 DEF Preparing
    <3>. QED  BY <3>1, <3>2
  <2>8. Preparing(w)'
    <3>1. \A j \in WriteSet[trx[w]] : j \in Keys
      BY <2>3, ConstantsAssumption
    <3>2. \A j \in WriteSet[trx[w]] :
             \/ j \in todo'[w]
             \/ conn'[w][ServerOf[j]] = [type |-> "PREPARE", item |-> ItemOf(trx[w], j)']
             \/ Holds(trx[w], j)'
      BY <2>4, <2>6, <3>1
    <3>3. ASSUME NEW s \in Servers, conn'[w][s].type = "PREPARE"
          PROVE  \E j \in WriteSet[trx[w]] :
                    ServerOf[j] = s /\ conn'[w][s].item = ItemOf(trx[w], j)'
      <4>1. PICK j \in WriteSet[trx[w]] : ServerOf[j] = s /\ conn'[w][s].item = ItemOf(trx[w], j)
        BY <2>7, <3>3
      <4>. QED  BY <2>4, <3>1, <4>1
    <3>. QED  BY <2>2, <3>2, <3>3 DEF Preparing
  <2>. QED  BY <1>0, <2>1, <2>8
<1>12. ASSUME NEW w \in Workers, NEW k \in Keys, SendGet(w, k)
       PROVE  \A v \in Workers : Kept(v)
  BY <1>12, ConstantsAssumption DEF SendGet, tableVars, Send
<1>13. ASSUME NEW w \in Workers, NEW s \in Servers, SendCommit(w, s)
       PROVE  \A v \in Workers : Kept(v)
  BY <1>13 DEF SendCommit, tableVars, Send
<1>14. ASSUME NEW w \in Workers, NEW s \in Servers, RecvDone(w, s)
       PROVE  \A v \in Workers : Kept(v)
  BY <1>14 DEF RecvDone, workerVars, Send, NoMsg, Done, Close, Result
<1>15. ASSUME NEW w \in Workers, NEW s \in Servers, RecvResult(w, s)
       PROVE  \A v \in Workers : Kept(v)
  BY <1>15 DEF RecvResult, tableVars, Send, NoMsg
<1>16. ASSUME NEW w \in Workers, NEW s \in Servers, Prepare(w, s)
       PROVE  PrepareOK'
  <2>. DEFINE item == conn[w][s].item
  <2>1. \A v \in Workers : v # w => Kept(v)
    BY <1>16 DEF Prepare, Send, workerVars
  <2>2. /\ pc[w] = "prepare" /\ conn[w][s].type = "PREPARE"
        /\ pc' = pc /\ trx' = trx /\ trx_ts' = trx_ts /\ todo' = todo
        /\ conn' = [conn EXCEPT ![w][s] = Done]
        /\ items' = [items EXCEPT ![s][item.ts] = Append(@, item)]
    BY <1>16 DEF Prepare, Send, workerVars, MessagesOK
  <2>3. trx[w] \in Trxs /\ trx_ts[trx[w]] \in Timestamps
    <3>1. trx[w] \in Trxs /\ trx_ts[trx[w]] # 0
      BY <2>2 DEF ControlOK, Running
    <3>. QED  BY <3>1, NonEmptyTs
  <2>4. \A j \in Keys : ItemOf(trx[w], j)' = ItemOf(trx[w], j)
    BY <2>2 DEF ItemOf
  <2>5. Preparing(w)
    BY <2>2 DEF PrepareOK
  <2>6. ASSUME NEW j \in WriteSet[trx[w]]
        PROVE  \/ j \in todo'[w]
               \/ conn'[w][ServerOf[j]] = [type |-> "PREPARE", item |-> ItemOf(trx[w], j)]
               \/ Holds(trx[w], j)'
    <3>1. j \in Keys /\ ServerOf[j] \in Servers
      BY <2>3, ConstantsAssumption
    <3>2. CASE j \in todo[w]
      BY <2>2, <3>2
    <3>3. CASE Holds(trx[w], j)
      BY <2>2, <2>3, <3>1, <3>3, HoldsStable, StoreGrows
    <3>4. CASE /\ conn[w][ServerOf[j]] = [type |-> "PREPARE", item |-> ItemOf(trx[w], j)]
               /\ ServerOf[j] # s
      BY <2>2, <3>1, <3>4
    <3>5. CASE /\ conn[w][ServerOf[j]] = [type |-> "PREPARE", item |-> ItemOf(trx[w], j)]
               /\ ServerOf[j] = s
      <4>. DEFINE ts == trx_ts[trx[w]]
      <4>5. item = ItemOf(trx[w], j)
        BY <3>5
      <4>6. ItemOf(trx[w], j).ts = ts
        BY DEF ItemOf
      <4>1. item = ItemOf(trx[w], j) /\ item.ts = ts
        BY <4>5, <4>6
      <4>2. items[s][ts] \in Seq(Item) /\ items'[s][ts] = Append(items[s][ts], item)
        BY <2>2, <2>3, <4>1
      <4>. HIDE DEF item, ts
      <4>3. /\ Len(items[s][ts]) + 1 \in DOMAIN items'[s][ts]
            /\ items'[s][ts][Len(items[s][ts]) + 1] = item
        BY <4>2
      <4>4. ts # 0 /\ ts' = ts
        BY <2>2, <2>3 DEF ts, Timestamps
      <4>7. items'[ServerOf[j]][ts][Len(items[s][ts]) + 1] = ItemOf(trx[w], j)'
        BY <2>4, <3>1, <3>5, <4>1, <4>3
      <4>8. \E i \in DOMAIN items'[ServerOf[j]][ts] :
               items'[ServerOf[j]][ts][i] = ItemOf(trx[w], j)'
        BY <3>5, <4>3, <4>7
      <4>9. trx_ts'[trx'[w]] = ts /\ trx' = trx
        BY <2>2, <4>4 DEF ts
      <4>10. Holds(trx[w], j)'
        BY <4>4, <4>8, <4>9 DEF Holds
      <4>. QED  BY <4>10
    <3>. QED  BY <2>5, <3>2, <3>3, <3>4, <3>5 DEF Preparing
  <2>7. ASSUME NEW r \in Servers, conn'[w][r].type = "PREPARE"
        PROVE  conn'[w][r] = conn[w][r]
    BY <2>2, <2>7 DEF Done
  <2>8. Preparing(w)'
    BY <2>2, <2>3, <2>4, <2>5, <2>6, <2>7, ConstantsAssumption DEF Preparing
  <2>. QED  BY <1>0, <2>1, <2>8
<1>17. ASSUME NEW w \in Workers, NEW s \in Servers, Get(w, s)
       PROVE  \A v \in Workers : Kept(v)
  BY <1>17 DEF Get, workerVars, Send, NoMsg, Done, Close, Result
<1>18. ASSUME NEW w \in Workers, NEW s \in Servers, HandleClose(w, s)
       PROVE  \A v \in Workers : Kept(v)
  BY <1>18 DEF HandleClose, workerVars, Send, NoMsg, Done, Close, Result
<1>19. ASSUME NEW w \in Workers, NEW s \in Servers, CommitBegin(w, s)
       PROVE  \A v \in Workers : Kept(v)
  BY <1>19 DEF CommitBegin, workerVars, Send, NoMsg, Done, Close, Result
<1>20. ASSUME NEW w \in Workers, NEW s \in Servers, CommitTest(w, s)
       PROVE  \A v \in Workers : Kept(v)
  BY <1>20 DEF CommitTest, workerVars, Send, NoMsg, Done, Close, Result
<1>21. ASSUME NEW w \in Workers, NEW s \in Servers, CommitSet(w, s)
       PROVE  \A v \in Workers : Kept(v)
  BY <1>21 DEF CommitSet, workerVars, Send, NoMsg, Done, Close, Result
<1>22. ASSUME NEW w \in Workers, NEW s \in Servers, CommitDone(w, s)
       PROVE  \A v \in Workers : Kept(v)
  BY <1>22 DEF CommitDone, workerVars, Send, NoMsg, Done, Close, Result
<1>23. ASSUME NEW w \in Workers, NEW s \in Servers, SendClose(w, s)
       PROVE  \A v \in Workers : Kept(v)
  BY <1>23 DEF SendClose, workerVars, Send, NoMsg, Close
<1>24. (\A v \in Workers : Kept(v)) => PrepareOK'
  BY <1>0
<1>. QED
  BY <1>24, <1>1, <1>2, <1>3, <1>4, <1>5, <1>6, <1>7, <1>8, <1>9, <1>10, <1>11, <1>12, <1>13, <1>14, <1>15, <1>16, <1>17, <1>18, <1>19, <1>20, <1>21, <1>22, <1>23
  DEF Next, WorkerStep, ExecutorStep, Terminating

\* A worker starts to commit when nothing is left to send or under way, so
\* every item of its transaction is stored.
LEMMA CommitStep ==
    ASSUME TypeOK, ControlOK, PrepareOK, CommitOK, [Next]_vars
    PROVE  CommitOK'
<1>. DEFINE Kept(v) == pc'[v] = "commit" => pc[v] = "commit" /\ trx'[v] = trx[v]
<1>0. ASSUME NEW v \in Workers, Kept(v), pc'[v] = "commit"
      PROVE  Prepared(trx[v])'
  <2>1. pc[v] = "commit" /\ trx'[v] = trx[v]
    BY <1>0
  <2>2. trx[v] \in Trxs /\ Prepared(trx[v])
    BY <2>1 DEF CommitOK, ControlOK, Running
  <2>. QED  BY <2>1, <2>2, StoreGrows, HoldsStable
<1>. USE DEF TypeOK, CommitOK
<1>1. ASSUME UNCHANGED vars
      PROVE  \A v \in Workers : Kept(v)
  BY <1>1 DEF vars, workerVars
<1>2. ASSUME NEW w \in Workers, Pop(w)
      PROVE  \A v \in Workers : Kept(v)
  BY <1>2 DEF Pop
<1>3. ASSUME NEW w \in Workers, Exit(w)
      PROVE  \A v \in Workers : Kept(v)
  BY <1>3 DEF Exit
<1>4. ASSUME NEW w \in Workers, Finish(w)
      PROVE  \A v \in Workers : Kept(v)
  BY <1>4 DEF Finish
<1>5. ASSUME NEW w \in Workers, PutAll(w)
      PROVE  \A v \in Workers : Kept(v)
  BY <1>5 DEF PutAll
<1>6. ASSUME NEW w \in Workers, BeginCommit(w)
      PROVE  CommitOK'
  <2>1. \A v \in Workers : v # w => Kept(v)
    BY <1>6 DEF BeginCommit
  <2>2. /\ pc[w] = "prepare" /\ todo[w] = {} /\ trx' = trx
        /\ \A s \in Servers : conn[w][s] = NoMsg
    BY <1>6 DEF BeginCommit, AllAnswered, Idle
  <2>3. trx[w] \in Trxs /\ Preparing(w)
    BY <2>2 DEF ControlOK, Running, PrepareOK
  <2>4. ASSUME NEW k \in WriteSet[trx[w]]
        PROVE  Holds(trx[w], k)
    <3>1. ServerOf[k] \in Servers
      BY <2>3, ConstantsAssumption
    <3>2. conn[w][ServerOf[k]] # [type |-> "PREPARE", item |-> ItemOf(trx[w], k)]
      BY <2>2, <3>1 DEF NoMsg
    <3>. QED  BY <2>2, <2>3, <3>2 DEF Preparing
  <2>5. Prepared(trx[w])
    BY <2>4 DEF Prepared
  <2>6. Prepared(trx[w])'
    BY <2>2, <2>3, <2>5, StoreGrows, HoldsStable
  <2>. QED  BY <1>0, <2>1, <2>6
<1>7. ASSUME NEW w \in Workers, PutAllReturn(w)
      PROVE  \A v \in Workers : Kept(v)
  BY <1>7 DEF PutAllReturn
<1>8. ASSUME NEW w \in Workers, GetAll(w)
      PROVE  \A v \in Workers : Kept(v)
  BY <1>8 DEF GetAll
<1>9. ASSUME NEW w \in Workers, CheckMissing(w)
      PROVE  \A v \in Workers : Kept(v)
  BY <1>9 DEF CheckMissing
<1>10. ASSUME NEW w \in Workers, GetAllReturn(w)
       PROVE  \A v \in Workers : Kept(v)
  BY <1>10 DEF GetAllReturn
<1>11. ASSUME NEW w \in Workers, NEW k \in Keys, SendPrepare(w, k)
       PROVE  \A v \in Workers : Kept(v)
  BY <1>11 DEF SendPrepare
<1>12. ASSUME NEW w \in Workers, NEW k \in Keys, SendGet(w, k)
       PROVE  \A v \in Workers : Kept(v)
  BY <1>12 DEF SendGet
<1>13. ASSUME NEW w \in Workers, NEW s \in Servers, SendCommit(w, s)
       PROVE  \A v \in Workers : Kept(v)
  BY <1>13 DEF SendCommit
<1>14. ASSUME NEW w \in Workers, NEW s \in Servers, RecvDone(w, s)
       PROVE  \A v \in Workers : Kept(v)
  BY <1>14 DEF RecvDone, workerVars
<1>15. ASSUME NEW w \in Workers, NEW s \in Servers, RecvResult(w, s)
       PROVE  \A v \in Workers : Kept(v)
  BY <1>15 DEF RecvResult
<1>16. ASSUME NEW w \in Workers, NEW s \in Servers, Prepare(w, s)
       PROVE  \A v \in Workers : Kept(v)
  BY <1>16 DEF Prepare, workerVars
<1>17. ASSUME NEW w \in Workers, NEW s \in Servers, Get(w, s)
       PROVE  \A v \in Workers : Kept(v)
  BY <1>17 DEF Get, workerVars
<1>18. ASSUME NEW w \in Workers, NEW s \in Servers, HandleClose(w, s)
       PROVE  \A v \in Workers : Kept(v)
  BY <1>18 DEF HandleClose, workerVars
<1>19. ASSUME NEW w \in Workers, NEW s \in Servers, CommitBegin(w, s)
       PROVE  \A v \in Workers : Kept(v)
  BY <1>19 DEF CommitBegin, workerVars
<1>20. ASSUME NEW w \in Workers, NEW s \in Servers, CommitTest(w, s)
       PROVE  \A v \in Workers : Kept(v)
  BY <1>20 DEF CommitTest, workerVars
<1>21. ASSUME NEW w \in Workers, NEW s \in Servers, CommitSet(w, s)
       PROVE  \A v \in Workers : Kept(v)
  BY <1>21 DEF CommitSet, workerVars
<1>22. ASSUME NEW w \in Workers, NEW s \in Servers, CommitDone(w, s)
       PROVE  \A v \in Workers : Kept(v)
  BY <1>22 DEF CommitDone, workerVars
<1>23. ASSUME NEW w \in Workers, NEW s \in Servers, SendClose(w, s)
       PROVE  \A v \in Workers : Kept(v)
  BY <1>23 DEF SendClose, workerVars
<1>24. (\A v \in Workers : Kept(v)) => CommitOK'
  BY <1>0
<1>. QED
  BY <1>24, <1>1, <1>2, <1>3, <1>4, <1>5, <1>6, <1>7, <1>8, <1>9, <1>10, <1>11, <1>12, <1>13, <1>14, <1>15, <1>16, <1>17, <1>18, <1>19, <1>20, <1>21, <1>22, <1>23
  DEF Next, WorkerStep, ExecutorStep, Terminating

\* A commit makes visible an item of the committing worker's own transaction,
\* because no other transaction has its timestamp.
LEMMA VisibleStep ==
    ASSUME TypeOK, ControlOK, MessagesOK, LoopOK, UniqueTs, ItemsOK, CommitOK,
           VisibleIsPrepared, [Next]_vars
    PROVE  VisibleIsPrepared'
<1>. DEFINE Shown(k, ts) == \E t \in Trxs : trx_ts[t] = ts /\ k \in WriteSet[t] /\ Prepared(t)
<1>1. ASSUME NEW k \in Keys, NEW ts \in Timestamps, Shown(k, ts)
      PROVE  Shown(k, ts)'
  <2>1. PICK t \in Trxs : trx_ts[t] = ts /\ k \in WriteSet[t] /\ Prepared(t)
    BY <1>1
  <2>2. ts # 0
    BY DEF Timestamps
  <2>. QED  BY <2>1, <2>2, StoreGrows, HoldsStable DEF Stable
<1>2. \A k \in Keys : latest_commit[k] # 0 =>
         latest_commit[k] \in Timestamps /\ Shown(k, latest_commit[k])
  BY NonEmptyTs DEF VisibleIsPrepared, TypeOK
<1>. DEFINE Safe == \A k \in Keys :
                       latest_commit'[k] # 0 =>
                          latest_commit'[k] \in Timestamps /\ Shown(k, latest_commit'[k])
<1>. HIDE DEF Shown
<1>3. ASSUME latest_commit' = latest_commit
      PROVE  Safe
  BY <1>2, <1>3
<1>4. ASSUME NEW w \in Workers, NEW s \in Servers, CommitSet(w, s)
      PROVE  Safe
  <2>. DEFINE ts_c == conn[w][s].ts
              e == executor[w][s]
              item == items[s][ts_c][e.i]
  <2>1. /\ e.at = "set"
        /\ latest_commit' = [latest_commit EXCEPT ![item.key] = CommittedTs(@, ts_c)]
    <3>. HIDE DEF Safe
    <3>. QED  BY <1>4 DEF CommitSet
  <2>2. conn[w][s].type = "COMMIT" /\ pc[w] = "commit" /\ ts_c = trx_ts[trx[w]]
    <3>. HIDE DEF e
    <3>1. e.at = "set" /\ e = executor[w][s]
      BY <2>1 DEF e
    <3>2. conn[w][s].type = "COMMIT"
      BY <3>1 DEF MessagesOK
    <3>. QED  BY <3>2 DEF MessagesOK
  <2>3. trx[w] \in Trxs /\ Prepared(trx[w])
    BY <2>2 DEF ControlOK, Running, CommitOK
  <2>4. ts_c \in Timestamps /\ ts_c # 0
    BY <2>2, MessageFields DEF TypeOK, Timestamps
  <2>5. e.i >= 1 /\ e.i <= e.n /\ e.n <= Len(items[s][ts_c])
    BY <2>1 DEF LoopOK
  <2>6. e.i \in DOMAIN items[s][ts_c]
    <3>1. items[s][ts_c] \in Seq(Item) /\ e \in ExecutorState
      BY <2>4 DEF TypeOK
    <3>. HIDE DEF e, ts_c
    <3>2. e.i \in Nat /\ e.n \in Nat /\ Len(items[s][ts_c]) \in Nat
      BY <3>1 DEF ExecutorState
    <3>. QED  BY <2>5, <3>1, <3>2
  <2>7. Written(s, ts_c, item)
    BY <2>4, <2>6 DEF ItemsOK
  <2>8. PICK t \in Trxs : \E k \in WriteSet[t] :
               trx_ts[t] = ts_c /\ ServerOf[k] = s /\ item = ItemOf(t, k)
    BY <2>7 DEF Written
  <2>9. t = trx[w]
    BY <2>2, <2>3, <2>4, <2>8 DEF UniqueTs
  <2>10. item.key \in WriteSet[trx[w]]
    BY <2>8, <2>9 DEF ItemOf
  <2>11. Shown(item.key, ts_c)
    BY <2>2, <2>3, <2>10 DEF Shown
  <2>. HIDE DEF item, ts_c, e
  <2>. SUFFICES ASSUME NEW k \in Keys, latest_commit'[k] # 0
                PROVE  latest_commit'[k] \in Timestamps /\ Shown(k, latest_commit'[k])
    OBVIOUS
  <2>12. CASE k = item.key /\ CommitAssigns
    <3>1. latest_commit'[k] = ts_c
      BY <2>1, <2>12 DEF CommittedTs, TypeOK
    <3>. QED  BY <2>4, <2>11, <2>12, <3>1
  <2>13. CASE ~ (k = item.key /\ CommitAssigns)
    <3>1. latest_commit'[k] = latest_commit[k]
      BY <2>1, <2>13 DEF CommittedTs, TypeOK
    <3>. QED  BY <1>2, <3>1
  <2>. QED  BY <2>12, <2>13
<1>5. Safe
  <2>. HIDE DEF Safe
  <2>. QED  BY <1>3, <1>4, Writers DEF OneWriter
<1>. QED
  <2>1. \A k \in Keys : latest_commit'[k] # 0 =>
           latest_commit'[k] \in Timestamps /\ Shown(k, latest_commit'[k])
    BY <1>5
  <2>. QED  BY <1>1, <2>1 DEF VisibleIsPrepared, Shown

\* The write side of the inductive invariant holds when the program starts.
LEMMA WriteInit ==
    ASSUME Init
    PROVE  WriteInv
<1>. USE DEF Init
<1>1. TypeOK
  <2>1. EmptyItem \in Item /\ 0 \in TsOrEmpty
    BY ConstantsAssumption DEF EmptyItem, Item, TsOrEmpty
  <2>2. Receiving \in ExecutorState
    BY DEF Receiving, ExecutorState
  <2>3. NoMsg \in Message
    BY DEF NoMsg, Message
  <2>. QED  BY <2>1, <2>2, <2>3 DEF TypeOK
<1>2. ControlOK
  BY DEF ControlOK, Running, Reading
<1>3. MessagesOK /\ LoopOK
  BY DEF MessagesOK, LoopOK, NoMsg, Receiving
<1>4. UniqueTs /\ ItemsOK
  BY DEF UniqueTs, ItemsOK
<1>5. PrepareOK /\ CommitOK /\ VisibleIsPrepared
  BY DEF PrepareOK, CommitOK, VisibleIsPrepared
<1>. QED  BY <1>1, <1>2, <1>3, <1>4, <1>5 DEF WriteInv

\* Every variable keeps its type: the control invariant alone carries it, so
\* it holds of every clock, every kind of commit and both transaction types.
THEOREM TypeCorrect == Spec => []TypeOK
<1>. DEFINE Inv == TypeOK /\ ControlOK /\ MessagesOK
<1>1. Init => Inv
  BY WriteInit DEF WriteInv
<1>2. Inv /\ [Next]_vars => Inv'
  BY TypeStep, ControlStep, MessagesStep
<1>. QED  BY <1>1, <1>2, PTL DEF Spec

\* If no two transactions read the same clock value, the write side of the
\* inductive invariant holds in every reachable state.
THEOREM WriteInvariant == ASSUME DistinctTs PROVE Spec => []WriteInv
<1>1. Init => WriteInv
  BY WriteInit
<1>2. WriteInv /\ [Next]_vars => WriteInv'
  BY TypeStep, ControlStep, MessagesStep, LoopStep, UniqueTsStep, ItemsStep,
     PrepareStep, CommitStep, VisibleStep DEF WriteInv
<1>. QED  BY <1>1, <1>2, PTL DEF Spec

\* Every version a server shows as the latest committed one belongs to a
\* transaction that is prepared on all its servers.
THEOREM VisibleCorrect == ASSUME DistinctTs PROVE Spec => []VisibleIsPrepared
<1>1. WriteInv => VisibleIsPrepared
  BY DEF WriteInv
<1>. QED  BY <1>1, WriteInvariant, PTL

-----------------------------------------------------------------------------
(* get_all *)

\* The gets and answers between a worker and its executors are left alone.
GetsKept(v) ==
    \A s \in Servers :
        conn[v][s].type \in {"GET", "RESULT"} \/ conn'[v][s].type \in {"GET", "RESULT"} =>
            conn'[v][s] = conn[v][s]

\* How a step can move the reading side of worker v.
ReaderStep(v) ==
    /\ pc'[v] \in {"round1", "round2"} =>
          \/ GetAll(v)
          \/ CheckMissing(v)
          \/ /\ pc'[v] = pc[v] /\ trx'[v] = trx[v] /\ v_latest'[v] = v_latest[v]
             /\ \/ \E k \in Keys : SendGet(v, k)
                \/ \E s \in Servers : RecvResult(v, s) \/ Get(v, s)
                \/ ret'[v] = ret[v] /\ todo'[v] = todo[v] /\ GetsKept(v)
    /\ pc'[v] = "returned" =>
          \/ pc[v] = "returned" /\ trx'[v] = trx[v] /\ ret'[v] = ret[v]
          \/ GetAllReturn(v)
          \/ CheckMissing(v) /\ TrxType # "RAMP_FAST"
          \/ ReadSet[trx'[v]] = {}

\* Nothing else moves it: the other workers and the commits leave it alone.
LEMMA ReaderSteps ==
    ASSUME TypeOK, MessagesOK, [Next]_vars
    PROVE  \A v \in Workers : ReaderStep(v)
<1>. USE DEF TypeOK, MessagesOK, ReaderStep, GetsKept
<1>1. ASSUME UNCHANGED vars
      PROVE  \A v \in Workers : ReaderStep(v)
  BY <1>1 DEF vars, workerVars
<1>2. ASSUME NEW w \in Workers, Pop(w)
      PROVE  \A v \in Workers : ReaderStep(v)
  BY <1>2 DEF Pop, tableVars, Send
<1>3. ASSUME NEW w \in Workers, Exit(w)
      PROVE  \A v \in Workers : ReaderStep(v)
  BY <1>3 DEF Exit, tableVars, Send
<1>4. ASSUME NEW w \in Workers, Finish(w)
      PROVE  \A v \in Workers : ReaderStep(v)
  BY <1>4 DEF Finish, tableVars, Send
<1>5. ASSUME NEW w \in Workers, PutAll(w)
      PROVE  \A v \in Workers : ReaderStep(v)
  BY <1>5 DEF PutAll, tableVars, Send
<1>6. ASSUME NEW w \in Workers, BeginCommit(w)
      PROVE  \A v \in Workers : ReaderStep(v)
  BY <1>6 DEF BeginCommit, tableVars, Send
<1>7. ASSUME NEW w \in Workers, PutAllReturn(w)
      PROVE  \A v \in Workers : ReaderStep(v)
  BY <1>7 DEF PutAllReturn, tableVars, Send
<1>8. ASSUME NEW w \in Workers, GetAll(w)
      PROVE  \A v \in Workers : ReaderStep(v)
  <2>1. \A v \in Workers : v # w => ReaderStep(v)
    BY <1>8 DEF GetAll, Send
  <2>2. pc'[w] = "round1"
    BY <1>8 DEF GetAll, Send
  <2>3. ReaderStep(w)
    <3>. HIDE DEF TypeOK, MessagesOK
    <3>. QED  BY <1>8, <2>2, Zenon
  <2>. HIDE DEF ReaderStep
  <2>. QED  BY <2>1, <2>3
<1>9. ASSUME NEW w \in Workers, CheckMissing(w)
      PROVE  \A v \in Workers : ReaderStep(v)
  BY <1>9 DEF CheckMissing, tableVars, Send
<1>10. ASSUME NEW w \in Workers, GetAllReturn(w)
       PROVE  \A v \in Workers : ReaderStep(v)
  <2>1. \A v \in Workers : v # w => ReaderStep(v)
    BY <1>10 DEF GetAllReturn, Send
  <2>2. pc'[w] = "returned"
    BY <1>10 DEF GetAllReturn, Send
  <2>3. ReaderStep(w)
    <3>. HIDE DEF TypeOK, MessagesOK
    <3>. QED  BY <1>10, <2>2, Zenon
  <2>. HIDE DEF ReaderStep
  <2>. QED  BY <2>1, <2>3
<1>11. ASSUME NEW w \in Workers, NEW k \in Keys, SendPrepare(w, k)
       PROVE  \A v \in Workers : ReaderStep(v)
  BY <1>11, ConstantsAssumption DEF SendPrepare, tableVars, Send
<1>12. ASSUME NEW w \in Workers, NEW k \in Keys, SendGet(w, k)
       PROVE  \A v \in Workers : ReaderStep(v)
  <2>1. \A v \in Workers : v # w => ReaderStep(v)
    BY <1>12, ConstantsAssumption DEF SendGet, Send
  <2>2. pc' = pc /\ trx' = trx /\ v_latest' = v_latest /\ pc[w] \in {"round1", "round2"}
    BY <1>12 DEF SendGet, Send
  <2>3. ReaderStep(w)
    <3>. HIDE DEF TypeOK, MessagesOK
    <3>. QED  BY <1>12, <2>2, Zenon
  <2>. HIDE DEF ReaderStep
  <2>. QED  BY <2>1, <2>3
<1>13. ASSUME NEW w \in Workers, NEW s \in Servers, SendCommit(w, s)
       PROVE  \A v \in Workers : ReaderStep(v)
  BY <1>13 DEF SendCommit, tableVars, Send
<1>14. ASSUME NEW w \in Workers, NEW s \in Servers, RecvDone(w, s)
       PROVE  \A v \in Workers : ReaderStep(v)
  BY <1>14 DEF RecvDone, workerVars, Send, NoMsg, Done, Close, Result
<1>15. ASSUME NEW w \in Workers, NEW s \in Servers, RecvResult(w, s)
       PROVE  \A v \in Workers : ReaderStep(v)
  <2>1. \A v \in Workers : v # w => ReaderStep(v)
    BY <1>15 DEF RecvResult, Send, NoMsg, Reading
  <2>2. pc' = pc /\ trx' = trx /\ v_latest' = v_latest /\ pc[w] \in {"round1", "round2"}
    BY <1>15 DEF RecvResult, Send, NoMsg, Reading
  <2>3. ReaderStep(w)
    <3>. HIDE DEF TypeOK, MessagesOK
    <3>. QED  BY <1>15, <2>2, Zenon
  <2>. HIDE DEF ReaderStep
  <2>. QED  BY <2>1, <2>3
<1>16. ASSUME NEW w \in Workers, NEW s \in Servers, Prepare(w, s)
       PROVE  \A v \in Workers : ReaderStep(v)
  BY <1>16 DEF Prepare, workerVars, Send, NoMsg, Done, Close, Result
<1>17. ASSUME NEW w \in Workers, NEW s \in Servers, Get(w, s)
       PROVE  \A v \in Workers : ReaderStep(v)
  <2>1. \A v \in Workers : v # w => ReaderStep(v)
    BY <1>17 DEF Get, workerVars, Send, Reading
  <2>2. pc' = pc /\ trx' = trx /\ v_latest' = v_latest /\ pc[w] \in {"round1", "round2"}
    BY <1>17 DEF Get, workerVars, Send, Reading
  <2>3. ReaderStep(w)
    <3>. HIDE DEF TypeOK, MessagesOK
    <3>. QED  BY <1>17, <2>2, Zenon
  <2>. HIDE DEF ReaderStep
  <2>. QED  BY <2>1, <2>3
<1>18. ASSUME NEW w \in Workers, NEW s \in Servers, HandleClose(w, s)
       PROVE  \A v \in Workers : ReaderStep(v)
  BY <1>18 DEF HandleClose, workerVars, Send, NoMsg, Done, Close, Result
<1>19. ASSUME NEW w \in Workers, NEW s \in Servers, CommitBegin(w, s)
       PROVE  \A v \in Workers : ReaderStep(v)
  BY <1>19 DEF CommitBegin, workerVars, Send, NoMsg, Done, Close, Result
<1>20. ASSUME NEW w \in Workers, NEW s \in Servers, CommitTest(w, s)
       PROVE  \A v \in Workers : ReaderStep(v)
  BY <1>20 DEF CommitTest, workerVars, Send, NoMsg, Done, Close, Result
<1>21. ASSUME NEW w \in Workers, NEW s \in Servers, CommitSet(w, s)
       PROVE  \A v \in Workers : ReaderStep(v)
  BY <1>21 DEF CommitSet, workerVars, Send, NoMsg, Done, Close, Result
<1>22. ASSUME NEW w \in Workers, NEW s \in Servers, CommitDone(w, s)
       PROVE  \A v \in Workers : ReaderStep(v)
  BY <1>22 DEF CommitDone, workerVars, Send, NoMsg, Done, Close, Result
<1>23. ASSUME NEW w \in Workers, NEW s \in Servers, SendClose(w, s)
       PROVE  \A v \in Workers : ReaderStep(v)
  BY <1>23 DEF SendClose, workerVars, Send, NoMsg, Close
<1>. QED
  BY <1>1, <1>2, <1>3, <1>4, <1>5, <1>6, <1>7, <1>8, <1>9, <1>10, <1>11, <1>12, <1>13, <1>14, <1>15, <1>16, <1>17, <1>18, <1>19, <1>20, <1>21, <1>22, <1>23
  DEF Next, WorkerStep, ExecutorStep, Terminating

\* What is readable stays readable and what is available stays available.
LEMMA ReadableStable ==
    ASSUME TypeOK, ControlOK, [Next]_vars, NEW k \in Keys
    PROVE  /\ \A item \in Item : Readable(k, item) => Readable(k, item)'
           /\ \A ts \in TsOrEmpty : Available(k, ts) => Available(k, ts)'
<1>1. ASSUME NEW t \in Trxs, k \in WriteSet[t], Prepared(t)
      PROVE  /\ Prepared(t)' /\ trx_ts[t] # 0 /\ trx_ts'[t] = trx_ts[t]
             /\ ItemOf(t, k)' = ItemOf(t, k)
  <2>1. trx_ts[t] # 0
    BY <1>1 DEF Prepared, Holds
  <2>. QED  BY <1>1, <2>1, StoreGrows, HoldsStable DEF Stable
<1>2. ASSUME NEW item \in Item, Readable(k, item)
      PROVE  Readable(k, item)'
  BY <1>1, <1>2 DEF Readable
<1>3. ASSUME NEW ts \in TsOrEmpty, Available(k, ts)
      PROVE  Available(k, ts)'
  BY <1>1, <1>3 DEF Available
<1>. QED  BY <1>2, <1>3

\* The server of k answers a request for an available version with that version.
LEMMA GetReturns ==
    ASSUME TypeOK, UniqueTs, ItemsOK, NEW k \in Keys, NEW ts \in TsOrEmpty, Available(k, ts)
    PROVE  /\ Readable(k, GetItemByVer(ServerOf[k], k, ts))
           /\ GetItemByVer(ServerOf[k], k, ts).ts = ts
<1>. DEFINE s == ServerOf[k]
            item == GetItemByVer(s, k, ts)
<1>1. CASE ts = 0
  BY <1>1 DEF GetItemByVer, Readable, EmptyItem
<1>2. CASE ts # 0
  <2>1. PICK t \in Trxs : trx_ts[t] = ts /\ k \in WriteSet[t] /\ Prepared(t)
    BY <1>2 DEF Available
  <2>2. s \in Servers /\ ts \in Timestamps
    BY <1>2, NonEmptyTs, ConstantsAssumption
  <2>3. PICK i \in DOMAIN items[s][ts] : items[s][ts][i] = ItemOf(t, k)
    BY <2>1 DEF Prepared, Holds
  <2>4. items[s][ts][i].key = k
    BY <2>3 DEF ItemOf
  <2>5. PICK j \in DOMAIN items[s][ts] : items[s][ts][j].key = k /\ item = items[s][ts][j]
    BY <1>2, <2>2, <2>4, GetItemByVerHit
  <2>6. Written(s, ts, item)
    BY <2>2, <2>5 DEF ItemsOK
  <2>7. PICK u \in Trxs : \E h \in WriteSet[u] : trx_ts[u] = ts /\ item = ItemOf(u, h)
    BY <2>6 DEF Written
  <2>8. u = t
    BY <1>2, <2>1, <2>7 DEF UniqueTs
  <2>9. item = ItemOf(t, k)
    BY <2>5, <2>7, <2>8 DEF ItemOf
  <2>10. item.ts = ts
    BY <2>1, <2>9 DEF ItemOf
  <2>. QED  BY <2>1, <2>9, <2>10 DEF Readable
<1>. QED  BY <1>1, <1>2

\* A reader is handed readable items only.
LEMMA ReturnedStep ==
    ASSUME NEW W \in SUBSET Workers, TypeOK, ControlOK, MessagesOK, ReturnedOK(W),
           AnswersOK(W), [Next]_vars
    PROVE  ReturnedOK(W)'
<1>. SUFFICES ASSUME NEW v \in Workers, v \in W, NEW k \in Keys
              PROVE  Readable(k, ret[v][k])'
  BY DEF ReturnedOK
<1>2. ret[v][k] \in Item /\ Readable(k, ret[v][k])
  BY DEF TypeOK, ReturnedOK
<1>3. CASE ret'[v][k] = ret[v][k]
  <2>. DEFINE item == ret[v][k]
  <2>1. item \in Item /\ Readable(k, item)
    BY <1>2
  <2>2. ret'[v][k] = item
    BY <1>3
  <2>. HIDE DEF item
  <2>. QED  BY <2>1, <2>2, ReadableStable DEF Readable
<1>4. ASSUME NEW w \in Workers, GetAll(w)
      PROVE  ret'[v][k] = ret[v][k] \/ ret'[v][k] = EmptyItem
  BY <1>4 DEF GetAll, TypeOK
<1>5. ASSUME NEW w \in Workers, NEW s \in Servers, RecvResult(w, s)
      PROVE  \/ ret'[v][k] = ret[v][k]
             \/ /\ ret'[v][k] = conn[v][s].item
                /\ conn[v][s].type = "RESULT" /\ conn[v][s].key = k
  BY <1>5 DEF RecvResult, TypeOK
<1>6. CASE ret'[v][k] = EmptyItem
  BY <1>6 DEF Readable
<1>7. ASSUME NEW s \in Servers, ret'[v][k] = conn[v][s].item,
             conn[v][s].type = "RESULT", conn[v][s].key = k
      PROVE  Readable(k, ret[v][k])'
  <2>. DEFINE item == conn[v][s].item
  <2>1. item \in Item
    BY <1>7, MessageFields DEF TypeOK
  <2>2. Readable(k, item)
    BY <1>7 DEF AnswersOK
  <2>3. ret'[v][k] = item
    BY <1>7
  <2>. HIDE DEF item
  <2>. QED  BY <2>1, <2>2, <2>3, ReadableStable DEF Readable
<1>8. \/ ret'[v][k] = ret[v][k]
      \/ ret'[v][k] = EmptyItem
      \/ \E s \in Servers : /\ ret'[v][k] = conn[v][s].item
                            /\ conn[v][s].type = "RESULT" /\ conn[v][s].key = k
  BY <1>4, <1>5, Writers DEF OneWriter
<1>. QED  BY <1>3, <1>6, <1>7, <1>8

\* The versions CheckMissing finds missing are prepared, since the items that
\* name them are readable and a reader's keys are all keys of their writer.
LEMMA LatestStep ==
    ASSUME NEW W \in SUBSET Workers, PureTrxs, TypeOK, ControlOK, MessagesOK,
           ReturnedOK(W), LatestOK(W), [Next]_vars
    PROVE  LatestOK(W)'
<1>. SUFFICES ASSUME NEW v \in Workers, v \in W, pc'[v] = "round2", NEW k \in Keys
              PROVE  Available(k, v_latest[v][k])'
  BY DEF LatestOK
<1>. DEFINE ts == v_latest'[v][k]
<1>1. ASSUME CheckMissing(v)
      PROVE  ts \in TsOrEmpty /\ Available(k, ts)
  <2>1. pc[v] = "round1" /\ v_latest'[v] = [j \in Keys |-> LatestSibling(v, j)]
    BY <1>1 DEF CheckMissing, TypeOK
  <2>2. ts = LatestSibling(v, k)
    BY <2>1
  <2>. HIDE DEF ts
  <2>3. ts \in TsOrEmpty
    BY <2>2, LatestSiblingMax
  <2>4. ASSUME ts # 0
        PROVE  \E t \in Trxs : trx_ts[t] = ts /\ k \in WriteSet[t] /\ Prepared(t)
    <3>1. PICK j \in Keys : k \in ret[v][j].trx_keys /\ ts = ret[v][j].ts
      BY <2>2, <2>4, LatestSiblingMax
    <3>2. ret[v][j] # EmptyItem
      BY <3>1 DEF EmptyItem
    <3>3. PICK t \in Trxs : j \in WriteSet[t] /\ ret[v][j] = ItemOf(t, j) /\ Prepared(t)
      BY <3>2 DEF ReturnedOK, Readable
    <3>4. trx_ts[t] = ts /\ k \in AccessKeys(t)
      BY <3>1, <3>3 DEF ItemOf
    <3>5. k \in WriteSet[t]
      BY <3>3, <3>4 DEF PureTrxs, AccessKeys
    <3>. QED  BY <3>3, <3>4, <3>5
  <2>. QED  BY <2>3, <2>4 DEF Available
<1>2. ASSUME pc[v] = "round2", v_latest'[v] = v_latest[v]
      PROVE  ts \in TsOrEmpty /\ Available(k, ts)
  BY <1>2 DEF LatestOK, TypeOK
<1>3. ts \in TsOrEmpty /\ Available(k, ts)
  <2>1. \/ GetAll(v)
        \/ CheckMissing(v)
        \/ pc'[v] = pc[v] /\ v_latest'[v] = v_latest[v]
    BY ReaderSteps DEF ReaderStep
  <2>2. ~ GetAll(v)
    BY DEF GetAll, TypeOK
  <2>. HIDE DEF ts
  <2>. QED  BY <1>1, <1>2, <2>1, <2>2
<1>. QED
  <2>1. PICK n \in TsOrEmpty : n = v_latest'[v][k] /\ Available(k, n)
    BY <1>3
  <2>2. Available(k, n)'
    BY <2>1, ReadableStable
  <2>. QED  BY <2>1, <2>2 DEF Available

\* The first round asks for latest versions and the second for missing ones.
LEMMA RequestsStep ==
    ASSUME NEW W \in SUBSET Workers, TypeOK, ControlOK, MessagesOK, RequestsOK(W),
           [Next]_vars
    PROVE  RequestsOK(W)'
<1>. DEFINE Asked(w) ==
       /\ pc[w] = "round2" => \A k \in todo[w] : v_latest[w][k] # 0
       /\ \A s \in Servers :
             conn[w][s].type = "GET" =>
                 /\ pc[w] = "round1" => conn[w][s].ts = 0
                 /\ pc[w] = "round2" => /\ conn[w][s].ts = v_latest[w][conn[w][s].key]
                                        /\ conn[w][s].ts # 0
<1>. SUFFICES ASSUME NEW v \in Workers, v \in W PROVE Asked(v)'
  BY DEF RequestsOK
<1>1. CASE pc'[v] \notin {"round1", "round2"}
  <2>1. \A s \in Servers : conn'[v][s].type # "GET"
    BY <1>1, MessagesStep DEF MessagesOK, Reading
  <2>. QED  BY <1>1, <2>1
<1>2. CASE GetAll(v)
  <2>1. pc[v] = "get_all" /\ pc'[v] = "round1" /\ conn' = conn
    BY <1>2 DEF GetAll, TypeOK
  <2>2. \A s \in Servers : conn[v][s].type # "GET"
    BY <2>1 DEF MessagesOK, Reading
  <2>. QED  BY <2>1, <2>2
<1>3. CASE CheckMissing(v)
  <2>1. \A s \in Servers : conn'[v][s].type # "GET"
    BY <1>3 DEF CheckMissing, AllAnswered, Idle, NoMsg
  <2>2. ASSUME pc'[v] = "round2", NEW k \in todo'[v]
        PROVE  v_latest'[v][k] # 0
    <3>1. TrxType = "RAMP_FAST"
      BY <1>3, <2>2 DEF CheckMissing, TypeOK
    <3>2. trx[v] \in Trxs
      BY <1>3 DEF CheckMissing, ControlOK, Running
    <3>3. k \in Keys /\ LatestSibling(v, k) > ret[v][k].ts
      BY <1>3, <2>2, <3>1, <3>2, ConstantsAssumption DEF CheckMissing, TypeOK
    <3>4. v_latest'[v][k] = LatestSibling(v, k)
      BY <1>3, <3>1, <3>3 DEF CheckMissing, TypeOK
    <3>5. ret[v][k] \in Item
      BY <3>3 DEF TypeOK
    <3>6. ret[v][k].ts \in Nat
      BY <3>5 DEF Item, TsOrEmpty
    <3>. QED  BY <3>3, <3>4, <3>6
  <2>. QED  BY <2>1, <2>2
<1>4. ASSUME NEW k \in Keys, SendGet(v, k)
      PROVE  Asked(v)'
  <2>. DEFINE s == ServerOf[k]
              m == [type |-> "GET", key |-> k,
                    ts |-> IF pc[v] = "round1" THEN 0 ELSE v_latest[v][k]]
  <2>1. /\ pc' = pc /\ v_latest' = v_latest /\ k \in todo[v]
        /\ todo'[v] = todo[v] \ {k}
        /\ conn' = [conn EXCEPT ![v][s] = m]
    BY <1>4 DEF SendGet, Send, TypeOK
  <2>2. s \in Servers
    BY ConstantsAssumption
  <2>3. conn'[v][s] = m /\ \A r \in Servers : r # s => conn'[v][r] = conn[v][r]
    BY <2>1, <2>2 DEF TypeOK
  <2>4. /\ m.key = k
        /\ pc[v] = "round1" => m.ts = 0
        /\ pc[v] = "round2" => m.ts = v_latest[v][k] /\ v_latest[v][k] # 0
    BY <2>1 DEF RequestsOK
  <2>. HIDE DEF m, s
  <2>. QED  BY <2>1, <2>3, <2>4 DEF RequestsOK
<1>5. ASSUME NEW s \in Servers, RecvResult(v, s) \/ Get(v, s)
      PROVE  Asked(v)'
  <2>1. /\ pc' = pc /\ v_latest' = v_latest /\ todo' = todo
        /\ conn'[v][s].type # "GET"
        /\ \A r \in Servers : r # s => conn'[v][r] = conn[v][r]
    BY <1>5 DEF RecvResult, Get, Send, NoMsg, Result, workerVars, TypeOK
  <2>. QED  BY <2>1 DEF RequestsOK
<1>6. CASE /\ pc'[v] = pc[v] /\ v_latest'[v] = v_latest[v]
           /\ todo'[v] = todo[v] /\ GetsKept(v)
  BY <1>6 DEF RequestsOK, GetsKept
<1>. HIDE DEF Asked
<1>. QED  BY <1>1, <1>2, <1>3, <1>4, <1>5, <1>6, ReaderSteps DEF ReaderStep

\* An answer is readable and of the version asked for: a first-round GET finds
\* the latest committed version, which is prepared, and a second-round GET one
\* that LatestOK says is prepared.
LEMMA AnswersStep ==
    ASSUME NEW W \in SUBSET Workers, TypeOK, ControlOK, MessagesOK, UniqueTs, ItemsOK,
           VisibleIsPrepared, LatestOK(W), RequestsOK(W), AnswersOK(W), [Next]_vars
    PROVE  AnswersOK(W)'
<1>. DEFINE Good(w, m) ==
       /\ Readable(m.key, m.item)
       /\ pc[w] = "round2" => m.item.ts = v_latest[w][m.key]
<1>. SUFFICES ASSUME NEW v \in Workers, v \in W, NEW s \in Servers, conn'[v][s].type = "RESULT"
              PROVE  Good(v, conn[v][s])'
  BY DEF AnswersOK
<1>1. pc'[v] \in {"round1", "round2"}
  BY MessagesStep DEF MessagesOK, Reading
<1>2. ~ GetAll(v) /\ ~ CheckMissing(v)
  <2>1. ASSUME GetAll(v) PROVE FALSE
    BY <2>1 DEF GetAll, MessagesOK, Reading
  <2>2. ASSUME CheckMissing(v) PROVE FALSE
    BY <2>2 DEF CheckMissing, AllAnswered, Idle, NoMsg
  <2>. QED  BY <2>1, <2>2
<1>3. ASSUME NEW m \in Message, m.type = "RESULT", Good(v, m),
             pc'[v] = pc[v], v_latest'[v] = v_latest[v], conn'[v][s] = m
      PROVE  Good(v, conn[v][s])'
  <2>1. m.key \in Keys /\ m.item \in Item
    BY <1>3, MessageFields
  <2>2. Readable(m.key, m.item)'
    BY <1>3, <2>1, ReadableStable
  <2>. QED  BY <1>3, <2>1, <2>2 DEF Readable
<1>4. ASSUME pc'[v] = pc[v], v_latest'[v] = v_latest[v], conn'[v][s] = conn[v][s]
      PROVE  Good(v, conn[v][s])'
  <2>1. conn[v][s] \in Message /\ conn[v][s].type = "RESULT" /\ Good(v, conn[v][s])
    BY <1>4 DEF AnswersOK, TypeOK
  <2>. HIDE DEF Good
  <2>. QED  BY <1>3, <1>4, <2>1
<1>5. ASSUME NEW r \in Servers, Get(v, r)
      PROVE  Good(v, conn[v][s])'
  <2>1. /\ pc' = pc /\ v_latest' = v_latest
        /\ \A q \in Servers : q # r => conn'[v][q] = conn[v][q]
        /\ conn[v][r].type = "GET"
    BY <1>5 DEF Get, Send, workerVars, TypeOK
  <2>2. CASE s # r
    BY <1>4, <2>1, <2>2
  <2>3. CASE s = r
    <3>. DEFINE k == conn[v][r].key
                ts == RequestedVersion(k, conn[v][r].ts)
                item == GetItemByVer(r, k, ts)
                m == Result(k, item)
    <3>1. conn'[v][s] = m
      BY <1>5, <2>3 DEF Get, Send, TypeOK
    <3>2. k \in Keys /\ conn[v][r].ts \in TsOrEmpty /\ r = ServerOf[k]
      BY <2>1, MessageFields DEF TypeOK, MessagesOK
    <3>3. ts \in TsOrEmpty
      BY <3>2, RequestedVersionType
    <3>4. pc[v] \in {"round1", "round2"}
      BY <2>1 DEF MessagesOK, Reading
    <3>5. ASSUME pc[v] = "round1"
          PROVE  Readable(k, item)
      <4>1. ts = latest_commit[k]
        BY <2>1, <3>5 DEF RequestedVersion, RequestsOK
      <4>2. Available(k, ts)
        BY <3>2, <4>1 DEF VisibleIsPrepared, Available
      <4>3. Readable(k, item)
        BY <3>2, <3>3, <4>2, GetReturns
      <4>. QED  BY <4>3
    <3>6. ASSUME pc[v] = "round2"
          PROVE  Readable(k, item) /\ item.ts = v_latest[v][k]
      <4>1. ts = v_latest[v][k]
        BY <2>1, <3>6 DEF RequestedVersion, RequestsOK
      <4>2. Available(k, ts)
        BY <3>2, <3>6, <4>1 DEF LatestOK
      <4>3. Readable(k, item) /\ item.ts = ts
        BY <3>2, <3>3, <4>2, GetReturns
      <4>. QED  BY <4>1, <4>3
    <3>7. Readable(k, item) /\ (pc[v] = "round2" => item.ts = v_latest[v][k])
      BY <3>4, <3>5, <3>6
    <3>8. m.key = k /\ m.item = item /\ m.type = "RESULT"
      BY DEF Result
    <3>9. m \in Message
      BY <3>2, <3>3, GetItemByVerType DEF Message, Result
    <3>. HIDE DEF item, k, ts, m
    <3>10. Good(v, m)
      BY <3>7, <3>8
    <3>. HIDE DEF Good
    <3>. QED  BY <1>3, <2>1, <3>1, <3>8, <3>9, <3>10
  <2>. QED  BY <2>2, <2>3
<1>6. ASSUME NEW k \in Keys, SendGet(v, k)
      PROVE  conn'[v][s] = conn[v][s]
  BY <1>6, ConstantsAssumption DEF SendGet, Send, TypeOK
<1>7. ASSUME NEW r \in Servers, RecvResult(v, r)
      PROVE  conn'[v][s] = conn[v][s]
  BY <1>7 DEF RecvResult, Send, NoMsg, TypeOK
<1>8. GetsKept(v) => conn'[v][s] = conn[v][s]
  BY DEF GetsKept
<1>. HIDE DEF Good
<1>. QED  BY <1>1, <1>2, <1>4, <1>5, <1>6, <1>7, <1>8, ReaderSteps DEF ReaderStep

\* An item that names its writer is that writer's item for the key.
LEMMA ReadableItem ==
    ASSUME NEW k \in Keys, NEW item, Readable(k, item), item.trx # NoTrx
    PROVE  /\ item.trx \in Trxs /\ k \in WriteSet[item.trx]
           /\ item = ItemOf(item.trx, k) /\ Prepared(item.trx)
           /\ trx_ts[item.trx] # 0 /\ item.ts = trx_ts[item.trx]
<1>1. item # EmptyItem
  BY DEF EmptyItem
<1>2. PICK t \in Trxs : k \in WriteSet[t] /\ item = ItemOf(t, k) /\ Prepared(t)
  BY <1>1 DEF Readable
<1>3. item.trx = t /\ item.ts = trx_ts[t]
  BY <1>2 DEF ItemOf
<1>4. trx_ts[t] # 0
  BY <1>2 DEF Prepared, Holds
<1>. QED  BY <1>2, <1>3, <1>4

\* v_latest stays closed under siblings: CheckMissing takes the maximum over all
\* items that name a key, and an item of the second round is of the version
\* that v_latest already covers.
LEMMA ClosedStep ==
    ASSUME NEW W \in SUBSET Workers, DistinctTs, TrxType = "RAMP_FAST", TypeOK,
           ControlOK, MessagesOK, UniqueTs, ReturnedOK(W), LatestOK(W), AnswersOK(W),
           ClosedOK(W), [Next]_vars
    PROVE  ClosedOK(W)'
<1>. SUFFICES ASSUME NEW v \in Workers, v \in W, pc'[v] = "round2",
                     NEW t \in Trxs, NEW k1 \in WriteSet[t], NEW k2 \in WriteSet[t]
              PROVE  /\ ret'[v][k1].trx = t => v_latest'[v][k2] >= ret'[v][k1].ts
                     /\ v_latest'[v][k1] = trx_ts'[t] /\ trx_ts'[t] # 0 =>
                           v_latest'[v][k2] >= trx_ts'[t]
  BY DEF ClosedOK
<1>1. k1 \in Keys /\ k2 \in Keys
  BY ConstantsAssumption
<1>2. CASE CheckMissing(v)
  <2>1. /\ v_latest'[v] = [k \in Keys |-> LatestSibling(v, k)]
        /\ ret' = ret /\ trx_ts' = trx_ts
    BY <1>2 DEF CheckMissing, TypeOK
  <2>2. v_latest'[v][k1] = LatestSibling(v, k1) /\ v_latest'[v][k2] = LatestSibling(v, k2)
    BY <1>1, <2>1
  <2>3. ASSUME NEW j \in Keys, NEW u \in Trxs, ret[v][j] = ItemOf(u, j), k2 \in AccessKeys(u)
        PROVE  LatestSibling(v, k2) >= ret[v][j].ts
    <3>1. k2 \in ret[v][j].trx_keys
      BY <2>3 DEF ItemOf
    <3>. QED  BY <1>1, <3>1, LatestSiblingMax
  <2>4. k2 \in AccessKeys(t)
    BY DEF AccessKeys
  <2>5. ASSUME ret[v][k1].trx = t
        PROVE  LatestSibling(v, k2) >= ret[v][k1].ts
    <3>1. Readable(k1, ret[v][k1]) /\ ret[v][k1].trx # NoTrx
      BY <1>1, <2>5, ConstantsAssumption DEF ReturnedOK
    <3>2. ret[v][k1] = ItemOf(t, k1)
      BY <1>1, <2>5, <3>1, ReadableItem
    <3>. QED  BY <1>1, <2>3, <2>4, <3>2
  <2>6. ASSUME LatestSibling(v, k1) = trx_ts[t], trx_ts[t] # 0
        PROVE  LatestSibling(v, k2) >= trx_ts[t]
    <3>1. PICK j \in Keys : k1 \in ret[v][j].trx_keys /\ trx_ts[t] = ret[v][j].ts
      BY <1>1, <2>6, LatestSiblingMax
    <3>2. ret[v][j] # EmptyItem
      BY <3>1 DEF EmptyItem
    <3>3. PICK u \in Trxs : ret[v][j] = ItemOf(u, j)
      BY <3>2 DEF ReturnedOK, Readable
    <3>4. trx_ts[u] = trx_ts[t]
      BY <3>1, <3>3 DEF ItemOf
    <3>5. u = t
      BY <2>6, <3>4 DEF UniqueTs
    <3>. QED  BY <2>3, <2>4, <3>1, <3>3, <3>5
  <2>. QED  BY <2>1, <2>2, <2>5, <2>6
<1>3. ASSUME pc[v] = "round2", v_latest'[v] = v_latest[v]
      PROVE  v_latest'[v][k1] = trx_ts'[t] /\ trx_ts'[t] # 0 =>
                v_latest'[v][k1] = trx_ts[t] /\ trx_ts'[t] = trx_ts[t]
  <2>. SUFFICES ASSUME v_latest[v][k1] = trx_ts'[t], trx_ts'[t] # 0
                PROVE  trx_ts'[t] = trx_ts[t]
    BY <1>3
  <2>1. PICK u \in Trxs : trx_ts[u] = v_latest[v][k1]
    BY <1>1, <1>3 DEF LatestOK, Available
  <2>2. trx_ts'[u] = trx_ts'[t] /\ trx_ts'[u] = trx_ts[u]
    BY <2>1, StoreGrows DEF Stable
  <2>3. u = t
    BY <2>2, UniqueTsStep DEF UniqueTs
  <2>. QED  BY <2>2, <2>3
<1>4. ASSUME pc[v] = "round2", v_latest'[v] = v_latest[v]
      PROVE  v_latest'[v][k1] = trx_ts'[t] /\ trx_ts'[t] # 0 => v_latest'[v][k2] >= trx_ts'[t]
  <2>1. v_latest[v][k1] = trx_ts[t] /\ trx_ts[t] # 0 => v_latest[v][k2] >= trx_ts[t]
    BY <1>4 DEF ClosedOK
  <2>. QED  BY <1>3, <1>4, <2>1
<1>5. ASSUME pc[v] = "round2", v_latest'[v] = v_latest[v], ret'[v][k1] = ret[v][k1]
      PROVE  ret'[v][k1].trx = t => v_latest'[v][k2] >= ret'[v][k1].ts
  BY <1>5 DEF ClosedOK
<1>6. ASSUME pc[v] = "round2", v_latest'[v] = v_latest[v], NEW s \in Servers, RecvResult(v, s)
      PROVE  ret'[v][k1].trx = t => v_latest'[v][k2] >= ret'[v][k1].ts
  <2>. DEFINE item == conn[v][s].item
  <2>1. CASE ret'[v][k1] = ret[v][k1]
    BY <1>5, <1>6, <2>1
  <2>2. CASE ret'[v][k1] # ret[v][k1]
    <3>1. /\ conn[v][s].type = "RESULT" /\ conn[v][s].key = k1
          /\ ret'[v][k1] = item
      BY <1>1, <1>6, <2>2 DEF RecvResult, TypeOK
    <3>2. Readable(k1, item) /\ item.ts = v_latest[v][k1]
      BY <1>6, <3>1 DEF AnswersOK
    <3>. HIDE DEF item
    <3>. SUFFICES ASSUME item.trx = t PROVE v_latest[v][k2] >= item.ts
      BY <1>6, <3>1
    <3>3. item.trx # NoTrx
      BY ConstantsAssumption
    <3>4. item.ts = trx_ts[t] /\ trx_ts[t] # 0
      BY <1>1, <3>2, <3>3, ReadableItem
    <3>. QED  BY <1>6, <3>2, <3>4 DEF ClosedOK
  <2>. QED  BY <2>1, <2>2
<1>7. ASSUME NEW k \in Keys, SendGet(v, k)
      PROVE  ret' = ret
  BY <1>7 DEF SendGet
<1>8. ASSUME NEW s \in Servers, Get(v, s)
      PROVE  ret' = ret
  BY <1>8 DEF Get, workerVars
<1>9. ~ GetAll(v)
  BY DEF GetAll, TypeOK
<1>. QED  BY <1>2, <1>4, <1>5, <1>6, <1>7, <1>8, <1>9, ReaderSteps DEF ReaderStep

\* Whatever is too old after the first round stays on its way until it is
\* replaced by what v_latest asks for.
LEMMA CompleteStep ==
    ASSUME NEW W \in SUBSET Workers, TrxType = "RAMP_FAST", TypeOK, ControlOK,
           MessagesOK, AnswersOK(W), CompleteOK(W), [Next]_vars
    PROVE  CompleteOK(W)'
<1>. DEFINE Sent(v, k) == /\ conn[v][ServerOf[k]].type \in {"GET", "RESULT"}
                          /\ conn[v][ServerOf[k]].key = k
            OnWay(v, k) == k \in todo[v] \/ Sent(v, k)
            Recent(v, k) == ret[v][k].ts >= v_latest[v][k]
<1>. SUFFICES ASSUME NEW v \in Workers, v \in W, pc'[v] = "round2", NEW k \in ReadSet[trx'[v]]
              PROVE  OnWay(v, k)' \/ Recent(v, k)'
  BY DEF CompleteOK
<1>1. trx'[v] \in Trxs
  BY ControlStep DEF ControlOK, Running
<1>2. k \in Keys /\ ServerOf[k] \in Servers
  BY <1>1, ConstantsAssumption
<1>3. CASE CheckMissing(v)
  <2>1. /\ trx' = trx /\ ret' = ret
        /\ v_latest'[v] = [j \in Keys |-> LatestSibling(v, j)]
        /\ todo'[v] = {j \in ReadSet[trx[v]] : LatestSibling(v, j) > ret[v][j].ts}
    BY <1>3 DEF CheckMissing, TypeOK
  <2>2. v_latest'[v][k] = LatestSibling(v, k) /\ LatestSibling(v, k) \in Nat
    BY <1>2, <2>1, LatestSiblingMax DEF TsOrEmpty
  <2>3. ret[v][k].ts \in Nat
    <3>1. ret[v][k] \in Item
      BY <1>2 DEF TypeOK
    <3>. QED  BY <3>1 DEF Item, TsOrEmpty
  <2>4. LatestSibling(v, k) > ret[v][k].ts \/ ret[v][k].ts >= LatestSibling(v, k)
    BY <2>2, <2>3
  <2>. QED  BY <2>1, <2>2, <2>4
<1>4. ASSUME pc'[v] = pc[v], trx'[v] = trx[v], v_latest'[v] = v_latest[v]
      PROVE  OnWay(v, k) \/ Recent(v, k)
  BY <1>4 DEF CompleteOK
<1>5. ASSUME pc'[v] = pc[v], trx'[v] = trx[v], v_latest'[v] = v_latest[v],
             NEW j \in Keys, SendGet(v, j)
      PROVE  OnWay(v, k)' \/ Recent(v, k)'
  <2>1. /\ ret' = ret /\ todo'[v] = todo[v] \ {j} /\ ServerOf[j] \in Servers
        /\ conn[v][ServerOf[j]] = NoMsg
        /\ conn'[v][ServerOf[j]].type = "GET" /\ conn'[v][ServerOf[j]].key = j
        /\ \A s \in Servers : s # ServerOf[j] => conn'[v][s] = conn[v][s]
    BY <1>5, ConstantsAssumption DEF SendGet, Send, TypeOK
  <2>2. CASE k = j
    BY <2>1, <2>2
  <2>3. CASE k # j /\ k \in todo[v]
    BY <2>1, <2>3
  <2>4. CASE Sent(v, k)
    <3>1. ServerOf[k] # ServerOf[j]
      BY <2>1, <2>4 DEF NoMsg
    <3>. QED  BY <1>2, <2>1, <2>4, <3>1
  <2>5. CASE Recent(v, k)
    BY <1>5, <2>1, <2>5
  <2>. QED  BY <1>4, <1>5, <2>2, <2>3, <2>4, <2>5
<1>6. ASSUME pc'[v] = pc[v], trx'[v] = trx[v], v_latest'[v] = v_latest[v],
             NEW s \in Servers, RecvResult(v, s)
      PROVE  OnWay(v, k)' \/ Recent(v, k)'
  <2>1. /\ todo' = todo /\ conn[v][s].type = "RESULT"
        /\ \A r \in Servers : r # s => conn'[v][r] = conn[v][r]
        /\ ret'[v] = [ret[v] EXCEPT ![conn[v][s].key] = conn[v][s].item]
        /\ ret[v] \in [Keys -> Item]
    BY <1>6 DEF RecvResult, Send, TypeOK
  <2>2. CASE k = conn[v][s].key
    <3>1. ret'[v][k].ts = v_latest[v][k]
      BY <1>2, <1>6, <2>1, <2>2 DEF AnswersOK
    <3>2. v_latest[v][k] \in Nat
      BY <1>2 DEF TypeOK, TsOrEmpty
    <3>. QED  BY <1>6, <3>1, <3>2
  <2>3. CASE k # conn[v][s].key
    <3>1. ret'[v][k] = ret[v][k]
      BY <1>2, <2>1, <2>3
    <3>2. ASSUME Sent(v, k) PROVE Sent(v, k)'
      <4>1. ServerOf[k] # s
        BY <2>3, <3>2
      <4>. QED  BY <1>2, <2>1, <3>2, <4>1
    <3>. HIDE DEF Sent
    <3>. QED  BY <1>4, <1>6, <2>1, <3>1, <3>2
  <2>. QED  BY <2>2, <2>3
<1>7. ASSUME pc'[v] = pc[v], trx'[v] = trx[v], v_latest'[v] = v_latest[v],
             NEW s \in Servers, Get(v, s)
      PROVE  OnWay(v, k)' \/ Recent(v, k)'
  <2>1. /\ todo' = todo /\ ret' = ret
        /\ \A r \in Servers : r # s => conn'[v][r] = conn[v][r]
        /\ conn'[v][s].type = "RESULT" /\ conn'[v][s].key = conn[v][s].key
    BY <1>7 DEF Get, Send, Result, workerVars, TypeOK
  <2>2. ASSUME Sent(v, k) PROVE Sent(v, k)'
    BY <1>2, <2>1, <2>2
  <2>. HIDE DEF Sent
  <2>. QED  BY <1>4, <1>7, <2>1, <2>2
<1>8. ASSUME pc'[v] = pc[v], trx'[v] = trx[v], v_latest'[v] = v_latest[v],
             ret'[v] = ret[v], todo'[v] = todo[v], GetsKept(v)
      PROVE  OnWay(v, k)' \/ Recent(v, k)'
  <2>1. ASSUME Sent(v, k) PROVE Sent(v, k)'
    BY <1>2, <1>8, <2>1 DEF GetsKept
  <2>. HIDE DEF Sent
  <2>. QED  BY <1>4, <1>8, <2>1
<1>9. ~ GetAll(v)
  BY DEF GetAll, TypeOK
<1>. HIDE DEF OnWay, Recent
<1>. QED  BY <1>3, <1>5, <1>6, <1>7, <1>8, <1>9, ReaderSteps DEF ReaderStep

\* When the second round has returned, no key of a writer is older than the
\* others: v_latest covers the writer's siblings and the second round has
\* replaced whatever was older than v_latest.
LEMMA AtomicStep ==
    ASSUME NEW W \in SUBSET Workers, TrxType = "RAMP_FAST", TypeOK, ControlOK,
           MessagesOK, UniqueTs, ReturnedOK(W), ClosedOK(W), CompleteOK(W), AtomicOK(W),
           [Next]_vars
    PROVE  AtomicOK(W)'
<1>. SUFFICES ASSUME NEW v \in Workers, v \in W, pc'[v] = "returned",
                     NEW k1 \in ReadSet[trx'[v]], NEW k2 \in ReadSet[trx'[v]],
                     ret'[v][k1].trx # NoTrx, k2 \in WriteSet[ret'[v][k1].trx]
              PROVE  \/ ret'[v][k2].trx = ret'[v][k1].trx
                     \/ ret'[v][k2].ts > ret'[v][k1].ts
  BY DEF AtomicOK
<1>1. CASE pc[v] = "returned" /\ trx'[v] = trx[v] /\ ret'[v] = ret[v]
  BY <1>1 DEF AtomicOK
<1>2. CASE ReadSet[trx'[v]] = {}
  BY <1>2
<1>3. CASE GetAllReturn(v)
  <2>1. /\ pc[v] = "round2" /\ todo[v] = {} /\ trx' = trx /\ ret' = ret
        /\ \A s \in Servers : conn[v][s] = NoMsg
    BY <1>3 DEF GetAllReturn, AllAnswered, Idle
  <2>2. trx[v] \in Trxs
    BY <2>1 DEF ControlOK, Running
  <2>3. k1 \in Keys /\ k2 \in Keys /\ ServerOf[k2] \in Servers /\ k2 \in ReadSet[trx[v]]
    BY <2>1, <2>2, ConstantsAssumption
  <2>. DEFINE t == ret[v][k1].trx
              x == ret[v][k1].ts
              y == ret[v][k2].ts
              z == v_latest[v][k2]
  <2>4. /\ t \in Trxs /\ k1 \in WriteSet[t] /\ k2 \in WriteSet[t]
        /\ x = trx_ts[t] /\ trx_ts[t] # 0
    BY <2>1, <2>3, ReadableItem DEF ReturnedOK
  <2>5. z >= x
    BY <2>1, <2>4 DEF ClosedOK
  <2>6. y >= z
    <3>1. conn[v][ServerOf[k2]].type \notin {"GET", "RESULT"}
      BY <2>1, <2>3 DEF NoMsg
    <3>. QED  BY <2>1, <2>3, <3>1 DEF CompleteOK
  <2>7. x \in Nat /\ y \in Nat /\ z \in Nat
    <3>1. ret[v][k1] \in Item /\ ret[v][k2] \in Item
      BY <2>3 DEF TypeOK
    <3>. QED  BY <2>3, <3>1 DEF TypeOK, Item, TsOrEmpty
  <2>8. y > x \/ y = x
    <3>. HIDE DEF x, y, z
    <3>. QED  BY <2>5, <2>6, <2>7
  <2>9. ASSUME y = x
        PROVE  ret[v][k2].trx = t
    <3>1. ret[v][k2] # EmptyItem
      BY <2>4, <2>9 DEF EmptyItem
    <3>2. PICK u \in Trxs : ret[v][k2] = ItemOf(u, k2)
      BY <2>3, <3>1 DEF ReturnedOK, Readable
    <3>3. ret[v][k2].trx = u /\ y = trx_ts[u]
      BY <3>2 DEF ItemOf
    <3>. QED  BY <2>4, <2>9, <3>3 DEF UniqueTs
  <2>. QED  BY <2>1, <2>8, <2>9
<1>. QED  BY <1>1, <1>2, <1>3, ReaderSteps DEF ReaderStep

\* What the rounds of get_all rely on, in either transaction type.
RoundInv ==
    /\ WriteInv
    /\ ReturnedOK(Workers) /\ LatestOK(Workers) /\ RequestsOK(Workers) /\ AnswersOK(Workers)

\* Before the first get_all nothing is returned and nothing is asked for.
LEMMA ReadInit ==
    ASSUME Init, NEW W \in SUBSET Workers
    PROVE  ReadInv(W)
<1>. USE DEF Init
<1>1. ReturnedOK(W)
  BY DEF ReturnedOK, Readable
<1>2. LatestOK(W) /\ RequestsOK(W) /\ AnswersOK(W)
  BY DEF LatestOK, RequestsOK, AnswersOK, NoMsg
<1>3. ClosedOK(W) /\ CompleteOK(W) /\ AtomicOK(W)
  BY DEF ClosedOK, CompleteOK, AtomicOK
<1>. QED  BY <1>1, <1>2, <1>3 DEF ReadInv

\* If clock readings are distinct and no transaction reads keys beside those it
\* writes, every answer of a server is what its reader asked for.
THEOREM RoundsInvariant == ASSUME DistinctTs, PureTrxs PROVE Spec => []RoundInv
<1>1. Init => RoundInv
  <2>. SUFFICES ASSUME Init PROVE RoundInv
    OBVIOUS
  <2>1. PICK W \in SUBSET Workers : W = Workers
    OBVIOUS
  <2>2. ReadInv(W)
    BY ReadInit
  <2>. QED  BY <2>1, <2>2, WriteInit DEF RoundInv, ReadInv
<1>2. RoundInv /\ [Next]_vars => RoundInv'
  <2>. SUFFICES ASSUME RoundInv, [Next]_vars PROVE RoundInv'
    OBVIOUS
  <2>. USE DEF RoundInv, WriteInv
  <2>1. WriteInv'
    BY TypeStep, ControlStep, MessagesStep, LoopStep, UniqueTsStep, ItemsStep,
       PrepareStep, CommitStep, VisibleStep
  <2>. DEFINE W == Workers
  <2>2. W \in SUBSET Workers
    OBVIOUS
  <2>. HIDE DEF W
  <2>3. ReturnedOK(W) /\ LatestOK(W) /\ RequestsOK(W) /\ AnswersOK(W)
    BY DEF W
  <2>4. ReturnedOK(W)'
    BY <2>2, <2>3, ReturnedStep
  <2>5. LatestOK(W)'
    BY <2>2, <2>3, LatestStep
  <2>6. RequestsOK(W)' /\ AnswersOK(W)'
    BY <2>2, <2>3, RequestsStep, AnswersStep
  <2>. QED  BY <2>1, <2>4, <2>5, <2>6 DEF W
<1>. QED  BY <1>1, <1>2, PTL DEF Spec

\* A reader never sees a version of a transaction that is not prepared
\* everywhere, whether its table runs RAMP-Fast or NO_CC.
THEOREM PreparedReads == ASSUME DistinctTs, PureTrxs PROVE Spec => []ReadsArePrepared
<1>1. RoundInv => ReadsArePrepared
  BY ReadableItem DEF RoundInv, ReturnedOK, ReadsArePrepared
<1>. QED  BY <1>1, RoundsInvariant, PTL

\* The second round is always answered with the version it names.
THEOREM SecondRoundAnswered == ASSUME DistinctTs, PureTrxs PROVE Spec => []SecondRoundHits
<1>1. RoundInv => SecondRoundHits
  BY DEF RoundInv, AnswersOK, SecondRoundHits
<1>. QED  BY <1>1, RoundsInvariant, PTL

\* A step keeps the write side of the inductive invariant, and what it says of
\* the gets of any set of workers.
LEMMA InvariantStep ==
    ASSUME DistinctTs, PureTrxs, TrxType = "RAMP_FAST", NEW W \in SUBSET Workers,
           WriteInv, ReadInv(W), [Next]_vars
    PROVE  WriteInv' /\ ReadInv(W)'
<1>. USE DEF WriteInv, ReadInv
<1>1. WriteInv'
  BY TypeStep, ControlStep, MessagesStep, LoopStep, UniqueTsStep, ItemsStep,
     PrepareStep, CommitStep, VisibleStep
<1>2. ReturnedOK(W)' /\ LatestOK(W)' /\ RequestsOK(W)' /\ AnswersOK(W)'
  BY ReturnedStep, LatestStep, RequestsStep, AnswersStep
<1>3. ClosedOK(W)' /\ CompleteOK(W)' /\ AtomicOK(W)'
  BY ClosedStep, CompleteStep, AtomicStep
<1>. QED  BY <1>1, <1>2, <1>3

\* Every reachable state of RAMP-Fast is as RAMPFastInv describes it.
THEOREM Invariance ==
    ASSUME DistinctTs, PureTrxs, TrxType = "RAMP_FAST"
    PROVE  Spec => []IInv
<1>1. Workers \in SUBSET Workers
  OBVIOUS
<1>2. Init => IInv
  BY <1>1, WriteInit, ReadInit DEF IInv
<1>3. IInv /\ [Next]_vars => IInv'
  BY <1>1, InvariantStep DEF IInv
<1>. QED  BY <1>2, <1>3, PTL DEF Spec

\* An answer from a cache replaces the GET of one connection by its result.
LEMMA AnswerMoves ==
    ASSUME TypeOK, MessagesOK, NEW W \in SUBSET Workers, NEW w \in Workers, NEW s \in Servers,
           AnswerGet(w, s, W)
    PROVE  /\ UNCHANGED <<workerVars, executor, tableVars>>
           /\ conn[w][s].type = "GET" /\ pc[w] = "round1"
           /\ conn[w][s].key \in Keys
           /\ conn' \in [Workers -> [Servers -> Message]]
           /\ \A v \in Workers, r \in Servers : <<v, r>> # <<w, s>> => conn'[v][r] = conn[v][r]
           /\ \E item \in Item : /\ w \in W => Readable(conn[w][s].key, item)
                                 /\ conn'[w][s] = Result(conn[w][s].key, item)
<1>1. PICK item \in Item : /\ w \in W => Readable(conn[w][s].key, item)
                           /\ Send(w, s, Result(conn[w][s].key, item))
  BY DEF AnswerGet
<1>2. conn[w][s].type = "GET" /\ conn[w][s] \in Message
  BY DEF AnswerGet, TypeOK
<1>3. conn[w][s].key \in Keys
  BY <1>2, MessageFields
<1>4. Result(conn[w][s].key, item) \in Message
  BY <1>3 DEF Result, Message
<1>5. conn' \in [Workers -> [Servers -> Message]]
  BY <1>1, <1>4, SendType
<1>6. /\ conn'[w][s] = Result(conn[w][s].key, item)
      /\ \A v \in Workers, r \in Servers : <<v, r>> # <<w, s>> => conn'[v][r] = conn[v][r]
  BY <1>1 DEF TypeOK, Send
<1>. QED  BY <1>1, <1>2, <1>3, <1>5, <1>6 DEF AnswerGet

\* The store and the puts do not notice it.
LEMMA AnswerWrites ==
    ASSUME WriteInv, NEW W \in SUBSET Workers, NEW w \in Workers, NEW s \in Servers,
           AnswerGet(w, s, W)
    PROVE  WriteInv'
<1>. USE DEF WriteInv
<1>0. conn'[w][s].type = "RESULT" /\ conn'[w][s].key = conn[w][s].key
  <2>1. PICK item \in Item : conn'[w][s] = Result(conn[w][s].key, item)
    BY AnswerMoves
  <2>. QED  BY <2>1 DEF Result
<1>1. /\ UNCHANGED <<workerVars, executor, tableVars>>
      /\ conn[w][s].type = "GET"
      /\ conn'[w][s].type = "RESULT" /\ conn'[w][s].key = conn[w][s].key
      /\ conn' \in [Workers -> [Servers -> Message]]
      /\ \A v \in Workers, r \in Servers : <<v, r>> # <<w, s>> => conn'[v][r] = conn[v][r]
  BY <1>0, AnswerMoves
<1>2. /\ UNCHANGED <<queue, trx, pc, trx_ts, todo, ret, v_latest, executor, items, latest_commit>>
      /\ \A t \in Trxs : Prepared(t)' <=> Prepared(t)
  BY <1>1 DEF workerVars, tableVars, Prepared, Holds, ItemOf
<1>3. TypeOK'
  BY <1>1 DEF TypeOK, workerVars, tableVars
<1>4. ControlOK' /\ UniqueTs'
  BY <1>2 DEF ControlOK, UniqueTs, Running, Reading
<1>5. \A v \in Workers, r \in Servers :
         \/ conn'[v][r] = conn[v][r]
         \/ /\ conn[v][r].type = "GET" /\ conn'[v][r].type = "RESULT"
            /\ conn'[v][r].key = conn[v][r].key
  BY <1>1
<1>6. MessagesOK'
  BY <1>2, <1>5 DEF MessagesOK, Reading
<1>7. LoopOK'
  <2>1. \A v \in Workers, r \in Servers :
           executor[v][r].at \in {"test", "set"} => conn'[v][r] = conn[v][r]
    BY <1>5 DEF MessagesOK
  <2>. QED  BY <1>2, <2>1 DEF LoopOK
<1>8. ItemsOK'
  <2>1. \A r \in Servers, ts \in Timestamps :
           \A item : Written(r, ts, item)' <=> Written(r, ts, item)
    BY <1>2 DEF Written, ItemOf
  <2>. QED  BY <1>2, <2>1 DEF ItemsOK
<1>9. PrepareOK'
  <2>1. \A v \in Workers, r \in Servers :
           conn[v][r].type = "PREPARE" \/ conn'[v][r].type = "PREPARE" =>
              conn'[v][r] = conn[v][r]
    BY <1>5
  <2>2. ASSUME NEW v \in Workers, pc[v] = "prepare"
        PROVE  Preparing(v)'
    <3>1. Preparing(v) /\ trx[v] \in Trxs
      BY <2>2 DEF PrepareOK, ControlOK, Running
    <3>2. \A k \in WriteSet[trx[v]] : k \in Keys /\ ServerOf[k] \in Servers
      BY <3>1, ConstantsAssumption
    <3>3. \A k \in WriteSet[trx[v]] : /\ ItemOf(trx[v], k)' = ItemOf(trx[v], k)
                                      /\ Holds(trx[v], k)' <=> Holds(trx[v], k)
      BY <1>2 DEF ItemOf, Holds
    <3>4. \A k \in WriteSet[trx[v]] :
             \/ k \in todo[v]
             \/ conn'[v][ServerOf[k]] = [type |-> "PREPARE", item |-> ItemOf(trx[v], k)]
             \/ Holds(trx[v], k)
      <4>. SUFFICES ASSUME NEW k \in WriteSet[trx[v]]
                    PROVE  \/ k \in todo[v]
                           \/ conn'[v][ServerOf[k]] =
                                 [type |-> "PREPARE", item |-> ItemOf(trx[v], k)]
                           \/ Holds(trx[v], k)
        OBVIOUS
      <4>1. conn[v][ServerOf[k]].type = "PREPARE" => conn'[v][ServerOf[k]] = conn[v][ServerOf[k]]
        BY <2>1, <3>2
      <4>2. [type |-> "PREPARE", item |-> ItemOf(trx[v], k)].type = "PREPARE"
        OBVIOUS
      <4>. QED  BY <3>1, <4>1, <4>2, Zenon DEF Preparing
    <3>5. \A r \in Servers :
             conn'[v][r].type = "PREPARE" =>
                \E k \in WriteSet[trx[v]] :
                   ServerOf[k] = r /\ conn'[v][r].item = ItemOf(trx[v], k)
      BY <2>1, <3>1 DEF Preparing
    <3>. QED  BY <1>2, <3>3, <3>4, <3>5 DEF Preparing
  <2>. QED  BY <1>2, <2>2 DEF PrepareOK
<1>10. CommitOK' /\ VisibleIsPrepared'
  <2>1. \A v \in Workers : pc[v] = "commit" => trx[v] \in Trxs
    BY DEF ControlOK, Running
  <2>. QED  BY <1>2, <2>1 DEF CommitOK, VisibleIsPrepared
<1>. QED  BY <1>3, <1>4, <1>6, <1>7, <1>8, <1>9, <1>10

\* Nor do the rounds of W: any readable version will do in the first one, and
\* what another worker is answered does not matter.
LEMMA AnswerReads ==
    ASSUME NEW W \in SUBSET Workers, WriteInv, ReadInv(W),
           NEW w \in Workers, NEW s \in Servers, AnswerGet(w, s, W)
    PROVE  ReadInv(W)'
<1>. USE DEF WriteInv, ReadInv
<1>1. PICK item \in Item : /\ w \in W => Readable(conn[w][s].key, item)
                           /\ conn'[w][s] = Result(conn[w][s].key, item)
  BY AnswerMoves
<1>2. /\ UNCHANGED <<queue, trx, pc, trx_ts, todo, ret, v_latest, items>>
      /\ conn[w][s].type = "GET" /\ pc[w] = "round1"
      /\ \A v \in Workers, r \in Servers : <<v, r>> # <<w, s>> => conn'[v][r] = conn[v][r]
  BY AnswerMoves DEF workerVars, tableVars
<1>3. /\ conn'[w][s].type = "RESULT" /\ conn'[w][s].key = conn[w][s].key
      /\ conn'[w][s].item = item
  BY <1>1 DEF Result
<1>4. \A t \in Trxs : Prepared(t)' <=> Prepared(t)
  BY <1>2 DEF Prepared, Holds, ItemOf
<1>5. \A k \in Keys : /\ \A i : Readable(k, i)' <=> Readable(k, i)
                      /\ \A ts : Available(k, ts)' <=> Available(k, ts)
  BY <1>2, <1>4 DEF Readable, Available, ItemOf
<1>6. ReturnedOK(W)' /\ LatestOK(W)'
  BY <1>2, <1>5 DEF ReturnedOK, LatestOK
<1>7. RequestsOK(W)'
  BY <1>2, <1>3 DEF RequestsOK
<1>8. AnswersOK(W)'
  <2>. SUFFICES ASSUME NEW v \in Workers, v \in W, NEW r \in Servers, conn'[v][r].type = "RESULT"
                PROVE  /\ Readable(conn[v][r].key, conn[v][r].item)'
                       /\ pc[v] = "round2" => conn'[v][r].item.ts = v_latest[v][conn'[v][r].key]
    BY <1>2, Zenon DEF AnswersOK
  <2>1. conn'[v][r].key \in Keys
    <3>1. conn'[v][r] \in Message
      BY AnswerMoves
    <3>. QED  BY <3>1, MessageFields
  <2>2. CASE v = w /\ r = s
    <3>1. Readable(conn[w][s].key, item)'
      BY <1>1, <1>3, <1>5, <2>1, <2>2, Zenon
    <3>. QED  BY <1>2, <1>3, <2>2, <3>1
  <2>3. CASE conn'[v][r] = conn[v][r]
    <3>1. Readable(conn[v][r].key, conn[v][r].item)
      BY <2>3 DEF AnswersOK
    <3>2. Readable(conn[v][r].key, conn[v][r].item)'
      BY <1>5, <2>1, <2>3, <3>1, Zenon
    <3>3. pc[v] = "round2" => conn[v][r].item.ts = v_latest[v][conn[v][r].key]
      BY <2>3 DEF AnswersOK
    <3>. QED  BY <2>3, <3>2, <3>3
  <2>. QED  BY <1>2, <2>2, <2>3
<1>9. ClosedOK(W)' /\ AtomicOK(W)'
  BY <1>2 DEF ClosedOK, AtomicOK
<1>10. CompleteOK(W)'
  <2>. SUFFICES ASSUME NEW v \in Workers, v \in W, pc[v] = "round2", NEW k \in ReadSet[trx[v]]
                PROVE  \/ k \in todo[v]
                       \/ /\ conn'[v][ServerOf[k]].type \in {"GET", "RESULT"}
                          /\ conn'[v][ServerOf[k]].key = k
                       \/ ret[v][k].ts >= v_latest[v][k]
    BY <1>2 DEF CompleteOK
  <2>1. trx[v] \in Trxs
    BY DEF ControlOK, Running
  <2>2. ServerOf[k] \in Servers
    BY <2>1, ConstantsAssumption
  <2>3. conn'[v][ServerOf[k]] = conn[v][ServerOf[k]]
    BY <1>2, <2>2
  <2>. QED  BY <2>3 DEF CompleteOK
<1>. QED  BY <1>6, <1>7, <1>8, <1>9, <1>10

\* So the invariant holds for RAMP-Fast with a cache as well.
LEMMA LooseStep ==
    ASSUME DistinctTs, PureTrxs, TrxType = "RAMP_FAST", NEW W \in SUBSET Workers,
           WriteInv, ReadInv(W), [LooseNext(W)]_vars
    PROVE  WriteInv' /\ ReadInv(W)'
<1>1. CASE [Next]_vars
  BY <1>1, InvariantStep
<1>2. ASSUME NEW w \in Workers, NEW s \in Servers, AnswerGet(w, s, W)
      PROVE  WriteInv' /\ ReadInv(W)'
  BY <1>2, AnswerWrites, AnswerReads
<1>. QED  BY <1>1, <1>2 DEF LooseNext

\* What is readable stays readable, for the answers of a cache as well.
LEMMA LooseStable ==
    ASSUME TypeOK, ControlOK, NEW W \in SUBSET Workers, [LooseNext(W)]_vars
    PROVE  \A k \in Keys : \A item \in Item : Readable(k, item) => Readable(k, item)'
<1>1. CASE [Next]_vars
  BY <1>1, ReadableStable
<1>2. ASSUME NEW w \in Workers, NEW s \in Servers, AnswerGet(w, s, W)
      PROVE  \A k \in Keys : \A item \in Item : Readable(k, item) => Readable(k, item)'
  <2>1. trx_ts' = trx_ts /\ items' = items
    BY <1>2 DEF AnswerGet, workerVars, tableVars
  <2>2. \A t \in Trxs : Prepared(t)' <=> Prepared(t)
    BY <2>1 DEF Prepared, Holds, ItemOf
  <2>. QED  BY <2>1, <2>2 DEF Readable, ItemOf
<1>. QED  BY <1>1, <1>2 DEF LooseNext

\* A get that starts has read nothing, and none of its messages is under way.
LEMMA GetsStart ==
    ASSUME WriteInv, NEW W \in SUBSET Workers, \A w \in W : GetAll(w)
    PROVE  ReadInv(W)'
<1>. USE DEF WriteInv
<1>1. ASSUME NEW w \in Workers, w \in W
      PROVE  /\ pc'[w] = "round1" /\ \A k \in Keys : ret'[w][k] = EmptyItem
             /\ \A s \in Servers : conn'[w][s].type \notin {"GET", "RESULT"}
  <2>1. /\ GetAll(w) /\ pc[w] = "get_all" /\ pc'[w] = "round1" /\ conn' = conn
        /\ \A k \in Keys : ret'[w][k] = EmptyItem
    BY <1>1 DEF GetAll, TypeOK
  <2>. QED  BY <2>1 DEF MessagesOK, Reading
<1>2. ReturnedOK(W)'
  BY <1>1 DEF ReturnedOK, Readable
<1>3. LatestOK(W)' /\ ClosedOK(W)' /\ CompleteOK(W)' /\ AtomicOK(W)'
  BY <1>1 DEF LatestOK, ClosedOK, CompleteOK, AtomicOK
<1>4. RequestsOK(W)' /\ AnswersOK(W)'
  BY <1>1 DEF RequestsOK, AnswersOK
<1>. QED  BY <1>2, <1>3, <1>4 DEF ReadInv

\* What holds of the gets of two sets of workers holds of those of both.
LEMMA ReadersJoin ==
    ASSUME NEW U \in SUBSET Workers, NEW V \in SUBSET Workers, NEW W \in SUBSET Workers,
           ReadInv(U)', ReadInv(V)', W \subseteq U \cup V
    PROVE  ReadInv(W)'
<1>. USE DEF ReadInv
<1>1. ReturnedOK(W)' /\ LatestOK(W)'
  BY DEF ReturnedOK, LatestOK
<1>2. RequestsOK(W)'
  BY DEF RequestsOK
<1>3. AnswersOK(W)'
  BY DEF AnswersOK
<1>4. ClosedOK(W)'
  BY DEF ClosedOK
<1>5. CompleteOK(W)'
  BY DEF CompleteOK
<1>6. AtomicOK(W)'
  BY DEF AtomicOK
<1>. QED  BY <1>1, <1>2, <1>3, <1>4, <1>5, <1>6

\* A step that is loose for W is loose for fewer workers.
LEMMA LooseFewer ==
    ASSUME NEW W \in SUBSET Workers, NEW U \in SUBSET W, [LooseNext(W)]_vars
    PROVE  [LooseNext(U)]_vars
<1>1. ASSUME NEW w \in Workers, NEW s \in Servers, AnswerGet(w, s, W)
      PROVE  AnswerGet(w, s, U)
  BY <1>1 DEF AnswerGet
<1>. QED  BY <1>1 DEF LooseNext

\* A worker may come under the invariant's care when it starts a get, and leave
\* it at any time.
LEMMA LooseJoin ==
    ASSUME DistinctTs, PureTrxs, TrxType = "RAMP_FAST",
           NEW V \in SUBSET Workers, NEW W \in SUBSET Workers,
           WriteInv, ReadInv(V), [LooseNext(W)]_vars, \A w \in W \ V : GetAll(w)
    PROVE  WriteInv' /\ ReadInv(W)'
<1>. DEFINE U == V \cap W
<1>1. U \in SUBSET Workers /\ U \in SUBSET W /\ W \ V \in SUBSET Workers
  OBVIOUS
<1>2. ReadInv(U)
  BY DEF ReadInv, ReturnedOK, LatestOK, RequestsOK, AnswersOK, ClosedOK, CompleteOK, AtomicOK
<1>3. W \subseteq U \cup (W \ V)
  OBVIOUS
<1>. HIDE DEF U
<1>4. WriteInv' /\ ReadInv(U)'
  BY <1>1, <1>2, LooseFewer, LooseStep
<1>5. ReadInv(W \ V)'
  BY <1>1, GetsStart
<1>. QED  BY <1>1, <1>3, <1>4, <1>5, ReadersJoin

\* A set of workers whose first round is answered with any versions of prepared
\* transactions, however old or new, stays as RAMPFastInv describes it, and so
\* does the store, whatever the other workers are answered.
THEOREM LooseInvariance ==
    ASSUME DistinctTs, PureTrxs, TrxType = "RAMP_FAST", NEW W \in SUBSET Workers
    PROVE  LooseSpec(W) => [](WriteInv /\ ReadInv(W))
<1>. DEFINE Inv == WriteInv /\ ReadInv(W)
<1>1. Init => Inv
  BY WriteInit, ReadInit
<1>2. Inv /\ [LooseNext(W)]_vars => Inv'
  BY LooseStep
<1>. QED  BY <1>1, <1>2, PTL DEF LooseSpec

\* RAMP-Fast reads are atomic: no transaction's writes are seen in part, for
\* any number of servers, workers, keys and transactions.
THEOREM ReadAtomicity ==
    ASSUME DistinctTs, PureTrxs, TrxType = "RAMP_FAST"
    PROVE  Spec => []ReadAtomic
<1>1. IInv => ReadAtomic
  BY DEF IInv, ReadInv, AtomicOK, ReadAtomic
<1>. QED  BY <1>1, Invariance, PTL

-----------------------------------------------------------------------------
(* What is published *)

\* All other transactions are as far as they were.
OthersStay(t) == \A u \in Trxs : u # t => Stamp'[u] = Stamp[u]

\* A clock reading publishes no version but those of its own transaction.
LEMMA PutAllStamps ==
    ASSUME TypeOK, ControlOK, NEW w \in Workers, PutAll(w)
    PROVE  trx[w] \in Trxs /\ OthersStay(trx[w])
<1>1. trx[w] \in Trxs
  BY DEF PutAll, ControlOK, Running
<1>2. items' = items
  BY DEF PutAll, tableVars
<1>. SUFFICES ASSUME NEW u \in Trxs, u # trx[w]
              PROVE  Stamp'[u] = Stamp[u]
  BY <1>1 DEF OthersStay
<1>3. trx_ts'[u] = trx_ts[u]
  BY DEF PutAll, TypeOK
<1>4. \A k \in WriteSet[u] : Holds(u, k)' = Holds(u, k)
  BY <1>2, <1>3 DEF Holds, ItemOf
<1>5. Prepared(u)' = Prepared(u)
  BY <1>4 DEF Prepared
<1>. QED  BY <1>3, <1>5 DEF Stamp

\* An item that is stored completes no transaction but its own.
LEMMA PrepareStamps ==
    ASSUME TypeOK, MessagesOK, ControlOK, PrepareOK,
           NEW w \in Workers, NEW s \in Servers, Prepare(w, s)
    PROVE  trx[w] \in Trxs /\ OthersStay(trx[w])
<1>1. conn[w][s].type = "PREPARE" /\ pc[w] = "prepare"
  BY DEF Prepare, MessagesOK
<1>2. trx[w] \in Trxs
  BY <1>1 DEF ControlOK, Running
<1>3. PICK k \in WriteSet[trx[w]] : conn[w][s].item = ItemOf(trx[w], k)
  BY <1>1 DEF PrepareOK, Preparing
<1>. DEFINE item == ItemOf(trx[w], k)
<1>4. item.trx = trx[w]
  BY DEF ItemOf
<1>5. /\ trx_ts' = trx_ts
      /\ items' = [items EXCEPT ![s][item.ts] = Append(@, item)]
  BY <1>3 DEF Prepare, workerVars
<1>. SUFFICES ASSUME NEW u \in Trxs, u # trx[w]
              PROVE  Stamp'[u] = Stamp[u]
  BY <1>2 DEF OthersStay
<1>6. ASSUME NEW j \in WriteSet[u]
      PROVE  Holds(u, j)' <=> Holds(u, j)
  <2>. DEFINE r == ServerOf[j]
              ts == trx_ts[u]
              old == items[r][ts]
              new == items'[r][ts]
  <2>1. j \in Keys /\ r \in Servers
    BY ConstantsAssumption
  <2>2. ItemOf(u, j)' = ItemOf(u, j) /\ ItemOf(u, j).trx = u
    BY <1>5 DEF ItemOf
  <2>3. ASSUME ts # 0
        PROVE  (\E i \in DOMAIN new : new[i] = ItemOf(u, j))
                  <=> (\E i \in DOMAIN old : old[i] = ItemOf(u, j))
    <3>1. ts \in Timestamps /\ old \in Seq(Item)
      <4>1. ts \in TsOrEmpty
        BY DEF TypeOK
      <4>2. ts \in Timestamps
        BY <2>3, <4>1, NonEmptyTs
      <4>. QED  BY <2>1, <4>2 DEF TypeOK
    <3>2. new = old \/ new = Append(old, item)
      BY <1>5, <2>1, <3>1 DEF TypeOK
    <3>3. CASE new = old
      BY <3>3
    <3>4. CASE new = Append(old, item)
      <4>1. /\ DOMAIN new = 1..(Len(old) + 1) /\ DOMAIN old = 1..Len(old)
            /\ Len(old) \in Nat
            /\ \A i \in 1..Len(old) : new[i] = old[i]
            /\ new[Len(old) + 1] = item
        <5>1. old \in Seq(Item) /\ new = Append(old, item)
          BY <3>1, <3>4
        <5>. HIDE DEF old, new, item
        <5>. QED  BY <5>1
      <4>2. item # ItemOf(u, j)
        BY <1>4, <2>2
      <4>. HIDE DEF old, new, item
      <4>. QED  BY <4>1, <4>2
    <3>. QED  BY <3>2, <3>3, <3>4
  <2>. QED  BY <1>5, <2>2, <2>3 DEF Holds
<1>7. Prepared(u)' = Prepared(u)
  BY <1>6 DEF Prepared
<1>. QED  BY <1>5, <1>7 DEF Stamp

\* While one of the two happens no view changes.
LEMMA ViewsStay ==
    ASSUME TypeOK, MessagesOK, NEW w \in Workers,
           PutAll(w) \/ \E s \in Servers : Prepare(w, s)
    PROVE  View' = View
<1>1. trx' = trx /\ ret' = ret
  BY DEF PutAll, Prepare, workerVars
<1>2. \A v \in Workers : pc'[v] = pc[v] \/ (pc[v] # "returned" /\ pc'[v] # "returned")
  BY DEF PutAll, Prepare, workerVars, TypeOK
<1>. QED  BY <1>1, <1>2 DEF View

\* A step publishes one transaction, at a timestamp of its own, or none.
LEMMA StampStep ==
    ASSUME DistinctTs, WriteInv, [Next]_vars
    PROVE  \/ Stamp' = Stamp
           \/ View' = View /\ \E t \in Trxs : Visibility!Publish(t)
<1>. USE DEF WriteInv
<1>1. CASE trx_ts' = trx_ts /\ items' = items
  <2>1. \A t \in Trxs : Prepared(t)' = Prepared(t)
    BY <1>1 DEF Prepared, Holds, ItemOf
  <2>. QED  BY <1>1, <2>1 DEF Stamp
<1>2. ASSUME NEW t \in Trxs, OthersStay(t), View' = View
      PROVE  Stamp' = Stamp \/ Visibility!Publish(t)
  <2>1. Stamp \in [Trxs -> TsOrEmpty] /\ Stamp' \in [Trxs -> TsOrEmpty]
    <3>1. trx_ts \in [Trxs -> TsOrEmpty] /\ trx_ts' \in [Trxs -> TsOrEmpty]
      BY TypeStep DEF TypeOK
    <3>2. 0 \in TsOrEmpty
      BY ConstantsAssumption DEF TsOrEmpty
    <3>. QED  BY <3>1, <3>2 DEF Stamp
  <2>2. Stable /\ UniqueTs'
    BY StoreGrows, UniqueTsStep
  <2>3. Stamp[t] # 0 => Stamp'[t] = Stamp[t]
    BY <2>2, HoldsStable DEF Stamp, Stable
  <2>4. CASE Stamp'[t] = Stamp[t]
    BY <1>2, <2>1, <2>4 DEF OthersStay
  <2>5. CASE Stamp'[t] # Stamp[t]
    <3>. DEFINE n == Stamp'[t]
    <3>1. Stamp[t] = 0 /\ n \in Timestamps
      BY <2>1, <2>3, <2>5 DEF TsOrEmpty, Timestamps
    <3>2. n # 0
      BY <2>3, <2>5
    <3>3. \A u \in Trxs : Stamp[u] # n
      <4>. SUFFICES ASSUME NEW u \in Trxs, Stamp[u] = n PROVE FALSE
        OBVIOUS
      <4>1. u # t
        BY <3>1, <3>2
      <4>2. Stamp'[u] = n
        BY <1>2, <4>1 DEF OthersStay
      <4>3. trx_ts'[u] = n /\ trx_ts'[t] = n
        BY <3>2, <4>2 DEF Stamp
      <4>. QED  BY <2>2, <3>2, <4>1, <4>3 DEF UniqueTs
    <3>4. Stamp' = [Stamp EXCEPT ![t] = n]
      BY <1>2, <2>1 DEF OthersStay
    <3>. QED  BY <1>2, <3>1, <3>3, <3>4 DEF Visibility!Publish
  <2>. QED  BY <2>4, <2>5
<1>3. ASSUME NEW w \in Workers, PutAll(w)
      PROVE  Stamp' = Stamp \/ (View' = View /\ \E t \in Trxs : Visibility!Publish(t))
  BY <1>2, <1>3, PutAllStamps, ViewsStay
<1>4. ASSUME NEW w \in Workers, NEW s \in Servers, Prepare(w, s)
      PROVE  Stamp' = Stamp \/ (View' = View /\ \E t \in Trxs : Visibility!Publish(t))
  BY <1>2, <1>4, PrepareStamps, ViewsStay
<1>. QED  BY <1>1, <1>3, <1>4, Writers DEF OneWriter

-----------------------------------------------------------------------------
(* What a view shows *)

\* v is what some published transactions leave behind.
Shows(v) ==
    \E S \in SUBSET Visibility!Published, K \in SUBSET Keys :
        v \in [K -> Trxs \cup {NoTrx}] /\ \A k \in K : Visibility!IsLast(v[k], S, k)

ViewsOK(W) == \A w \in W : pc[w] = "returned" => Shows(View[w])

\* A view is one that the abstract get allows: applying, in the order of their
\* timestamps, all published transactions that are nowhere newer than what was
\* read gives exactly the transactions that were read.
LEMMA ViewShows ==
    ASSUME NEW W \in SUBSET Workers, WriteInv, ReadInv(W)
    PROVE  ViewsOK(W)
<1>. SUFFICES ASSUME NEW w \in Workers, w \in W, pc[w] = "returned"
              PROVE  Shows(View[w])
  BY DEF ViewsOK
<1>. USE DEF WriteInv, ReadInv
<1>. DEFINE K == ReadSet[trx[w]]
            v == [k \in K |-> ret[w][k].trx]
            S == {t \in Visibility!Published :
                     \A k \in K \cap WriteSet[t] : trx_ts[t] <= ret[w][k].ts}
<1>1. View[w] = v
  BY DEF View
<1>2. trx[w] \in Trxs /\ K \subseteq Keys
  BY ConstantsAssumption DEF ControlOK, Running
<1>3. \A t \in Visibility!Published : t \in Trxs /\ Stamp[t] = trx_ts[t] /\ trx_ts[t] # 0
  BY DEF Visibility!Published, Stamp
<1>4. v \in [K -> Trxs \cup {NoTrx}]
  BY <1>2 DEF TypeOK, Item
<1>5. ASSUME NEW k \in K
      PROVE  Visibility!IsLast(v[k], S, k)
  <2>1. k \in Keys /\ ret[w][k] \in Item /\ Readable(k, ret[w][k])
    BY <1>2 DEF TypeOK, ReturnedOK
  <2>2. CASE v[k] = NoTrx
    <3>1. ret[w][k].ts = 0
      <4>1. \A t \in Trxs : ItemOf(t, k).trx # NoTrx
        BY ConstantsAssumption DEF ItemOf
      <4>. QED  BY <2>1, <2>2, <4>1 DEF Readable, EmptyItem
    <3>2. ASSUME NEW t \in S, k \in WriteSet[t] PROVE FALSE
      <4>1. trx_ts[t] <= 0 /\ trx_ts[t] # 0 /\ trx_ts[t] \in TsOrEmpty
        BY <1>3, <3>1, <3>2 DEF TypeOK
      <4>. QED  BY <4>1, ConstantsAssumption DEF TsOrEmpty
    <3>. QED  BY <2>2, <3>2 DEF Visibility!IsLast, Visibility!Writers
  <2>3. CASE v[k] # NoTrx
    <3>. DEFINE t == ret[w][k].trx
    <3>1. /\ t \in Trxs /\ k \in WriteSet[t] /\ Prepared(t)
          /\ trx_ts[t] # 0 /\ ret[w][k].ts = trx_ts[t]
      BY <2>1, <2>3, ReadableItem
    <3>2. t \in Visibility!Published
      BY <3>1 DEF Visibility!Published, Stamp
    <3>3. ASSUME NEW j \in K \cap WriteSet[t]
          PROVE  trx_ts[t] <= ret[w][j].ts
      <4>1. ret[w][j].trx = t \/ ret[w][j].ts > ret[w][k].ts
        BY <2>3, <3>1, <3>3 DEF AtomicOK
      <4>2. j \in Keys /\ Readable(j, ret[w][j]) /\ ret[w][j] \in Item
        BY <1>2 DEF TypeOK, ReturnedOK
      <4>3. ret[w][j].trx = t => ret[w][j].ts = trx_ts[t]
        BY <2>3, <4>2, ReadableItem
      <4>4. trx_ts[t] \in Nat /\ ret[w][j].ts \in Nat
        BY <3>1, <4>2 DEF TypeOK, Item, TsOrEmpty
      <4>. QED  BY <3>1, <4>1, <4>3, <4>4
    <3>4. t \in S
      BY <3>2, <3>3
    <3>5. \A u \in S : k \in WriteSet[u] => Stamp[u] <= Stamp[t]
      BY <1>3, <3>1, <3>2
    <3>. HIDE DEF S
    <3>. QED  BY <3>1, <3>4, <3>5 DEF Visibility!IsLast, Visibility!Writers
  <2>. QED  BY <2>2, <2>3
<1>6. S \in SUBSET Visibility!Published
  OBVIOUS
<1>. HIDE DEF S, v, K
<1>. QED  BY <1>1, <1>2, <1>4, <1>5, <1>6 DEF Shows

\* A step moves one worker; what the others have returned stays as it is.
OneMoves ==
    \E w \in Workers : \A v \in Workers :
        v # w => pc'[v] = pc[v] /\ trx'[v] = trx[v] /\ ret'[v] = ret[v]

\* Whatever the step is, such a worker can be named.
LEMMA OneWorker ==
    ASSUME TypeOK, [Next]_vars, Workers # {}
    PROVE  OneMoves
<1>. USE DEF TypeOK, OneMoves
<1>1. CASE UNCHANGED <<pc, trx, ret>>
  BY <1>1
<1>2. ASSUME NEW w \in Workers, WorkerStep(w)
      PROVE  OneMoves
  BY <1>2 DEF WorkerStep, Pop, Exit, Finish, PutAll, BeginCommit, PutAllReturn, GetAll,
     CheckMissing, GetAllReturn, SendPrepare, SendGet, SendCommit, RecvDone, RecvResult,
     workerVars
<1>3. ASSUME NEW w \in Workers, NEW s \in Servers, ExecutorStep(w, s) \/ SendClose(w, s)
      PROVE  UNCHANGED <<pc, trx, ret>>
  BY <1>3 DEF ExecutorStep, Prepare, Get, HandleClose, CommitBegin, CommitTest, CommitSet,
     CommitDone, SendClose, workerVars
<1>. QED  BY <1>1, <1>2, <1>3 DEF Next, Terminating, vars, workerVars

\* So does its view.
LEMMA OneView ==
    ASSUME TypeOK, [Next]_vars
    PROVE  \/ View' = View
           \/ \E w \in Workers : \A v \in Workers : v # w => View'[v] = View[v]
<1>1. CASE Workers = {}
  BY <1>1 DEF View
<1>2. ASSUME Workers # {}
      PROVE  \E w \in Workers : \A v \in Workers : v # w => View'[v] = View[v]
  BY <1>2, OneWorker DEF OneMoves, View
<1>. QED  BY <1>1, <1>2

\* A step that publishes nothing changes the view of one client, to one that
\* the abstract specification allows, or no view at all.
LEMMA ViewStep ==
    ASSUME TypeOK, ViewsOK(Workers)', [Next]_vars, Stamp' = Stamp
    PROVE  \/ View' = View
           \/ \E w \in Workers : Visibility!Read(w) \/ Visibility!Leave(w)
<1>. SUFFICES ASSUME View' # View
              PROVE  \E w \in Workers : Visibility!Read(w) \/ Visibility!Leave(w)
  OBVIOUS
<1>1. PICK w \in Workers : \A v \in Workers : v # w => View'[v] = View[v]
  BY OneView
<1>2. View' = [View EXCEPT ![w] = View'[w]] /\ View'[w] # View[w]
  BY <1>1 DEF View
<1>3. CASE pc'[w] # "returned"
  <2>1. View'[w] = Visibility!NoView
    BY <1>3 DEF View, Visibility!NoView
  <2>. QED  BY <1>2, <2>1 DEF Visibility!Leave
<1>4. CASE pc'[w] = "returned"
  <2>1. Shows(View[w])'
    BY <1>4 DEF ViewsOK
  <2>. QED  BY <1>2, <2>1 DEF Shows, Visibility!Read, Visibility!Published,
               Visibility!IsLast, Visibility!Writers
<1>. QED  BY <1>3, <1>4

-----------------------------------------------------------------------------
\* An answer from a cache publishes nothing and returns nothing yet.
LEMMA AnswerHidden ==
    ASSUME NEW W \in SUBSET Workers, NEW w \in Workers, NEW s \in Servers, AnswerGet(w, s, W)
    PROVE  Stamp' = Stamp /\ View' = View
<1>1. UNCHANGED <<trx, pc, trx_ts, ret, items>>
  BY DEF AnswerGet, workerVars, tableVars
<1>2. \A t \in Trxs : Prepared(t)' <=> Prepared(t)
  BY <1>1 DEF Prepared, Holds, ItemOf
<1>. QED  BY <1>1, <1>2 DEF Stamp, View

\* Every step of RAMP-Fast is one of the abstract specification or none.
LEMMA VisibilityStep ==
    ASSUME DistinctTs, PureTrxs, TrxType = "RAMP_FAST"
    PROVE  IInv /\ [Next]_vars => [Visibility!Next]_(Visibility!vars)
<1>1. PICK W \in SUBSET Workers : W = Workers
  OBVIOUS
<1>2. WriteInv /\ ReadInv(W) => ViewsOK(W)
  BY ViewShows
<1>3. (WriteInv /\ ReadInv(W))' => ViewsOK(W)'
  BY <1>2, PTL
<1>. SUFFICES ASSUME IInv, [Next]_vars
              PROVE  [Visibility!Next]_(Visibility!vars)
  OBVIOUS
<1>4. WriteInv' /\ ReadInv(W)'
  BY <1>1, InvariantStep DEF IInv
<1>. QED  BY <1>1, <1>3, <1>4, StampStep, ViewStep
          DEF IInv, WriteInv, Visibility!Next, Visibility!vars

\* Nothing is published and nobody has read when the system starts.
LEMMA VisibilityInit ==
    ASSUME Init
    PROVE  Visibility!Init
BY ConstantsAssumption DEF Init, Visibility!Init, Visibility!NoView, Stamp, View

-----------------------------------------------------------------------------
\* RAMP-Fast implements the abstract promise: every transaction becomes visible
\* to its readers in one step, with all its keys on all servers, for any number
\* of keys, servers, workers and transactions.
THEOREM Refinement ==
    ASSUME DistinctTs, PureTrxs, TrxType = "RAMP_FAST"
    PROVE  Spec => AtomicallyVisible
<1>1. Init => Visibility!Init
  BY VisibilityInit
<1>2. IInv /\ [Next]_vars => [Visibility!Next]_(Visibility!vars)
  BY VisibilityStep
<1>. QED  BY <1>1, <1>2, Invariance, PTL DEF Spec, AtomicallyVisible, Visibility!Spec
=============================================================================

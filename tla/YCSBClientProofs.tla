------------------------- MODULE YCSBClientProofs ---------------------------
(***************************************************************************)
(* Proofs about YCSBClient, for every number of threads, records and       *)
(* operations, every length of the transactions and every window.          *)
(***************************************************************************)
EXTENDS YCSBClientInv, FiniteSetTheorems, TLAPS

-----------------------------------------------------------------------------
(* Numbers *)

\* Quotient and remainder.
LEMMA Division ==
    ASSUME NEW n \in Nat, NEW d \in Nat \ {0}
    PROVE  n \div d \in Nat /\ n % d \in 0..(d - 1) /\ n = ((n \div d) * d) + (n % d)
  OBVIOUS

\* A number has one quotient and one remainder.
LEMMA UniqueDivision ==
    ASSUME NEW d \in Nat \ {0}, NEW p \in Nat, NEW q \in Nat,
           NEW a \in 0..(d - 1), NEW b \in 0..(d - 1), a + p * d = b + q * d
    PROVE  a = b /\ p = q
<1>1. ASSUME NEW x \in Nat, NEW y \in Nat, x < y
      PROVE  x * d + d <= y * d
  <2>1. (y - x - 1) * d >= 0
    BY <1>1
  <2>. QED  BY <1>1, <2>1
<1>2. ~(p < q) /\ ~(q < p)
  BY <1>1
<1>. QED  BY <1>2

\* Of fewer than d numbers in a row no two have the same remainder.
LEMMA NearRemainders ==
    ASSUME NEW d \in Nat \ {0}, NEW m \in Nat, NEW n \in Nat, m <= n, n < m + d, m % d = n % d
    PROVE  m = n
<1>. DEFINE p == m \div d
            q == n \div d
            r == m % d
<1>1. p \in Nat /\ q \in Nat /\ r \in 0..(d - 1) /\ m = p * d + r /\ n = q * d + r
  BY Division
<1>. HIDE DEF p, q, r
<1>2. ASSUME p < q
      PROVE  FALSE
  <2>1. (q - p - 1) * d >= 0
    BY <1>1, <1>2
  <2>2. p * d + d <= q * d
    BY <1>1, <2>1
  <2>. QED  BY <1>1, <2>2
<1>3. ASSUME q < p
      PROVE  FALSE
  <2>1. (p - q - 1) * d >= 0
    BY <1>1, <1>3
  <2>2. q * d + d <= p * d
    BY <1>1, <2>1
  <2>. QED  BY <1>1, <2>2
<1>. QED  BY <1>1, <1>2, <1>3

-----------------------------------------------------------------------------
(* Constants and shares *)

\* The last key of all.
LastKey == RecordCount + (OperationCount * TransactionLength) - 1

\* The numbers of the process are numbers, and the keys go up to the last.
LEMMA Constants ==
    /\ ThreadCount \in Nat \ {0} /\ RecordCount \in Nat \ {0} /\ TransactionLength \in Nat \ {0}
    /\ OperationCount \in Nat \ {0} /\ WINDOW_SIZE \in Nat \ {0}
    /\ opcount \in Nat \ {0}
    /\ Width \in Nat \ {0} /\ Width <= TransactionLength
    /\ LastKey \in Nat /\ RecordCount <= LastKey
    /\ Keys = 0..LastKey /\ Max(Keys) = LastKey
<1>1. /\ ThreadCount \in Nat \ {0} /\ RecordCount \in Nat \ {0} /\ TransactionLength \in Nat \ {0}
      /\ OperationCount \in Nat \ {0} /\ WINDOW_SIZE \in Nat \ {0}
  BY YCSBAssumption
<1>2. opcount \in Nat \ {0} /\ Width \in Nat \ {0} /\ Width <= TransactionLength
  BY <1>1 DEF opcount, Width
<1>3. OperationCount * TransactionLength >= 1 /\ OperationCount * TransactionLength \in Nat
  <2>1. (OperationCount - 1) * TransactionLength >= 0
    BY <1>1
  <2>. QED  BY <1>1, <2>1
<1>4. LastKey \in Nat /\ RecordCount <= LastKey /\ Keys = 0..LastKey
  BY <1>1, <1>3 DEF LastKey, Keys
<1>5. Max(Keys) = LastKey
  <2>1. LastKey \in Keys /\ \A y \in Keys : LastKey >= y
    BY <1>4
  <2>2. \A x \in Keys : (\A y \in Keys : x >= y) => x = LastKey
    BY <1>4
  <2>3. Max(Keys) \in Keys /\ \A y \in Keys : Max(Keys) >= y
    BY <2>1, Zenon DEF Max
  <2>. QED  BY <2>2, <2>3
<1>. QED  BY <1>1, <1>2, <1>4, <1>5

\* A thread is given a number of operations, and never none: there are at least
\* as many operations as threads.
LEMMA ShareType ==
    ASSUME NEW t \in Threads
    PROVE  ThreadOpCount(t) \in Nat \ {0} /\ ThreadOpCount(t) <= opcount
<1>1. /\ ThreadCount \in Nat \ {0} /\ opcount \in Nat \ {0} /\ t \in 1..ThreadCount
      /\ opcount >= ThreadCount
  BY Constants, YCSBAssumption DEF Threads, opcount
<1>. DEFINE q == opcount \div ThreadCount
            r == opcount % ThreadCount
<1>2. q \in Nat /\ r \in 0..(ThreadCount - 1) /\ opcount = (q * ThreadCount) + r
  BY <1>1, Division
<1>. HIDE DEF q, r
<1>3. q * ThreadCount >= q
  <2>1. q * (ThreadCount - 1) >= 0
    BY <1>1, <1>2
  <2>. QED  BY <1>1, <1>2, <2>1
<1>4. ThreadOpCount(t) = q + IF t - 1 < r THEN 1 ELSE 0
  BY DEF ThreadOpCount, q, r
<1>5. t - 1 < r => r >= 1
  BY <1>1, <1>2
<1>6. q >= 1
  <2>1. q = 0 => q * ThreadCount = 0
    BY <1>1
  <2>. QED  BY <1>1, <1>2, <2>1
<1>. QED  BY <1>1, <1>2, <1>3, <1>4, <1>5, <1>6

\* Together the threads are given all operations, no matter how many threads
\* there are: operation o of thread t is number t - 1 + o * ThreadCount.
LEMMA ShareCount == IsFiniteSet(Share) /\ Cardinality(Share) = opcount
<1>. DEFINE d == ThreadCount
            q == opcount \div d
            r == opcount % d
            f == [x \in Share |-> (x[1] - 1) + (x[2] * d)]
            N == 0..(opcount - 1)
<1>1. d \in Nat \ {0} /\ opcount \in Nat \ {0}
  BY Constants
<1>2. q \in Nat /\ r \in 0..(d - 1) /\ opcount = (q * d) + r
  BY <1>1, Division
<1>3. \A t \in Threads : ThreadOpCount(t) = q + IF t - 1 < r THEN 1 ELSE 0
  BY DEF ThreadOpCount
<1>. HIDE DEF q, r, d
<1>4. \A x \in Share : /\ x[1] \in 1..d /\ x[2] \in Nat /\ x = <<x[1], x[2]>>
                       /\ x[2] < ThreadOpCount(x[1]) /\ x[1] \in Threads
  BY <1>1 DEF Share, Threads, d
<1>5. ASSUME NEW x \in Share
      PROVE  f[x] \in N
  <2>. DEFINE t == x[1]
              o == x[2]
  <2>1. t \in 1..d /\ o \in Nat /\ o < q + IF t - 1 < r THEN 1 ELSE 0
    BY <1>3, <1>4
  <2>. HIDE DEF t, o
  <2>2. CASE o < q
    <3>1. (q - o - 1) * d >= 0
      BY <1>1, <1>2, <2>1, <2>2
    <3>2. (o * d) + d <= q * d
      BY <1>1, <1>2, <2>1, <3>1
    <3>3. o * d >= 0 /\ o * d \in Nat
      BY <1>1, <2>1
    <3>4. (t - 1) + (o * d) \in N
      BY <1>1, <1>2, <2>1, <3>2, <3>3
    <3>. QED  BY <3>4 DEF t, o
  <2>3. CASE o = q /\ t - 1 < r
    <3>1. q * d \in Nat
      BY <1>1, <1>2
    <3>2. (t - 1) + (o * d) \in N
      BY <1>1, <1>2, <2>1, <2>3, <3>1
    <3>. QED  BY <3>2 DEF t, o
  <2>. QED  BY <1>2, <2>1, <2>2, <2>3
<1>6. ASSUME NEW x \in Share, NEW y \in Share, f[x] = f[y]
      PROVE  x = y
  <2>1. x[1] - 1 = y[1] - 1 /\ x[2] = y[2]
    <3>. DEFINE a == x[1] - 1
                b == y[1] - 1
                m == x[2]
                n == y[2]
    <3>1. a \in 0..(d - 1) /\ b \in 0..(d - 1) /\ m \in Nat /\ n \in Nat
      BY <1>1, <1>4
    <3>2. a + m * d = b + n * d
      BY <1>6
    <3>. HIDE DEF a, b, m, n
    <3>3. a = b /\ m = n
      BY <1>1, <3>1, <3>2, UniqueDivision
    <3>. QED  BY <3>3 DEF a, b, m, n
  <2>. QED  BY <1>1, <1>4, <2>1
<1>7. ASSUME NEW n \in N
      PROVE  \E x \in Share : f[x] = n
  <2>. DEFINE t == (n % d) + 1
              o == n \div d
  <2>1. n \in Nat /\ o \in Nat /\ t \in 1..d /\ n = (o * d) + (t - 1)
    BY <1>1, Division
  <2>2. n < (q * d) + r
    BY <1>1, <1>2
  <2>. HIDE DEF t, o
  <2>3. ~(q < o)
    <3>1. ASSUME q < o
          PROVE  FALSE
      <4>1. (o - q - 1) * d >= 0
        BY <1>1, <1>2, <2>1, <3>1
      <4>2. (q * d) + d <= o * d
        BY <1>1, <1>2, <2>1, <4>1
      <4>. QED  BY <1>1, <1>2, <2>1, <2>2, <4>2
    <3>. QED  BY <3>1
  <2>4. o = q => t - 1 < r
    BY <1>1, <1>2, <2>1, <2>2
  <2>5. t \in Threads /\ o < ThreadOpCount(t)
    BY <1>2, <1>3, <2>1, <2>3, <2>4 DEF Threads, d
  <2>6. o \in 0..(opcount - 1)
    BY <1>1, <2>1, <2>5, ShareType
  <2>7. <<t, o>> \in Share
    BY <2>5, <2>6 DEF Share
  <2>8. f[<<t, o>>] = (t - 1) + (o * d)
    BY <2>7
  <2>. QED  BY <1>1, <2>1, <2>7, <2>8
<1>8. f \in Injection(Share, N) /\ f \in Surjection(Share, N)
  BY <1>5, <1>6, <1>7 DEF Injection, Surjection, IsInjective
<1>9. IsFiniteSet(N) /\ Cardinality(N) = opcount
  BY <1>1, FS_Interval
<1>10. IsFiniteSet(Share) /\ Cardinality(Share) = Cardinality(N)
  BY <1>8, <1>9, FS_Injection
<1>. QED  BY <1>9, <1>10

\* The puts that can have been used are no more than there are operations,
\* times the puts of each.
LEMMA UsedCount ==
    /\ IsFiniteSet(Used) /\ Cardinality(Used) \in Nat
    /\ Cardinality(Used) <= opcount * Width
<1>. DEFINE P == Share \X (0..(Width - 1))
<1>1. Width \in Nat \ {0}
  BY Constants
<1>2. IsFiniteSet(0..(Width - 1)) /\ Cardinality(0..(Width - 1)) = Width
  BY <1>1, FS_Interval
<1>3. IsFiniteSet(P) /\ Cardinality(P) = opcount * Width
  BY <1>2, ShareCount, FS_Product
<1>4. Used \subseteq P
  BY DEF Used
<1>. QED  BY <1>3, <1>4, FS_Subset, FS_CardinalityType

\* Which keys there are left to generate.
LEMMA CounterBound ==
    counter \in Int /\ CounterOK /\ dotransactions \in BOOLEAN =>
        counter \in 0..(LastKey + 1) /\ (~dotransactions => counter <= RecordCount)
<1>. SUFFICES ASSUME counter \in Int, CounterOK, dotransactions \in BOOLEAN
              PROVE  counter \in 0..(LastKey + 1) /\ (~dotransactions => counter <= RecordCount)
  OBVIOUS
<1>1. Cardinality(Used) \in Nat /\ Cardinality(Used) <= opcount * Width
  BY UsedCount
<1>2. RecordCount \in Nat \ {0} /\ OperationCount \in Nat \ {0} /\ TransactionLength \in Nat \ {0}
      /\ LastKey \in Nat /\ RecordCount <= LastKey
  BY Constants
<1>3. CASE dotransactions
  <2>1. opcount * Width = OperationCount * TransactionLength
    BY <1>3 DEF opcount, Width
  <2>2. OperationCount * TransactionLength \in Nat
    BY <1>2
  <2>. QED  BY <1>1, <1>2, <1>3, <2>1, <2>2 DEF CounterOK, LastKey
<1>4. CASE ~dotransactions
  <2>1. opcount * Width = RecordCount
    BY <1>2, <1>4 DEF opcount, Width
  <2>. QED  BY <1>1, <1>2, <1>4, <2>1 DEF CounterOK
<1>. QED  BY <1>3, <1>4

-----------------------------------------------------------------------------
(* Steps *)

\* What a thread has queued are two numbers and two sets of keys.
LEMMA QueuedType ==
    ASSUME TypeOK, NEW t \in Threads
    PROVE  /\ queued[t].put_num \in 0..TransactionLength /\ queued[t].get_num \in 0..TransactionLength
           /\ queued[t].write_set \subseteq Keys /\ queued[t].read_set \subseteq Keys
           /\ opsdone[t] \in Nat /\ opsdone[t] <= ThreadOpCount(t) /\ ThreadOpCount(t) \in Nat
           /\ keynum[t] \in 0..LastKey /\ t \in Nat
<1>1. queued[t] \in [put_num : 0..TransactionLength, get_num : 0..TransactionLength,
                     write_set : SUBSET Keys, read_set : SUBSET Keys]
  BY DEF TypeOK
<1>2. opsdone[t] \in 0..opcount /\ opsdone[t] <= ThreadOpCount(t) /\ keynum[t] \in Keys
  BY DEF TypeOK
<1>. QED  BY <1>1, <1>2, ShareType, Constants DEF Threads

\* Where the actions of a thread begin and end.
LEMMA Moves ==
    ASSUME TypeOK, NEW t \in Threads
    PROVE  LET l == pc[t]
               m == pc'[t]
           IN
           /\ EndThread(t) => l = "loop" /\ m = "ended"
           /\ DoTransaction(t) => l = "loop" /\ m \in {"loop", "queue"}
           /\ DoInsert(t) => l = "loop" /\ m = "commit"
           /\ QueueChosen(t) => l = "queue" /\ m = "queue"
           /\ QueueNew(t) => l = "queue" /\ m = "acknowledge"
           /\ TooMany(t) => l = "acknowledge" /\ m = "acknowledge"
           /\ TestSlot(t) => l = "acknowledge" /\ m = "mark"
           /\ MarkSlot(t) => l = "mark" /\ m = "lock"
           /\ TryLock(t) => l = "lock" /\ m = IF lock = NoThread THEN "move" ELSE "queue"
           /\ TakeSlot(t) => l = "move" /\ m = "move"
           /\ StopMoving(t) => l = "move" /\ m = "unlock"
           /\ Unlock(t) => l = "unlock" /\ m = "queue"
           /\ Full(t) => l = "queue" /\ m = "commit"
           /\ Commit(t) => l = "commit" /\ m = IF queued[t].put_num > 0 THEN "put_all" ELSE AfterPut(queued[t])
           /\ PutAll(t) => l = "put_all" /\ m = AfterPut(queued[t])
           /\ GetAll(t) => l = "get_all" /\ m = "clear"
           /\ Clear(t) => l = "clear" /\ m = "loop"
<1>. USE DEF Goto
<1>1. \A m : pc' = [pc EXCEPT ![t] = m] => pc'[t] = m
  BY DEF TypeOK
<1>2. TypeOK
  OBVIOUS
<1>3. /\ EndThread(t) => pc[t] = "loop" /\ pc'[t] = "ended"
      /\ DoInsert(t) => pc[t] = "loop" /\ pc'[t] = "commit"
      /\ QueueNew(t) => pc[t] = "queue" /\ pc'[t] = "acknowledge"
  BY <1>1 DEF EndThread, DoInsert, QueueNew, QueueInsert
<1>4. /\ QueueChosen(t) => pc[t] = "queue" /\ pc'[t] = "queue"
      /\ TooMany(t) => pc[t] = "acknowledge" /\ pc'[t] = "acknowledge"
      /\ TakeSlot(t) => pc[t] = "move" /\ pc'[t] = "move"
  BY DEF QueueChosen, TooMany, TakeSlot, threadVars
<1>5. /\ TestSlot(t) => pc[t] = "acknowledge" /\ pc'[t] = "mark"
      /\ MarkSlot(t) => pc[t] = "mark" /\ pc'[t] = "lock"
      /\ TryLock(t) => pc[t] = "lock" /\ pc'[t] = IF lock = NoThread THEN "move" ELSE "queue"
      /\ StopMoving(t) => pc[t] = "move" /\ pc'[t] = "unlock"
      /\ Unlock(t) => pc[t] = "unlock" /\ pc'[t] = "queue"
  BY <1>1 DEF TestSlot, MarkSlot, TryLock, StopMoving, Unlock
<1>6. /\ Full(t) => pc[t] = "queue" /\ pc'[t] = "commit"
      /\ Commit(t) => pc[t] = "commit"
                      /\ pc'[t] = IF queued[t].put_num > 0 THEN "put_all" ELSE AfterPut(queued[t])
      /\ PutAll(t) => pc[t] = "put_all" /\ pc'[t] = AfterPut(queued[t])
      /\ GetAll(t) => pc[t] = "get_all" /\ pc'[t] = "clear"
      /\ Clear(t) => pc[t] = "clear" /\ pc'[t] = "loop"
  BY <1>1 DEF Full, Commit, PutAll, GetAll, Clear
<1>7. DoTransaction(t) => pc[t] = "loop" /\ pc'[t] \in {"loop", "queue"}
  BY <1>1 DEF DoTransaction
<1>. QED  BY <1>3, <1>4, <1>5, <1>6, <1>7, Zenon

\* A step of a thread leaves the others, main's threads and the kind of the
\* process alone.
LEMMA OthersStay ==
    ASSUME TypeOK, NEW t \in Threads, Thread(t)
    PROVE  /\ dotransactions' = dotransactions
           /\ \A u \in Threads \ {t} :
                 /\ pc'[u] = pc[u] /\ opsdone'[u] = opsdone[u] /\ op'[u] = op[u]
                 /\ keynum'[u] = keynum[u] /\ queued'[u] = queued[u]
           /\ status' = status /\ terminator' = terminator /\ stopRequested' = stopRequested
           /\ handler' = handler
           /\ main' = main \/ (TooMany(t) /\ main' = [main EXCEPT !.at = "exited"])
<1>. DEFINE Same == \A u \in Threads \ {t} :
                 /\ pc'[u] = pc[u] /\ opsdone'[u] = opsdone[u] /\ op'[u] = op[u]
                 /\ keynum'[u] = keynum[u] /\ queued'[u] = queued[u]
<1>1. /\ \A x : pc' = [pc EXCEPT ![t] = x] => \A u \in Threads \ {t} : pc'[u] = pc[u]
      /\ \A x : opsdone' = [opsdone EXCEPT ![t] = x] => \A u \in Threads \ {t} : opsdone'[u] = opsdone[u]
      /\ \A x : op' = [op EXCEPT ![t] = x] => \A u \in Threads \ {t} : op'[u] = op[u]
      /\ \A x : keynum' = [keynum EXCEPT ![t] = x] => \A u \in Threads \ {t} : keynum'[u] = keynum[u]
      /\ \A x : queued' = [queued EXCEPT ![t] = x] => \A u \in Threads \ {t} : queued'[u] = queued[u]
  BY DEF TypeOK
<1>2. ASSUME EndThread(t) \/ DoTransaction(t) \/ QueueChosen(t)
      PROVE  Same /\ UNCHANGED <<dotransactions, mainVars, handler>>
  BY <1>1, <1>2 DEF EndThread, DoTransaction, QueueChosen, Goto, keyVars
<1>3. ASSUME DoInsert(t) \/ QueueNew(t)
      PROVE  Same /\ UNCHANGED <<dotransactions, mainVars, handler>>
  BY <1>1, <1>3 DEF DoInsert, QueueNew, QueueInsert, Goto
<1>4. ASSUME TestSlot(t) \/ MarkSlot(t) \/ TryLock(t) \/ TakeSlot(t) \/ StopMoving(t) \/ Unlock(t)
      PROVE  Same /\ UNCHANGED <<dotransactions, mainVars, handler>>
  BY <1>1, <1>4 DEF TestSlot, MarkSlot, TryLock, TakeSlot, StopMoving, Unlock, Goto, threadVars, keyVars
<1>5. ASSUME Full(t) \/ Commit(t) \/ PutAll(t) \/ GetAll(t) \/ Clear(t)
      PROVE  Same /\ UNCHANGED <<dotransactions, mainVars, handler>>
  BY <1>1, <1>5 DEF Full, Commit, PutAll, GetAll, Clear, Goto
<1>6. ASSUME TooMany(t)
      PROVE  /\ Same /\ UNCHANGED <<dotransactions, status, terminator, stopRequested, handler>>
             /\ main' = [main EXCEPT !.at = "exited"]
  BY <1>6 DEF TooMany, threadVars
<1>. QED  BY <1>2, <1>3, <1>4, <1>5, <1>6 DEF Thread, Acknowledge, mainVars

-----------------------------------------------------------------------------
(* The keys that are generated *)

\* The put a thread uses next is one of its own, and not used yet.
LEMMA NextPut ==
    ASSUME TypeOK, NEW t \in Threads, opsdone[t] < ThreadOpCount(t), queued[t].put_num < Width
    PROVE  LET y == <<<<t, opsdone[t]>>, queued[t].put_num>>
           IN  y \in Share \X (0..(Width - 1)) /\ y \notin Used
<1>1. /\ opsdone[t] \in Nat /\ ThreadOpCount(t) \in Nat /\ ThreadOpCount(t) <= opcount
      /\ queued[t].put_num \in Nat /\ opcount \in Nat /\ Width \in Nat
  BY QueuedType, ShareType, Constants
<1>2. <<t, opsdone[t]>> \in Share
  BY <1>1 DEF Share
<1>3. queued[t].put_num \in 0..(Width - 1)
  BY <1>1
<1>. QED  BY <1>1, <1>2, <1>3 DEF Used

\* An insert adds a put and a key to what the thread has queued.
LEMMA InsertQueued ==
    ASSUME TypeOK, NEW t \in Threads, NEW l, QueueInsert(t, l)
    PROVE  queued'[t] = [put_num |-> queued[t].put_num + 1, get_num |-> queued[t].get_num,
                         write_set |-> queued[t].write_set \cup {counter},
                         read_set |-> queued[t].read_set]
<1>1. queued[t] \in [put_num : 0..TransactionLength, get_num : 0..TransactionLength,
                     write_set : SUBSET Keys, read_set : SUBSET Keys]
  BY DEF TypeOK
<1>2. DOMAIN queued = Threads
  BY DEF TypeOK
<1>3. queued' = [queued EXCEPT ![t].put_num = @ + 1, ![t].write_set = @ \cup {counter}]
  BY DEF QueueInsert
<1>. QED  BY <1>1, <1>2, <1>3

\* A step of a thread changes the puts that are used for this thread only: an
\* insert uses one more, and nothing gives one back.
LEMMA UsedStep ==
    ASSUME TypeOK, QueuedOK, SharesOK, NEW t \in Threads, Thread(t)
    PROVE  \/ /\ DoInsert(t) \/ QueueNew(t)
              /\ \E y : y \notin Used /\ Used' = Used \cup {y}
              /\ counter' = counter + 1
           \/ /\ ~DoInsert(t) /\ ~QueueNew(t)
              /\ IF dotransactions THEN Used \subseteq Used' ELSE Used' = Used
              /\ counter' = counter
<1>. DEFINE n == opsdone[t]
            p == queued[t].put_num
            n2 == opsdone'[t]
            p2 == queued'[t].put_num
            U(y) == y[1][2] < n \/ (y[1][2] = n /\ y[2] < p)
            U2(y) == y[1][2] < n2 \/ (y[1][2] = n2 /\ y[2] < p2)
            P == Share \X (0..(Width - 1))
<1>1. /\ n \in Nat /\ p \in Nat /\ Width \in Nat \ {0} /\ Width <= TransactionLength
      /\ TransactionLength \in Nat
  BY QueuedType, Constants
<1>2. Share' = Share /\ Width' = Width /\ dotransactions' = dotransactions
  BY OthersStay DEF Share, Width, ThreadOpCount, opcount
<1>3. \A y \in P : /\ y[1][1] \in Threads /\ y[1][2] \in Nat /\ y[2] \in 0..(Width - 1)
                   /\ y[1][2] < ThreadOpCount(y[1][1])
                   /\ y = <<<<y[1][1], y[1][2]>>, y[2]>>
  BY DEF Share
<1>4. \A y \in P : y[1][1] # t => (y \in Used <=> y \in Used')
  BY <1>2, <1>3, OthersStay DEF Used
<1>5. \A y \in P : y[1][1] = t => (y \in Used <=> U(y)) /\ (y \in Used' <=> U2(y))
  BY <1>2, <1>3 DEF Used
<1>6. Used \subseteq P /\ Used' \subseteq P
  BY <1>2 DEF Used
<1>7. \A x : queued' = [queued EXCEPT ![t] = x] => queued'[t] = x
  BY DEF TypeOK
<1>8. opsdone' = [opsdone EXCEPT ![t] = @ + 1] => n2 = n + 1
  BY DEF TypeOK
<1>. DEFINE z == <<<<t, n>>, p>>
<1>9. CASE DoInsert(t) \/ QueueNew(t)
  <2>1. n2 = n /\ counter' = counter + 1
    BY <1>9 DEF DoInsert, QueueNew, QueueInsert, Incremented
  <2>2. QueueInsert(t, "commit") \/ QueueInsert(t, "acknowledge")
    BY <1>9 DEF DoInsert, QueueNew
  <2>3. p2 = p + 1
    <3>1. queued'[t] = [put_num |-> queued[t].put_num + 1, get_num |-> queued[t].get_num,
                        write_set |-> queued[t].write_set \cup {counter},
                        read_set |-> queued[t].read_set]
      BY <2>2, InsertQueued, Zenon
    <3>. QED  BY <3>1
  <2>4. n < ThreadOpCount(t) /\ p < Width
    <3>1. CASE DoInsert(t)
      <4>1. p = 0
        BY <3>1, Moves DEF QueuedOK, Busy, Empty
      <4>. QED  BY <1>1, <3>1, <4>1, ShareType DEF DoInsert, HasMore
    <3>2. CASE QueueNew(t)
      <4>1. n < ThreadOpCount(t) /\ dotransactions
        BY <3>2, Moves DEF SharesOK, QueuedOK, Busy
      <4>2. numOperationsQueued(queued[t]) < TransactionLength
        BY <3>2 DEF QueueNew, HasRoom
      <4>3. queued[t].get_num \in Nat
        BY QueuedType
      <4>. QED  BY <1>1, <4>1, <4>2, <4>3 DEF numOperationsQueued, Width
    <3>. QED  BY <1>9, <3>1, <3>2
  <2>5. z \in P /\ z \notin Used
    BY <2>4, NextPut
  <2>6. \A y \in P : y[1][1] = t => (U2(y) <=> U(y) \/ y = z)
    <3>1. ASSUME NEW y \in P, y[1][1] = t
          PROVE  U2(y) <=> U(y) \/ y = z
      <4>1. y = z <=> y[1][2] = n /\ y[2] = p
        BY <1>3, <3>1
      <4>. QED  BY <1>1, <1>3, <2>1, <2>3, <4>1
    <3>. QED  BY <3>1
  <2>. HIDE DEF U, U2
  <2>7. Used' = Used \cup {z}
    <3>1. z[1][1] = t
      OBVIOUS
    <3>. HIDE DEF z, P
    <3>. QED  BY <1>4, <1>5, <1>6, <2>5, <2>6, <3>1
  <2>. QED  BY <1>9, <2>1, <2>5, <2>7
<1>10. CASE ~DoInsert(t) /\ ~QueueNew(t)
  <2>1. counter' = counter
    BY <1>10 DEF Thread, Acknowledge, EndThread, DoTransaction, QueueChosen, TooMany, TestSlot, MarkSlot,
       TryLock, TakeSlot, StopMoving, Unlock, Full, Commit, PutAll, GetAll, Clear, keyVars
  <2>2. CASE queued' = queued /\ opsdone' = opsdone
    <3>1. Used' = Used
      BY <1>2, <2>2 DEF Used
    <3>. QED  BY <1>10, <2>1, <3>1
  <2>3. ASSUME (n2 = n + 1 /\ p <= Width) \/ (n2 = n /\ p <= p2 /\ p2 \in Nat)
        PROVE  Used \subseteq Used'
    <3>1. ASSUME NEW y \in P, y[1][1] = t, U(y)
          PROVE  U2(y)
      BY <1>1, <1>3, <2>3, <3>1
    <3>. HIDE DEF P, U, U2
    <3>. QED  BY <1>4, <1>5, <1>6, <3>1
  <2>4. CASE DoTransaction(t) /\ ~(queued' = queued /\ opsdone' = opsdone)
    <3>1. dotransactions /\ n2 = n + 1 /\ p = 0
      <4>1. opsdone' = [opsdone EXCEPT ![t] = @ + 1] /\ dotransactions
        BY <2>4 DEF DoTransaction
      <4>. QED  BY <1>8, <2>4, <4>1, Moves DEF QueuedOK, Busy, Empty
    <3>. QED  BY <1>1, <1>10, <2>1, <2>3, <3>1
  <2>5. CASE QueueChosen(t)
    <3>1. dotransactions /\ n2 = n
      BY <2>5, Moves DEF QueuedOK, QueueChosen
    <3>2. PICK i \in {0, 1} : \E g, x, r :
             queued' = [queued EXCEPT ![t] = [put_num |-> p + i, get_num |-> g, write_set |-> x, read_set |-> r]]
      <4>1. PICK k \in ChosenKeys :
               LET q == queued[t]
                   gets == IF op[t] = "UPDATE" THEN {} ELSE {k}
                   puts == IF op[t] = "READ" THEN {} ELSE {k}
               IN  queued' = [queued EXCEPT ![t] =
                                [put_num |-> q.put_num + (IF puts = {} THEN 0 ELSE 1),
                                 get_num |-> q.get_num + (IF gets = {} THEN 0 ELSE 1),
                                 write_set |-> q.write_set \cup puts,
                                 read_set |-> q.read_set \cup gets]]
        BY <2>5 DEF QueueChosen
      <4>. QED  BY <4>1
    <3>3. p2 = p + i
      <4>1. PICK g, x, r : queued' = [queued EXCEPT ![t] = [put_num |-> p + i, get_num |-> g,
                                                             write_set |-> x, read_set |-> r]]
        BY <3>2
      <4>2. queued'[t] = [put_num |-> p + i, get_num |-> g, write_set |-> x, read_set |-> r]
        BY <1>7, <4>1
      <4>. QED  BY <4>2
    <3>. QED  BY <1>1, <1>10, <2>1, <2>3, <3>1, <3>3
  <2>6. CASE Clear(t)
    <3>1. n2 = n + 1 /\ queued'[t] = Empty
      BY <1>7, <1>8, <2>6 DEF Clear, Cleared
    <3>2. p2 = 0
      BY <3>1 DEF Empty
    <3>3. CASE dotransactions
      <4>1. p <= TransactionLength /\ Width = TransactionLength
        BY <3>3, QueuedType DEF Width
      <4>. QED  BY <1>10, <2>1, <2>3, <3>1, <3>3, <4>1
    <3>4. CASE ~dotransactions
      <4>1. Width = 1 /\ p = 1
        BY <2>6, <3>4, Moves DEF Width, QueuedOK, Busy
      <4>2. \A y \in P : y[1][1] = t => (U2(y) <=> U(y))
        BY <1>1, <1>3, <3>1, <3>2, <4>1
      <4>. HIDE DEF P, U, U2
      <4>3. Used' = Used
        BY <1>4, <1>5, <1>6, <4>2
      <4>. QED  BY <1>10, <2>1, <3>4, <4>3
    <3>. QED  BY <3>3, <3>4
  <2>7. DoTransaction(t) \/ QueueChosen(t) \/ Clear(t) \/ (queued' = queued /\ opsdone' = opsdone)
    BY <1>10 DEF Thread, Acknowledge, EndThread, TooMany, TestSlot, MarkSlot,
       TryLock, TakeSlot, StopMoving, Unlock, Full, Commit, PutAll, GetAll, threadVars
  <2>. QED  BY <2>2, <2>4, <2>5, <2>6, <2>7
<1>. QED  BY <1>9, <1>10

\* What main, the status thread and the terminator leave alone.
LEMMA ThreadsStay ==
    ASSUME Main \/ ReportStatus \/ Terminator
    PROVE  /\ UNCHANGED <<dotransactions, opsdone, op, keynum, queued, loaded, keyVars, latch>>
           /\ pc' = pc \/ Start
  BY DEF Main, InitDB, Start, StartTerminator, Join, Cleanup, Interrupt, Exit, ReportStatus, Terminator,
         RequestStop, TerminatorJoin, threadVars

\* Every key that is generated uses a put.
LEMMA CounterStep ==
    ASSUME TypeOK, QueuedOK, SharesOK, CounterOK, [Next]_vars
    PROVE  CounterOK'
<1>1. ASSUME UNCHANGED <<dotransactions, opsdone, queued, counter>>
      PROVE  CounterOK'
  BY <1>1 DEF CounterOK, Used, Share, Width, ThreadOpCount, opcount
<1>2. CASE UNCHANGED vars
  BY <1>1, <1>2 DEF vars, threadVars, keyVars
<1>3. CASE Main \/ ReportStatus \/ Terminator
  BY <1>1, <1>3, ThreadsStay DEF keyVars
<1>4. ASSUME NEW t \in Threads, Thread(t)
      PROVE  CounterOK'
  <2>1. dotransactions' = dotransactions /\ counter \in Int /\ RecordCount \in Nat
    <3>1. counter \in 0..(LastKey + 1)
      BY Constants DEF TypeOK
    <3>. QED  BY <1>4, <3>1, OthersStay, Constants
  <2>2. /\ IsFiniteSet(Used) /\ Cardinality(Used) \in Nat
        /\ IsFiniteSet(Used)' /\ Cardinality(Used') \in Nat
    <3>1. IsFiniteSet(Used)' /\ (Cardinality(Used) \in Nat)'
      BY UsedCount, PTL
    <3>. QED  BY <3>1, UsedCount
  <2>3. CASE (\E y : y \notin Used /\ Used' = Used \cup {y}) /\ counter' = counter + 1
    <3>1. Cardinality(Used') = Cardinality(Used) + 1
      BY <2>2, <2>3, FS_AddElement
    <3>. QED  BY <2>1, <2>2, <2>3, <3>1 DEF CounterOK
  <2>4. CASE (IF dotransactions THEN Used \subseteq Used' ELSE Used' = Used) /\ counter' = counter
    <3>1. CASE dotransactions
      <4>1. Cardinality(Used) <= Cardinality(Used')
        BY <2>2, <2>4, <3>1, FS_Subset
      <4>. QED  BY <2>1, <2>2, <2>4, <3>1, <4>1 DEF CounterOK
    <3>2. CASE ~dotransactions
      BY <2>1, <2>4, <3>2 DEF CounterOK
    <3>. QED  BY <3>1, <3>2
  <2>. QED  BY <1>4, <2>3, <2>4, UsedStep
<1>. QED  BY <1>2, <1>3, <1>4 DEF Next

-----------------------------------------------------------------------------
(* Threads and main *)

\* Main starts threads, one after the other; nothing else but a thread moves it.
LEMMA StartStep ==
    ASSUME TypeOK, MainOK, Main \/ ReportStatus \/ Terminator
    PROVE  \A t \in Threads :
              \/ pc'[t] = pc[t]
              \/ Start /\ t = main.thread /\ pc[t] = "new" /\ pc'[t] = "loop"
<1>1. CASE Start
  <2>1. main.thread \in Threads /\ pc[main.thread] = "new"
    BY <1>1 DEF Start, MainOK, TypeOK, Threads
  <2>. QED  BY <1>1, <2>1 DEF Start, Goto, TypeOK
<1>2. CASE ~Start
  BY <1>2, ThreadsStay
<1>. QED  BY <1>1, <1>2

\* What a transaction has queued keeps to its operation.
LEMMA QueuedStep ==
    ASSUME TypeOK, MainOK, QueuedOK, [Next]_vars
    PROVE  QueuedOK'
<1>. DEFINE Idle == {"new", "loop", "ended"}
            OK(l, o, q) ==
              /\ l \in Idle => q = Empty /\ o = "none"
              /\ l \notin Idle => IF dotransactions THEN o # "none" ELSE o = "none" /\ q.put_num = 1
              /\ l \in Acknowledging \cup {"queue"} => dotransactions
              /\ o # "SCAN"
              /\ o = "READ" => q.write_set = {}
              /\ o \in {"UPDATE", "INSERT", "none"} => q.read_set = {}
              /\ o = "READMODIFYWRITE" => q.read_set = q.write_set
<1>1. \A t \in Threads : OK(pc[t], op[t], queued[t])
  BY DEF QueuedOK, Busy
<1>2. ASSUME dotransactions' = dotransactions, \A t \in Threads : OK(pc'[t], op'[t], queued'[t])
      PROVE  QueuedOK'
  BY <1>2 DEF QueuedOK, Busy
<1>3. CASE UNCHANGED vars
  <2>1. dotransactions' = dotransactions /\ pc' = pc /\ op' = op /\ queued' = queued
    BY <1>3 DEF vars, threadVars
  <2>. QED  BY <1>1, <1>2, <2>1
<1>4. CASE Main \/ ReportStatus \/ Terminator
  <2>1. dotransactions' = dotransactions /\ op' = op /\ queued' = queued
    BY <1>4, ThreadsStay
  <2>2. \A t \in Threads : OK(pc'[t], op[t], queued[t])
    BY <1>1, <1>4, StartStep DEF Acknowledging
  <2>. QED  BY <1>2, <2>1, <2>2
<1>5. ASSUME NEW t \in Threads, Thread(t)
      PROVE  QueuedOK'
  <2>1. SUFFICES OK(pc'[t], op'[t], queued'[t])
    <3>1. ASSUME OK(pc'[t], op'[t], queued'[t]), NEW u \in Threads
          PROVE  OK(pc'[u], op'[u], queued'[u])
      <4>1. CASE u = t
        BY <3>1, <4>1
      <4>2. CASE u # t
        <5>1. pc'[u] = pc[u] /\ op'[u] = op[u] /\ queued'[u] = queued[u]
          BY <1>5, <4>2, OthersStay
        <5>. QED  BY <1>1, <5>1
      <4>. QED  BY <4>1, <4>2
    <3>. HIDE DEF OK
    <3>. QED  BY <1>2, <1>5, <3>1, OthersStay
  <2>2. CASE op' = op /\ queued' = queued
    <3>1. /\ pc[t] \in Idle => pc'[t] \in Idle
          /\ pc[t] \notin Idle => pc'[t] \notin Idle
          /\ pc'[t] \in Acknowledging \cup {"queue"} => pc[t] \in Acknowledging \cup {"queue"}
          \/ DoTransaction(t) \/ DoInsert(t) \/ Clear(t)
      <4>1. EndThread(t) \/ QueueChosen(t) \/ QueueNew(t) \/ Acknowledge(t) \/ Full(t) \/ Commit(t)
            \/ PutAll(t) \/ GetAll(t) \/ DoTransaction(t) \/ DoInsert(t) \/ Clear(t)
        BY <1>5 DEF Thread
      <4>2. \A q : AfterPut(q) \in {"get_all", "clear"}
        BY DEF AfterPut
      <4>. QED  BY <4>1, <4>2, Moves DEF Acknowledge, Acknowledging
    <3>2. CASE DoTransaction(t)
      <4>1. dotransactions /\ pc[t] = "loop" /\ (pc'[t] = "loop" \/ op'[t] # "none")
        BY <3>2, Moves DEF DoTransaction, TypeOK, Operations, Goto
      <4>2. pc'[t] \in {"loop", "queue"}
        BY <3>2, Moves
      <4>. QED  BY <1>1, <2>2, <4>1, <4>2 DEF Acknowledging
    <3>3. CASE DoInsert(t)
      <4>1. queued'[t] = [put_num |-> queued[t].put_num + 1, get_num |-> queued[t].get_num,
                          write_set |-> queued[t].write_set \cup {counter},
                          read_set |-> queued[t].read_set]
        BY <3>3, InsertQueued DEF DoInsert
      <4>2. queued'[t].put_num = queued[t].put_num + 1
        BY <4>1
      <4>. QED  BY <2>2, <4>2, QueuedType
    <3>4. CASE Clear(t)
      <4>1. queued'[t] = Empty /\ op'[t] = "none" /\ pc'[t] = "loop"
        BY <3>4, Moves DEF Clear, Cleared, TypeOK
      <4>. QED  BY <4>1 DEF Acknowledging, Empty
    <3>. QED  BY <1>1, <2>2, <3>1, <3>2, <3>3, <3>4
  <2>3. CASE DoTransaction(t)
    <3>1. /\ dotransactions /\ queued' = queued /\ queued[t] = Empty
          /\ pc'[t] \in {"loop", "queue"}
      BY <1>1, <2>3, Moves DEF DoTransaction
    <3>2. PICK o \in Operations :
            IF o = "SCAN"
            THEN pc' = pc /\ op' = op
            ELSE op' = [op EXCEPT ![t] = o] /\ Goto(t, "queue")
      BY <2>3 DEF DoTransaction
    <3>3. CASE o = "SCAN"
      BY <2>2, <3>1, <3>2, <3>3
    <3>4. CASE o # "SCAN"
      <4>1. op'[t] = o /\ pc'[t] = "queue" /\ o # "none"
        BY <3>2, <3>4 DEF Operations, Goto, TypeOK
      <4>. QED  BY <3>1, <3>4, <4>1 DEF Empty
    <3>. QED  BY <3>3, <3>4
  <2>4. CASE DoInsert(t)
    <3>1. queued'[t] = [put_num |-> queued[t].put_num + 1, get_num |-> queued[t].get_num,
                        write_set |-> queued[t].write_set \cup {counter},
                        read_set |-> queued[t].read_set]
      BY <2>4, InsertQueued DEF DoInsert
    <3>2. pc[t] = "loop" /\ pc'[t] = "commit" /\ op' = op /\ ~dotransactions
      BY <2>4, Moves DEF DoInsert
    <3>3. queued[t] = Empty /\ op[t] = "none"
      BY <1>1, <3>2
    <3>. QED  BY <3>1, <3>2, <3>3 DEF Empty, Acknowledging
  <2>5. CASE QueueNew(t)
    <3>1. queued'[t] = [put_num |-> queued[t].put_num + 1, get_num |-> queued[t].get_num,
                        write_set |-> queued[t].write_set \cup {counter},
                        read_set |-> queued[t].read_set]
      BY <2>5, InsertQueued DEF QueueNew
    <3>2. pc[t] = "queue" /\ pc'[t] = "acknowledge" /\ op' = op /\ op[t] = "INSERT"
      BY <2>5, Moves DEF QueueNew
    <3>. QED  BY <1>1, <3>1, <3>2 DEF Acknowledging
  <2>6. CASE QueueChosen(t)
    <3>1. PICK k \in ChosenKeys :
             LET q == queued[t]
                 gets == IF op[t] = "UPDATE" THEN {} ELSE {k}
                 puts == IF op[t] = "READ" THEN {} ELSE {k}
             IN  queued' = [queued EXCEPT ![t] =
                              [put_num |-> q.put_num + (IF puts = {} THEN 0 ELSE 1),
                               get_num |-> q.get_num + (IF gets = {} THEN 0 ELSE 1),
                               write_set |-> q.write_set \cup puts,
                               read_set |-> q.read_set \cup gets]]
      BY <2>6 DEF QueueChosen
    <3>2. /\ queued'[t].write_set = queued[t].write_set \cup (IF op[t] = "READ" THEN {} ELSE {k})
          /\ queued'[t].read_set = queued[t].read_set \cup (IF op[t] = "UPDATE" THEN {} ELSE {k})
      BY <3>1 DEF TypeOK
    <3>3. pc[t] = "queue" /\ pc'[t] = "queue" /\ op' = op /\ op[t] # "INSERT"
      BY <2>6, Moves DEF QueueChosen
    <3>4. dotransactions /\ op[t] # "none" /\ op[t] # "SCAN"
      BY <1>1, <3>3
    <3>. QED  BY <1>1, <3>2, <3>3, <3>4 DEF Acknowledging
  <2>7. CASE Clear(t)
    <3>1. queued'[t] = Empty /\ op'[t] = "none" /\ pc'[t] = "loop"
      BY <2>7, Moves DEF Clear, Cleared, TypeOK
    <3>. QED  BY <3>1 DEF Acknowledging, Empty
  <2>8. DoTransaction(t) \/ DoInsert(t) \/ QueueNew(t) \/ QueueChosen(t) \/ Clear(t)
        \/ (op' = op /\ queued' = queued)
    BY <1>5 DEF Thread, Acknowledge, EndThread, TooMany, TestSlot, MarkSlot,
       TryLock, TakeSlot, StopMoving, Unlock, Full, Commit, PutAll, GetAll, threadVars
  <2>. HIDE DEF OK
  <2>. QED  BY <2>2, <2>3, <2>4, <2>5, <2>6, <2>7, <2>8
<1>. QED  BY <1>3, <1>4, <1>5 DEF Next

\* Threads do their shares and no more, and end when they have or are stopped.
LEMMA SharesStep ==
    ASSUME TypeOK, MainOK, SharesOK, [Next]_vars
    PROVE  /\ SharesOK'
           /\ opsdone' \in [Threads -> Nat]
           /\ \A t \in Threads : opsdone'[t] <= ThreadOpCount(t) /\ ThreadOpCount(t)' = ThreadOpCount(t)
<1>. DEFINE Idle == {"new", "loop", "ended"}
            OK(l, n, m, s) == /\ l \notin Idle => n < m
                              /\ l = "ended" => n = m \/ s
                              /\ n \in Nat /\ n <= m
<1>1. \A t \in Threads : OK(pc[t], opsdone[t], ThreadOpCount(t), stopRequested)
  BY QueuedType DEF SharesOK, Busy
<1>2. ASSUME dotransactions' = dotransactions, DOMAIN opsdone' = Threads,
             opsdone' = [t \in Threads |-> opsdone'[t]],
             \A t \in Threads : OK(pc'[t], opsdone'[t], ThreadOpCount(t), stopRequested')
      PROVE  /\ SharesOK'
             /\ opsdone' \in [Threads -> Nat]
             /\ \A t \in Threads : opsdone'[t] <= ThreadOpCount(t) /\ ThreadOpCount(t)' = ThreadOpCount(t)
  <2>1. \A t \in Threads : ThreadOpCount(t)' = ThreadOpCount(t)
    BY <1>2 DEF ThreadOpCount, opcount
  <2>. QED  BY <1>2, <2>1 DEF SharesOK, Busy
<1>3. DOMAIN opsdone = Threads /\ opsdone = [t \in Threads |-> opsdone[t]]
  BY DEF TypeOK
<1>4. CASE UNCHANGED vars
  <2>1. dotransactions' = dotransactions /\ pc' = pc /\ opsdone' = opsdone /\ stopRequested' = stopRequested
    BY <1>4 DEF vars, threadVars, mainVars
  <2>. HIDE DEF OK
  <2>. QED  BY <1>1, <1>2, <1>3, <2>1
<1>5. CASE Main \/ ReportStatus \/ Terminator
  <2>1. dotransactions' = dotransactions /\ opsdone' = opsdone
    BY <1>5, ThreadsStay
  <2>2. stopRequested' = stopRequested \/ stopRequested' = TRUE
    BY <1>5 DEF Main, InitDB, Start, StartTerminator, Join, Cleanup, Interrupt, Exit, ReportStatus,
       Terminator, RequestStop, TerminatorJoin
  <2>3. \A t \in Threads : OK(pc'[t], opsdone[t], ThreadOpCount(t), stopRequested')
    BY <1>1, <1>5, <2>2, StartStep
  <2>. HIDE DEF OK
  <2>. QED  BY <1>2, <1>3, <2>1, <2>3
<1>6. ASSUME NEW t \in Threads, Thread(t)
      PROVE  /\ SharesOK'
             /\ opsdone' \in [Threads -> Nat]
             /\ \A u \in Threads : opsdone'[u] <= ThreadOpCount(u) /\ ThreadOpCount(u)' = ThreadOpCount(u)
  <2>1. stopRequested' = stopRequested /\ dotransactions' = dotransactions
    BY <1>6, OthersStay
  <2>2. opsdone' = opsdone \/ opsdone' = [opsdone EXCEPT ![t] = @ + 1]
    BY <1>6 DEF Thread, Acknowledge, EndThread, DoTransaction, DoInsert, QueueChosen, QueueNew,
       TooMany, TestSlot, MarkSlot, TryLock, TakeSlot, StopMoving, Unlock, Full, Commit, PutAll, GetAll,
       Clear, threadVars
  <2>3. DOMAIN opsdone' = Threads /\ opsdone' = [u \in Threads |-> opsdone'[u]]
    BY <1>3, <2>2
  <2>4. SUFFICES OK(pc'[t], opsdone'[t], ThreadOpCount(t), stopRequested)
    <3>1. ASSUME OK(pc'[t], opsdone'[t], ThreadOpCount(t), stopRequested), NEW u \in Threads
          PROVE  OK(pc'[u], opsdone'[u], ThreadOpCount(u), stopRequested)
      <4>1. CASE u = t
        BY <3>1, <4>1
      <4>2. CASE u # t
        <5>1. pc'[u] = pc[u] /\ opsdone'[u] = opsdone[u]
          BY <1>6, <4>2, OthersStay
        <5>. QED  BY <1>1, <5>1
      <4>. QED  BY <4>1, <4>2
    <3>. HIDE DEF OK
    <3>. QED  BY <1>2, <2>1, <2>3, <3>1
  <2>5. opsdone[t] \in Nat /\ ThreadOpCount(t) \in Nat /\ opsdone[t] <= ThreadOpCount(t)
    BY QueuedType
  <2>6. CASE EndThread(t)
    <3>1. opsdone' = opsdone /\ pc'[t] = "ended" /\ (opsdone[t] >= ThreadOpCount(t) \/ stopRequested)
      BY <2>5, <2>6, Moves DEF EndThread, HasMore
    <3>. QED  BY <2>5, <3>1
  <2>7. CASE DoTransaction(t)
    <3>1. opsdone[t] < ThreadOpCount(t) /\ pc'[t] \in {"loop", "queue"}
          /\ (pc'[t] = "loop" \/ opsdone' = opsdone)
      BY <2>7, Moves, ShareType DEF DoTransaction, HasMore, Goto
    <3>2. opsdone'[t] = opsdone[t] \/ opsdone'[t] = opsdone[t] + 1
      BY <1>3, <2>2
    <3>. QED  BY <2>5, <3>1, <3>2
  <2>8. CASE DoInsert(t)
    <3>1. opsdone' = opsdone /\ opsdone[t] < ThreadOpCount(t) /\ pc'[t] = "commit"
      BY <2>8, Moves, ShareType DEF DoInsert, HasMore
    <3>. QED  BY <2>5, <3>1
  <2>9. CASE Clear(t)
    <3>1. opsdone[t] < ThreadOpCount(t) /\ pc'[t] = "loop"
      BY <1>1, <2>9, Moves
    <3>2. opsdone'[t] = opsdone[t] + 1
      BY <1>3, <2>9 DEF Clear
    <3>. QED  BY <2>5, <3>1, <3>2
  <2>10. CASE QueueChosen(t) \/ QueueNew(t) \/ Acknowledge(t) \/ Full(t) \/ Commit(t) \/ PutAll(t)
              \/ GetAll(t)
    <3>1. opsdone' = opsdone
      BY <2>10 DEF Acknowledge, QueueChosen, QueueNew, TooMany, TestSlot, MarkSlot, TryLock, TakeSlot,
         StopMoving, Unlock, Full, Commit, PutAll, GetAll, threadVars
    <3>2. \A q : AfterPut(q) \in {"get_all", "clear"}
      BY DEF AfterPut
    <3>3. pc[t] \notin Idle /\ pc'[t] \notin Idle
      BY <2>10, <3>2, Moves DEF Acknowledge
    <3>. QED  BY <1>1, <3>1, <3>3
  <2>. HIDE DEF OK
  <2>. QED  BY <1>6, <2>6, <2>7, <2>8, <2>9, <2>10 DEF Thread
<1>. QED  BY <1>4, <1>5, <1>6 DEF Next

\* What a load generates stays queued until it is put.
LEMMA LoadedStep ==
    ASSUME TypeOK, MainOK, QueuedOK, LoadedOK, [Next]_vars
    PROVE  LoadedOK'
<1>. DEFINE Puts == {"commit", "put_all"}
            OK(l, w, ld, c) ==
              /\ ld \subseteq 0..(c - 1)
              /\ \A t \in Threads : w[t] \subseteq 0..(c - 1)
              /\ \A n \in 0..(c - 1) : n \in ld \/ \E t \in Threads : l[t] \in Puts /\ n \in w[t]
            ws == [t \in Threads |-> queued[t].write_set]
            ws2 == [t \in Threads |-> queued'[t].write_set]
<1>1. LoadedOK <=> (~dotransactions => OK(pc, ws, loaded, counter))
  BY DEF LoadedOK
<1>2. LoadedOK' <=> (~dotransactions' => OK(pc', ws2, loaded', counter'))
  BY DEF LoadedOK
<1>3. dotransactions' = dotransactions
  <2>1. ASSUME NEW t \in Threads, Thread(t)
        PROVE  dotransactions' = dotransactions
    BY <2>1, OthersStay
  <2>. QED  BY <2>1, ThreadsStay DEF Next, vars
<1>4. SUFFICES ASSUME ~dotransactions
               PROVE  OK(pc', ws2, loaded', counter')
  BY <1>2, <1>3
<1>5. OK(pc, ws, loaded, counter)
  BY <1>1, <1>4
<1>6. ASSUME queued' = queued, loaded' = loaded, counter' = counter,
             \A t \in Threads : pc[t] \in Puts => pc'[t] \in Puts
      PROVE  OK(pc', ws2, loaded', counter')
  BY <1>5, <1>6
<1>7. CASE UNCHANGED vars
  BY <1>6, <1>7 DEF vars, threadVars, keyVars
<1>8. CASE Main \/ ReportStatus \/ Terminator
  <2>1. queued' = queued /\ loaded' = loaded /\ counter' = counter
    BY <1>8, ThreadsStay DEF keyVars
  <2>2. \A t \in Threads : pc[t] \in Puts => pc'[t] \in Puts
    BY <1>8, StartStep
  <2>. QED  BY <1>6, <2>1, <2>2
<1>9. ASSUME NEW t \in Threads, Thread(t)
      PROVE  OK(pc', ws2, loaded', counter')
  <2>1. /\ pc[t] \notin Acknowledging \cup {"queue"}
        /\ pc[t] \in Puts => queued[t].put_num = 1
        /\ pc[t] = "loop" => queued[t].write_set = {}
    BY <1>4 DEF QueuedOK, Busy, Empty
  <2>2. \A u \in Threads \ {t} : pc'[u] = pc[u] /\ ws2[u] = ws[u]
    BY <1>9, OthersStay
  <2>3. CASE EndThread(t) \/ Commit(t) \/ GetAll(t)
    <3>1. queued' = queued /\ loaded' = loaded /\ counter' = counter
      BY <2>3 DEF EndThread, Commit, GetAll, keyVars
    <3>2. pc[t] \in Puts => pc'[t] \in Puts
      BY <2>1, <2>3, Moves
    <3>. QED  BY <1>6, <2>2, <3>1, <3>2
  <2>4. CASE DoInsert(t)
    <3>1. counter' = counter + 1 /\ loaded' = loaded
      BY <2>4 DEF DoInsert, QueueInsert, Incremented
    <3>2. ws2[t] = {counter} /\ pc'[t] = "commit"
      <4>1. queued'[t] = [put_num |-> queued[t].put_num + 1, get_num |-> queued[t].get_num,
                          write_set |-> queued[t].write_set \cup {counter},
                          read_set |-> queued[t].read_set]
        BY <2>4, InsertQueued DEF DoInsert
      <4>. QED  BY <2>1, <2>4, <4>1, Moves
    <3>3. counter \in Nat
      BY Constants DEF TypeOK
    <3>4. ws[t] = {}
      BY <2>1, <2>4, Moves
    <3>. HIDE DEF ws, ws2
    <3>5. 0..((counter + 1) - 1) = (0..(counter - 1)) \cup {counter}
      BY <3>3
    <3>6. loaded \subseteq 0..((counter + 1) - 1) /\ \A u \in Threads : ws2[u] \subseteq 0..((counter + 1) - 1)
      <4>1. \A u \in Threads : ws2[u] \subseteq (0..(counter - 1)) \cup {counter}
        BY <1>5, <2>2, <3>2
      <4>. QED  BY <1>5, <3>5, <4>1
    <3>7. ASSUME NEW n \in 0..((counter + 1) - 1)
          PROVE  n \in loaded \/ \E u \in Threads : pc'[u] \in Puts /\ n \in ws2[u]
      <4>1. CASE n = counter
        BY <3>2, <4>1
      <4>2. CASE n # counter
        <5>1. n \in 0..(counter - 1)
          BY <3>5, <4>2
        <5>2. CASE n \in loaded
          BY <5>2
        <5>3. ASSUME NEW u \in Threads, pc[u] \in Puts, n \in ws[u]
              PROVE  pc'[u] \in Puts /\ n \in ws2[u]
          BY <2>2, <3>4, <5>3
        <5>. QED  BY <1>5, <5>1, <5>2, <5>3
      <4>. QED  BY <4>1, <4>2
    <3>. QED  BY <3>1, <3>6, <3>7
  <2>5. CASE PutAll(t)
    <3>1. loaded' = loaded \cup ws[t] /\ ws2 = ws /\ counter' = counter
      BY <1>4, <2>5 DEF PutAll, keyVars
    <3>. HIDE DEF ws, ws2
    <3>2. loaded' \subseteq 0..(counter - 1)
      BY <1>5, <3>1
    <3>3. ASSUME NEW n \in 0..(counter - 1)
          PROVE  n \in loaded' \/ \E u \in Threads : pc'[u] \in Puts /\ n \in ws2[u]
      <4>1. CASE n \in loaded \/ n \in ws[t]
        BY <3>1, <4>1
      <4>2. CASE n \notin loaded /\ n \notin ws[t]
        <5>1. PICK u \in Threads : pc[u] \in Puts /\ n \in ws[u]
          BY <1>5, <4>2
        <5>. QED  BY <2>2, <3>1, <4>2, <5>1
      <4>. QED  BY <4>1, <4>2
    <3>. QED  BY <1>5, <3>1, <3>2, <3>3
  <2>6. CASE Clear(t)
    <3>1. loaded' = loaded /\ counter' = counter /\ pc[t] = "clear"
      BY <2>6 DEF Clear, keyVars
    <3>2. ws2[t] = {}
      BY <2>6 DEF Clear, Cleared, Empty, TypeOK
    <3>. HIDE DEF ws, ws2
    <3>3. \A u \in Threads : ws2[u] \subseteq 0..(counter - 1)
      BY <1>5, <2>2, <3>2
    <3>4. \A n \in 0..(counter - 1) : n \in loaded \/ \E u \in Threads : pc'[u] \in Puts /\ n \in ws2[u]
      <4>1. \A u \in Threads : pc[u] \in Puts => pc'[u] \in Puts /\ ws2[u] = ws[u]
        BY <2>2, <3>1
      <4>. QED  BY <1>5, <4>1
    <3>. QED  BY <1>5, <3>1, <3>3, <3>4
  <2>7. EndThread(t) \/ Commit(t) \/ GetAll(t) \/ DoInsert(t) \/ PutAll(t) \/ Clear(t)
    <3>1. ~DoTransaction(t)
      BY <1>4 DEF DoTransaction
    <3>2. ~QueueChosen(t) /\ ~QueueNew(t) /\ ~Acknowledge(t) /\ ~Full(t)
      BY <2>1, Moves DEF Acknowledge, Acknowledging
    <3>. QED  BY <1>9, <3>1, <3>2 DEF Thread
  <2>. HIDE DEF OK
  <2>. QED  BY <2>3, <2>4, <2>5, <2>6, <2>7
<1>. HIDE DEF OK
<1>. QED  BY <1>7, <1>8, <1>9 DEF Next

\* The latch counts the threads that have not ended.
LEMMA LatchStep ==
    ASSUME TypeOK, MainOK, [Next]_vars
    PROVE  latch' = Cardinality({t \in Threads : pc'[t] # "ended"}) /\ latch' \in 0..ThreadCount
<1>. DEFINE S == {t \in Threads : pc[t] # "ended"}
            S2 == {t \in Threads : pc'[t] # "ended"}
<1>1. ThreadCount \in Nat \ {0} /\ IsFiniteSet(Threads) /\ Cardinality(Threads) = ThreadCount
  <2>1. ThreadCount \in Nat \ {0}
    BY Constants
  <2>. QED  BY <2>1, FS_Interval DEF Threads
<1>2. IsFiniteSet(S) /\ IsFiniteSet(S2) /\ Cardinality(S2) \in 0..ThreadCount
  <2>1. S \subseteq Threads /\ S2 \subseteq Threads
    OBVIOUS
  <2>2. IsFiniteSet(S) /\ IsFiniteSet(S2) /\ Cardinality(S2) <= ThreadCount
    BY <1>1, <2>1, FS_Subset
  <2>3. Cardinality(S2) \in Nat
    BY <2>2, FS_CardinalityType
  <2>. QED  BY <1>1, <2>2, <2>3
<1>3. latch = Cardinality(S)
  BY DEF MainOK
<1>4. CASE latch' = latch /\ \A t \in Threads : pc[t] = "ended" <=> pc'[t] = "ended"
  <2>1. S2 = S
    BY <1>4
  <2>. QED  BY <1>2, <1>3, <1>4, <2>1
<1>5. CASE UNCHANGED vars
  BY <1>4, <1>5 DEF vars, threadVars
<1>6. CASE Main \/ ReportStatus \/ Terminator
  <2>1. latch' = latch
    BY <1>6, ThreadsStay
  <2>2. \A t \in Threads : pc[t] = "ended" <=> pc'[t] = "ended"
    BY <1>6, StartStep
  <2>. QED  BY <1>4, <2>1, <2>2
<1>7. ASSUME NEW t \in Threads, Thread(t)
      PROVE  latch' = Cardinality(S2) /\ latch' \in 0..ThreadCount
  <2>1. CASE EndThread(t)
    <3>1. latch' = latch - 1
      BY <2>1 DEF EndThread
    <3>2. t \in S /\ S2 = S \ {t}
      BY <1>7, <2>1, Moves, OthersStay
    <3>3. Cardinality(S2) = Cardinality(S) - 1
      BY <1>2, <3>2, FS_RemoveElement
    <3>. QED  BY <1>2, <1>3, <3>1, <3>3
  <2>2. CASE ~EndThread(t)
    <3>1. latch' = latch
      BY <1>7, <2>2 DEF Thread, Acknowledge, DoTransaction, DoInsert, QueueChosen, QueueNew,
       TooMany, TestSlot, MarkSlot, TryLock, TakeSlot, StopMoving, Unlock, Full, Commit, PutAll, GetAll, Clear
    <3>2. \A q : AfterPut(q) \in {"get_all", "clear"}
      BY DEF AfterPut
    <3>3. pc[t] # "ended" /\ pc'[t] # "ended"
      BY <1>7, <2>2, <3>2, Moves DEF Thread, Acknowledge
    <3>4. \A u \in Threads : pc[u] = "ended" <=> pc'[u] = "ended"
      BY <1>7, <3>3, OthersStay
    <3>. QED  BY <1>4, <3>1, <3>4
  <2>. QED  BY <2>1, <2>2
<1>. QED  BY <1>5, <1>6, <1>7 DEF Next

\* Handlers are there before threads start and until the last has ended.
LEMMA MainStep ==
    ASSUME TypeOK, MainOK, [Next]_vars
    PROVE  MainOK'
<1>. DEFINE Rest(mn, h, l) ==
              /\ mn.at = "init" => \A t \in Threads : l[t] = "new" /\ (t < mn.thread => h[t] = "connected")
              /\ mn.at \in {"start", "terminator", "join"} => \A t \in Threads : h[t] = "connected"
              /\ mn.at = "start" => \A t \in Threads : t >= mn.thread => l[t] = "new"
              /\ mn.at = "terminator" => mn.thread = 1
              /\ mn.at = "join" => \A t \in Threads : t < mn.thread => l[t] = "ended"
              /\ mn.at \in {"cleanup", "interrupt", "status"} => \A t \in Threads : l[t] = "ended"
              /\ \A t \in Threads : l[t] \notin {"new", "ended"} => h[t] = "connected"
<1>1. Rest(main, handler, pc)
  BY DEF MainOK, AllJoined, HandlerAlive
<1>2. SUFFICES Rest(main', handler', pc')
  BY <1>2, LatchStep DEF MainOK, AllJoined, HandlerAlive
<1>3. ThreadCount \in Nat \ {0} /\ Threads = 1..ThreadCount
  BY Constants DEF Threads
<1>4. main.thread \in Threads /\ main = [at |-> main.at, thread |-> main.thread]
  BY DEF TypeOK
<1>5. \A l : NextThread(l) => \/ /\ main.thread < ThreadCount
                                 /\ main' = [at |-> main.at, thread |-> main.thread + 1]
                              \/ main.thread = ThreadCount /\ main' = [at |-> l, thread |-> 1]
  BY <1>3, <1>4 DEF NextThread
<1>6. /\ \A x : handler' = [handler EXCEPT ![main.thread] = x] =>
                \A t \in Threads : handler'[t] = IF t = main.thread THEN x ELSE handler[t]
      /\ \A x : pc' = [pc EXCEPT ![main.thread] = x] =>
                \A t \in Threads : pc'[t] = IF t = main.thread THEN x ELSE pc[t]
  BY DEF TypeOK
<1>7. CASE UNCHANGED vars
  BY <1>1, <1>7 DEF vars, threadVars, mainVars
<1>8. CASE InitDB
  <2>1. main.at = "init" /\ NextThread("start") /\ pc' = pc
        /\ handler' = [handler EXCEPT ![main.thread] = "connected"]
    BY <1>8 DEF InitDB, threadVars
  <2>2. ASSUME NEW t \in Threads, t <= main.thread
        PROVE  handler'[t] = "connected"
    <3>1. handler'[t] = IF t = main.thread THEN "connected" ELSE handler[t]
      BY <1>6, <2>1
    <3>2. t < main.thread => handler[t] = "connected"
      BY <1>1, <2>1
    <3>. QED  BY <1>3, <1>4, <2>2, <3>1, <3>2
  <2>3. \A t \in Threads : pc'[t] = "new"
    BY <1>1, <2>1
  <2>4. CASE main.thread < ThreadCount /\ main' = [at |-> main.at, thread |-> main.thread + 1]
    <3>1. main'.at = "init" /\ main'.thread = main.thread + 1
      BY <2>1, <2>4
    <3>. QED  BY <1>3, <1>4, <2>2, <2>3, <3>1
  <2>5. CASE main.thread = ThreadCount /\ main' = [at |-> "start", thread |-> 1]
    <3>1. main'.at = "start" /\ main'.thread = 1
      BY <2>5
    <3>. QED  BY <1>3, <2>2, <2>3, <2>5, <3>1
  <2>. QED  BY <1>5, <2>1, <2>4, <2>5
<1>9. CASE Start
  <2>1. main.at = "start" /\ NextThread("terminator") /\ handler' = handler
        /\ pc' = [pc EXCEPT ![main.thread] = "loop"]
    BY <1>9 DEF Start, Goto
  <2>. QED  BY <1>1, <1>3, <1>4, <1>5, <1>6, <2>1
<1>10. CASE StartTerminator
  <2>1. main.at = "terminator" /\ main' = [main EXCEPT !.at = "join"] /\ handler' = handler /\ pc' = pc
    BY <1>10 DEF StartTerminator, threadVars
  <2>2. main' = [at |-> "join", thread |-> main.thread]
    BY <1>4, <2>1
  <2>. QED  BY <1>1, <1>3, <2>1, <2>2
<1>11. CASE Join
  <2>1. main.at = "join" /\ NextThread("cleanup") /\ handler' = handler /\ pc' = pc /\ pc[main.thread] = "ended"
    BY <1>11 DEF Join, Joined, threadVars
  <2>. QED  BY <1>1, <1>3, <1>4, <1>5, <2>1
<1>12. CASE Cleanup
  <2>1. main.at = "cleanup" /\ NextThread("interrupt") /\ pc' = pc
        /\ handler' = [handler EXCEPT ![main.thread] = "destructed"]
    BY <1>12 DEF Cleanup, threadVars
  <2>. QED  BY <1>1, <1>5, <2>1
<1>13. CASE Interrupt \/ Exit
  <2>1. /\ main.at \in {"interrupt", "status"} /\ handler' = handler /\ pc' = pc
        /\ main' = [main EXCEPT !.at = "status"] \/ main' = [main EXCEPT !.at = "exited"]
    BY <1>13 DEF Interrupt, Exit, threadVars
  <2>2. \E l \in {"status", "exited"} : main' = [at |-> l, thread |-> main.thread]
    BY <1>4, <2>1
  <2>. QED  BY <1>1, <2>1, <2>2
<1>14. CASE ReportStatus \/ Terminator
  BY <1>1, <1>14 DEF ReportStatus, Terminator, RequestStop, TerminatorJoin, threadVars
<1>15. ASSUME NEW t \in Threads, Thread(t)
       PROVE  Rest(main', handler', pc')
  <2>1. pc[t] # "new" /\ pc[t] # "ended" /\ pc'[t] # "new"
    <3>1. \A q : AfterPut(q) \in {"get_all", "clear"}
      BY DEF AfterPut
    <3>. QED  BY <1>15, <3>1, Moves DEF Thread, Acknowledge
  <2>2. handler' = handler /\ \A u \in Threads \ {t} : pc'[u] = pc[u]
    BY <1>15, OthersStay
  <2>3. main' = main \/ main' = [at |-> "exited", thread |-> main.thread]
    BY <1>4, <1>15, OthersStay
  <2>4. handler[t] = "connected"
    BY <1>1, <2>1
  <2>5. CASE main' = main
    BY <1>1, <1>3, <2>1, <2>2, <2>4, <2>5
  <2>6. CASE main' = [at |-> "exited", thread |-> main.thread]
    BY <1>1, <2>1, <2>2, <2>4, <2>6
  <2>. QED  BY <2>3, <2>5, <2>6
<1>. HIDE DEF Rest
<1>. QED  BY <1>7, <1>8, <1>9, <1>10, <1>11, <1>12, <1>13, <1>14, <1>15 DEF Next, Main

-----------------------------------------------------------------------------
(* The window of the generator *)

\* Of WINDOW_SIZE keys in a row no two have the same slot.
LEMMA NearSlots ==
    ASSUME NEW m \in Nat, NEW n \in Nat, m < n + WINDOW_SIZE, n < m + WINDOW_SIZE, Slot(m) = Slot(n)
    PROVE  m = n
<1>1. WINDOW_SIZE \in Nat \ {0}
  BY Constants
<1>2. m % WINDOW_SIZE = n % WINDOW_SIZE
  BY DEF Slot
<1>3. m <= n => m = n
  BY <1>1, <1>2, NearRemainders
<1>4. n <= m => m = n
  BY <1>1, <1>2, NearRemainders
<1>. QED  BY <1>3, <1>4

\* The numbers of the generator.
LEMMA WindowTypes ==
    ASSUME TypeOK
    PROVE  /\ counter \in Nat /\ index \in Nat /\ limit \in Int /\ -1 <= limit /\ next \in Int
           /\ limit < LastKey + 1 /\ index <= LastKey + 1
           /\ \A t \in Threads : keynum[t] \in Nat
           /\ WINDOW_SIZE \in Nat \ {0} /\ RecordCount \in Nat
           /\ \A n \in Nat : Slot(n) \in Slots
<1>1. LastKey \in Nat /\ Keys = 0..LastKey /\ Max(Keys) = LastKey
  BY Constants
<1>2. counter \in Nat /\ index \in Nat /\ limit \in Int /\ -1 <= limit
      /\ limit < LastKey + 1 /\ index <= LastKey + 1
  BY <1>1 DEF TypeOK
<1>3. \A t \in Threads : keynum[t] \in Nat
  BY <1>1 DEF TypeOK
<1>4. next \in Int
  BY <1>2 DEF next
<1>5. \A n \in Nat : Slot(n) \in Slots
  BY Constants, Division DEF Slot, Slots
<1>. QED  BY <1>2, <1>3, <1>4, <1>5, Constants

\* The thread that takes the lock moves the limit and gives the lock back.
LEMMA LockStep ==
    ASSUME TypeOK, MainOK, LockOK, [Next]_vars
    PROVE  LockOK'
<1>1. \A t \in Threads : lock = t <=> pc[t] \in {"move", "unlock"}
  BY DEF LockOK
<1>2. CASE UNCHANGED vars
  BY <1>1, <1>2 DEF LockOK, vars, threadVars, keyVars
<1>3. CASE Main \/ ReportStatus \/ Terminator
  <2>1. lock' = lock
    BY <1>3, ThreadsStay DEF keyVars
  <2>2. \A t \in Threads : pc[t] \in {"move", "unlock"} <=> pc'[t] \in {"move", "unlock"}
    BY <1>3, StartStep
  <2>. QED  BY <1>1, <2>1, <2>2 DEF LockOK
<1>4. ASSUME NEW t \in Threads, Thread(t)
      PROVE  LockOK'
  <2>1. \A u \in Threads \ {t} : pc'[u] = pc[u]
    BY <1>4, OthersStay
  <2>2. \A u \in Threads : u # NoThread
    BY DEF Threads, NoThread
  <2>3. CASE TryLock(t) /\ lock = NoThread
    <3>1. lock' = t /\ pc'[t] = "move"
      BY <2>3, Moves DEF TryLock
    <3>. QED  BY <1>1, <2>1, <2>2, <2>3, <3>1 DEF LockOK
  <2>4. CASE Unlock(t)
    <3>1. lock' = NoThread /\ pc[t] = "unlock" /\ pc'[t] = "queue"
      BY <2>4, Moves DEF Unlock
    <3>. QED  BY <1>1, <2>1, <2>2, <3>1 DEF LockOK
  <2>5. CASE ~(TryLock(t) /\ lock = NoThread) /\ ~Unlock(t)
    <3>1. lock' = lock
      BY <1>4, <2>5 DEF Thread, Acknowledge, EndThread, DoTransaction, DoInsert, QueueChosen, QueueNew,
       TooMany, TestSlot, MarkSlot, TryLock, TakeSlot, StopMoving, Full, Commit, PutAll, GetAll,
       Clear, keyVars
    <3>2. \A q : AfterPut(q) \in {"get_all", "clear"}
      BY DEF AfterPut
    <3>3. pc[t] \in {"move", "unlock"} <=> pc'[t] \in {"move", "unlock"}
      BY <1>4, <2>5, <3>2, Moves DEF Thread, Acknowledge
    <3>. QED  BY <1>1, <2>1, <3>1, <3>3 DEF LockOK
  <2>. QED  BY <2>3, <2>4, <2>5
<1>. QED  BY <1>2, <1>3, <1>4 DEF Next

\* The first key that is not taken moves on when the owner takes a slot only:
\* between lock and unlock it is the owner's index, and else follows limit.
LEMMA NextStep ==
    ASSUME TypeOK, LockOK, NEW t \in Threads, Thread(t)
    PROVE  /\ TakeSlot(t) \/ StopMoving(t) => next = index
           /\ TakeSlot(t) => next' = next + 1
           /\ ~TakeSlot(t) => next' = next
<1>. DEFINE M == \E u \in Threads : pc[u] = "move"
            M2 == \E u \in Threads : pc'[u] = "move"
<1>1. \A u \in Threads : lock = u <=> pc[u] \in {"move", "unlock"}
  BY DEF LockOK
<1>2. \A u \in Threads \ {t} : pc'[u] = pc[u]
  BY OthersStay
<1>3. next = (IF M THEN index ELSE limit + 1) /\ next' = (IF M2 THEN index' ELSE limit' + 1)
  BY DEF next
<1>4. CASE TakeSlot(t)
  <2>1. M /\ M2 /\ index' = index + 1
    BY <1>4, Moves DEF TakeSlot
  <2>. QED  BY <1>3, <1>4, <2>1, WindowTypes
<1>5. CASE StopMoving(t)
  <2>1. M /\ ~TakeSlot(t)
    BY <1>5, Moves
  <2>2. ~M2
    BY <1>1, <1>2, <1>5, Moves
  <2>3. limit' = index - 1
    BY <1>5 DEF StopMoving, LastTaken
  <2>. HIDE DEF M, M2
  <2>. QED  BY <1>3, <2>1, <2>2, <2>3, WindowTypes
<1>6. CASE TryLock(t) /\ lock = NoThread
  <2>1. ~M
    BY <1>1, <1>6 DEF Threads, NoThread
  <2>2. M2 /\ index' = limit + 1 /\ limit' = limit
    BY <1>6, Moves DEF TryLock
  <2>3. ~TakeSlot(t) /\ ~StopMoving(t)
    BY <1>6, Moves
  <2>. HIDE DEF M, M2
  <2>. QED  BY <1>3, <2>1, <2>2, <2>3
<1>7. CASE ~TakeSlot(t) /\ ~StopMoving(t) /\ ~(TryLock(t) /\ lock = NoThread)
  <2>1. index' = index /\ limit' = limit
    BY <1>7 DEF Thread, Acknowledge, EndThread, DoTransaction, DoInsert, QueueChosen, QueueNew,
       TooMany, TestSlot, MarkSlot, TryLock, Unlock, Full, Commit, PutAll, GetAll, Clear, keyVars
  <2>2. \A q : AfterPut(q) \in {"get_all", "clear"}
    BY DEF AfterPut
  <2>3. pc[t] # "move" /\ pc'[t] # "move"
    BY <1>7, <2>2, Moves DEF Thread, Acknowledge
  <2>4. M <=> M2
    BY <1>2, <2>3
  <2>. HIDE DEF M, M2
  <2>. QED  BY <1>3, <1>7, <2>1, <2>4
<1>. QED  BY <1>4, <1>5, <1>6, <1>7

\* The slot that the owner of the lock takes is that of the next key, and not
\* that of a key which comes around to the same slot.
LEMMA TakesNext ==
    ASSUME TypeOK, QueuedOK, WindowOK, NEW t \in Threads, TakeSlot(t)
    PROVE  index = next /\ index < counter /\ Marked(index) /\ dotransactions
<1>1. Thread(t) /\ LockOK /\ RangeOK /\ UnmarkedOK /\ SlotsOK
  BY DEF Thread, Acknowledge, WindowOK
<1>2. index = next
  BY <1>1, NextStep
<1>3. dotransactions
  BY Moves DEF QueuedOK, Acknowledging
<1>4. Slot(index) \in window
  BY DEF TakeSlot
<1>5. PICK m \in next..(counter - 1) : Marked(m) /\ Slot(m) = Slot(index)
  BY <1>1, <1>3, <1>4 DEF SlotsOK
<1>6. m \in Nat /\ index \in Nat /\ counter \in Nat /\ WINDOW_SIZE \in Nat \ {0} /\ m >= index /\ m < counter
  BY <1>2, <1>5, WindowTypes
<1>7. index < counter /\ index \in next..(counter - 1)
  BY <1>2, <1>6
<1>8. Marked(index)
  <2>1. SUFFICES ASSUME NEW u \in Threads, Unmarked(u), keynum[u] = index
                 PROVE  FALSE
    BY DEF Marked
  <2>2. counter <= index + WINDOW_SIZE
    BY <1>1, <2>1 DEF UnmarkedOK
  <2>3. m = index
    BY <1>5, <1>6, <2>2, NearSlots
  <2>. QED  BY <1>5, <2>1, <2>3 DEF Marked
<1>. QED  BY <1>2, <1>3, <1>7, <1>8

\* The limit stays behind the first key that is not taken, and that behind the
\* last key that is generated.
LEMMA RangeStep ==
    ASSUME TypeOK, MainOK, QueuedOK, WindowOK, [Next]_vars
    PROVE  RangeOK' /\ index' \in Int /\ limit' \in Int /\ -1 <= limit'
<1>. DEFINE Goal == RangeOK' /\ index' \in Int /\ limit' \in Int /\ -1 <= limit'
<1>1. LockOK /\ RangeOK
  BY DEF WindowOK
<1>2. /\ counter \in Nat /\ index \in Nat /\ limit \in Int /\ -1 <= limit /\ next \in Int /\ RecordCount \in Nat
      /\ 0 <= index /\ index <= counter /\ limit < next /\ next <= counter
      /\ dotransactions => RecordCount - 1 <= limit
  BY <1>1, WindowTypes DEF RangeOK
<1>3. CASE UNCHANGED vars
  BY <1>2, <1>3 DEF RangeOK, next, vars, threadVars, keyVars
<1>4. CASE Main \/ ReportStatus \/ Terminator
  <2>1. index' = index /\ limit' = limit /\ counter' = counter /\ dotransactions' = dotransactions
    BY <1>4, ThreadsStay DEF keyVars
  <2>2. \A t \in Threads : pc[t] = "move" <=> pc'[t] = "move"
    BY <1>4, StartStep
  <2>3. next' = next
    BY <2>1, <2>2 DEF next
  <2>. QED  BY <1>2, <2>1, <2>3 DEF RangeOK
<1>5. ASSUME NEW t \in Threads, Thread(t)
      PROVE  Goal
  <2>1. dotransactions' = dotransactions
    BY <1>5, OthersStay
  <2>2. CASE TakeSlot(t)
    <3>1. index' = index + 1 /\ limit' = limit /\ counter' = counter
      BY <2>2 DEF TakeSlot
    <3>2. next' = next + 1 /\ index < counter /\ index = next
      BY <1>1, <1>5, <2>2, NextStep, TakesNext
    <3>. QED  BY <1>2, <2>1, <3>1, <3>2 DEF RangeOK
  <2>3. CASE StopMoving(t)
    <3>1. index' = index /\ limit' = index - 1 /\ counter' = counter
      BY <2>3 DEF StopMoving, LastTaken
    <3>2. next' = next /\ next = index
      <4>1. ~TakeSlot(t)
        BY <2>3, Moves
      <4>. QED  BY <1>1, <1>5, <2>3, <4>1, NextStep
    <3>. QED  BY <1>2, <2>1, <3>1, <3>2 DEF RangeOK
  <2>4. CASE ~TakeSlot(t) /\ ~StopMoving(t)
    <3>1. next' = next
      BY <1>1, <1>5, <2>4, NextStep
    <3>2. limit' = limit /\ (index' = index \/ index' = limit + 1)
      BY <1>5, <2>4 DEF Thread, Acknowledge, EndThread, DoTransaction, DoInsert, QueueChosen, QueueNew,
       TooMany, TestSlot, MarkSlot, TryLock, Unlock, Full, Commit, PutAll, GetAll, Clear, keyVars
    <3>3. counter' = counter \/ counter' = counter + 1
      BY <1>5, <2>4 DEF Thread, Acknowledge, EndThread, DoTransaction, DoInsert, QueueChosen, QueueNew,
       TooMany, TestSlot, MarkSlot, TryLock, Unlock, Full, Commit, PutAll, GetAll, Clear, keyVars,
       QueueInsert, Incremented
    <3>. QED  BY <1>2, <2>1, <3>1, <3>2, <3>3 DEF RangeOK
  <2>. HIDE DEF Goal
  <2>. QED  BY <2>2, <2>3, <2>4
<1>. QED  BY <1>3, <1>4, <1>5 DEF Next

\* What else a thread does to the generator.
LEMMA WindowFrame ==
    ASSUME TypeOK, NEW t \in Threads, Thread(t), ~TakeSlot(t), ~MarkSlot(t), ~QueueNew(t), ~DoInsert(t)
    PROVE  /\ counter' = counter /\ window' = window /\ keynum' = keynum
           /\ ~TestSlot(t) => pc'[t] # "mark" /\ (pc'[t] = "acknowledge" <=> pc[t] = "acknowledge")
                              /\ pc[t] # "mark"
<1>1. counter' = counter /\ window' = window /\ keynum' = keynum
  BY DEF Thread, Acknowledge, EndThread, DoTransaction, QueueChosen,
     TooMany, TestSlot, TryLock, StopMoving, Unlock, Full, Commit, PutAll, GetAll, Clear, keyVars, threadVars
<1>2. \A q : AfterPut(q) \in {"get_all", "clear"}
  BY DEF AfterPut
<1>. QED  BY <1>1, <1>2, Moves DEF Thread, Acknowledge

\* Keys wait unmarked near the end of all keys, each with one thread and a slot
\* of its own.
LEMMA UnmarkedStep ==
    ASSUME TypeOK, MainOK, QueuedOK, WindowOK, [Next]_vars
    PROVE  UnmarkedOK'
<1>1. LockOK /\ RangeOK /\ UnmarkedOK
  BY DEF WindowOK
<1>2. /\ counter \in Nat /\ next \in Int /\ next <= counter /\ WINDOW_SIZE \in Nat \ {0}
      /\ \A t \in Threads : keynum[t] \in Nat
  BY <1>1, WindowTypes DEF RangeOK
<1>3. /\ \A t \in Threads : pc[t] \in {"acknowledge", "mark"} =>
            next <= keynum[t] /\ keynum[t] < counter /\ counter <= keynum[t] + WINDOW_SIZE
      /\ \A t, u \in Threads : pc[t] \in {"acknowledge", "mark"} /\ pc[u] \in {"acknowledge", "mark"}
                               /\ keynum[t] = keynum[u] => t = u
      /\ \A t \in Threads : pc[t] = "mark" => Slot(keynum[t]) \notin window
  BY <1>1 DEF UnmarkedOK, Unmarked
<1>4. ASSUME next' = next, counter' = counter, keynum' = keynum,
             \A t \in Threads : pc'[t] \in {"acknowledge", "mark"} => pc[t] \in {"acknowledge", "mark"},
             \A t \in Threads : pc'[t] = "mark" => Slot(keynum[t]) \notin window'
      PROVE  UnmarkedOK'
  BY <1>3, <1>4 DEF UnmarkedOK, Unmarked, Slot
<1>5. CASE UNCHANGED vars
  BY <1>3, <1>4, <1>5 DEF next, vars, threadVars, keyVars
<1>6. CASE Main \/ ReportStatus \/ Terminator
  <2>1. index' = index /\ limit' = limit /\ counter' = counter /\ keynum' = keynum /\ window' = window
    BY <1>6, ThreadsStay DEF keyVars
  <2>2. \A t \in Threads : pc[t] = pc'[t] \/ (pc[t] = "new" /\ pc'[t] = "loop")
    BY <1>6, StartStep
  <2>3. next' = next
    BY <2>1, <2>2 DEF next
  <2>. QED  BY <1>3, <1>4, <2>1, <2>2, <2>3
<1>7. ASSUME NEW t \in Threads, Thread(t)
      PROVE  UnmarkedOK'
  <2>1. \A u \in Threads \ {t} : pc'[u] = pc[u] /\ keynum'[u] = keynum[u]
    BY <1>7, OthersStay
  <2>2. CASE TakeSlot(t)
    <3>1. counter' = counter /\ keynum' = keynum /\ pc' = pc /\ window' \subseteq window
      BY <2>2 DEF TakeSlot, threadVars
    <3>2. next' = next + 1 /\ Marked(next)
      BY <1>1, <1>7, <2>2, NextStep, TakesNext
    <3>3. \A u \in Threads : pc[u] \in {"acknowledge", "mark"} => next' <= keynum[u]
      BY <1>2, <1>3, <3>2 DEF Marked, Unmarked
    <3>. QED  BY <1>3, <3>1, <3>3 DEF UnmarkedOK, Unmarked, Slot
  <2>3. CASE MarkSlot(t)
    <3>1. counter' = counter /\ keynum' = keynum /\ window' = window \cup {Slot(keynum[t])}
      BY <2>3 DEF MarkSlot
    <3>2. pc[t] = "mark" /\ pc'[t] = "lock"
      BY <2>3, Moves
    <3>3. next' = next
      BY <1>1, <1>7, <3>2, NextStep, Moves
    <3>4. ASSUME NEW u \in Threads, pc'[u] = "mark"
          PROVE  Slot(keynum[u]) \notin window'
      <4>1. u # t /\ pc[u] = "mark"
        BY <2>1, <3>2, <3>4
      <4>2. keynum[u] # keynum[t]
        BY <1>3, <3>2, <4>1
      <4>3. keynum[u] < keynum[t] + WINDOW_SIZE /\ keynum[t] < keynum[u] + WINDOW_SIZE
        BY <1>2, <1>3, <3>2, <4>1
      <4>4. Slot(keynum[u]) # Slot(keynum[t])
        BY <1>2, <4>2, <4>3, NearSlots
      <4>. QED  BY <1>3, <3>1, <4>1, <4>4
    <3>5. \A u \in Threads : pc'[u] \in {"acknowledge", "mark"} => pc[u] \in {"acknowledge", "mark"}
      BY <2>1, <3>2
    <3>. QED  BY <1>4, <3>1, <3>3, <3>4, <3>5
  <2>4. CASE TestSlot(t)
    <3>1. counter' = counter /\ keynum' = keynum /\ window' = window /\ Slot(keynum[t]) \notin window
      BY <2>4 DEF TestSlot, keyVars
    <3>2. pc[t] = "acknowledge"
      BY <2>4, Moves
    <3>3. next' = next
      BY <1>1, <1>7, <3>2, NextStep, Moves
    <3>. QED  BY <1>3, <1>4, <2>1, <3>1, <3>2, <3>3
  <2>5. CASE QueueNew(t)
    <3>1. counter' = counter + 1 /\ window' = window /\ KeepsUp(counter)
      BY <2>5 DEF QueueNew, QueueInsert, Incremented
    <3>2. keynum'[t] = counter
      BY <2>5 DEF QueueNew, QueueInsert, TypeOK
    <3>3. pc[t] = "queue" /\ pc'[t] = "acknowledge"
      BY <2>5, Moves
    <3>4. next' = next
      BY <1>1, <1>7, <3>3, NextStep, Moves
    <3>5. \A u \in Threads \ {t} : pc'[u] \in {"acknowledge", "mark"} =>
             next <= keynum[u] /\ keynum[u] < counter /\ counter + 1 <= keynum[u] + WINDOW_SIZE
      BY <1>2, <1>3, <2>1, <3>1 DEF KeepsUp
    <3>6. \A u \in Threads : pc'[u] \in {"acknowledge", "mark"} =>
             next' <= keynum'[u] /\ keynum'[u] < counter' /\ counter' <= keynum'[u] + WINDOW_SIZE
      BY <1>2, <2>1, <3>1, <3>2, <3>4, <3>5
    <3>7. ASSUME NEW u \in Threads, NEW v \in Threads, keynum'[u] = keynum'[v],
                 pc'[u] \in {"acknowledge", "mark"}, pc'[v] \in {"acknowledge", "mark"}
          PROVE  u = v
      BY <1>2, <1>3, <2>1, <3>2, <3>3, <3>5, <3>7
    <3>8. \A u \in Threads : pc'[u] = "mark" => Slot(keynum'[u]) \notin window'
      BY <1>3, <2>1, <3>1, <3>3
    <3>. QED  BY <3>6, <3>7, <3>8 DEF UnmarkedOK, Unmarked, Slot
  <2>6. CASE DoInsert(t)
    <3>1. \A u \in Threads : pc'[u] \notin {"acknowledge", "mark"}
      BY <2>1, <2>6, Moves DEF DoInsert, QueuedOK, Acknowledging
    <3>. QED  BY <3>1 DEF UnmarkedOK, Unmarked
  <2>7. CASE ~TakeSlot(t) /\ ~MarkSlot(t) /\ ~TestSlot(t) /\ ~QueueNew(t) /\ ~DoInsert(t)
    <3>1. /\ counter' = counter /\ window' = window /\ keynum' = keynum
          /\ pc'[t] # "mark" /\ (pc'[t] = "acknowledge" <=> pc[t] = "acknowledge")
      BY <1>7, <2>7, WindowFrame
    <3>2. next' = next
      BY <1>1, <1>7, <2>7, NextStep
    <3>. QED  BY <1>3, <1>4, <2>1, <3>1, <3>2
  <2>. QED  BY <2>2, <2>3, <2>4, <2>5, <2>6, <2>7
<1>. QED  BY <1>5, <1>6, <1>7 DEF Next

\* The slots that are set are those of the keys that are marked and not taken,
\* one slot for each.
LEMMA SlotsStep ==
    ASSUME TypeOK, MainOK, QueuedOK, WindowOK, [Next]_vars
    PROVE  SlotsOK'
<1>. DEFINE N == next..(counter - 1)
            Mk(n) == \A u \in Threads : pc[u] \in {"acknowledge", "mark"} => keynum[u] # n
            Mk2(n) == \A u \in Threads : pc'[u] \in {"acknowledge", "mark"} => keynum'[u] # n
<1>1. LockOK /\ RangeOK /\ UnmarkedOK /\ SlotsOK
  BY DEF WindowOK
<1>2. /\ counter \in Nat /\ next \in Int /\ limit < next /\ next <= counter /\ limit \in Int /\ -1 <= limit
      /\ WINDOW_SIZE \in Nat \ {0} /\ \A u \in Threads : keynum[u] \in Nat
  BY <1>1, WindowTypes DEF RangeOK
<1>3. next \in Nat /\ N \subseteq Nat
  BY <1>2
<1>4. ASSUME dotransactions
      PROVE  /\ \A x : x \in window <=> \E n \in N : Mk(n) /\ x = Slot(n)
             /\ \A m, n \in N : Mk(m) /\ Mk(n) /\ Slot(m) = Slot(n) => m = n
  BY <1>1, <1>4 DEF SlotsOK, Marked, Unmarked
<1>5. dotransactions' = dotransactions
  <2>1. ASSUME NEW t \in Threads, Thread(t)
        PROVE  dotransactions' = dotransactions
    BY <2>1, OthersStay
  <2>. QED  BY <2>1, ThreadsStay DEF Next, vars
<1>6. SUFFICES ASSUME dotransactions
               PROVE  /\ \A x : x \in window' <=> \E n \in next'..(counter' - 1) : Mk2(n) /\ x = Slot(n)
                      /\ \A m, n \in next'..(counter' - 1) : Mk2(m) /\ Mk2(n) /\ Slot(m) = Slot(n) => m = n
  <2>. DEFINE N2 == next'..(counter' - 1)
  <2>1. /\ \A n : Marked(n)' <=> Mk2(n)
        /\ \A n : Slot(n)' = Slot(n)
    BY DEF Marked, Unmarked, Slot
  <2>2. SlotsOK' <=> (dotransactions' => /\ window' = {Slot(n) : n \in {m \in N2 : Mk2(m)}}
                                         /\ \A m, n \in N2 : Mk2(m) /\ Mk2(n) /\ Slot(m) = Slot(n) => m = n)
    BY <2>1 DEF SlotsOK
  <2>. HIDE DEF Mk2, N2
  <2>3. ASSUME \A x : x \in window' <=> \E n \in N2 : Mk2(n) /\ x = Slot(n)
        PROVE  window' = {Slot(n) : n \in {m \in N2 : Mk2(m)}}
    BY <2>3
  <2>. QED  BY <1>5, <2>2, <2>3 DEF N2
<1>7. ASSUME next' = next, counter' = counter, window' = window, \A n : Mk2(n) <=> Mk(n)
      PROVE  /\ \A x : x \in window' <=> \E n \in next'..(counter' - 1) : Mk2(n) /\ x = Slot(n)
             /\ \A m, n \in next'..(counter' - 1) : Mk2(m) /\ Mk2(n) /\ Slot(m) = Slot(n) => m = n
  <2>. HIDE DEF Mk, Mk2
  <2>. QED  BY <1>4, <1>6, <1>7
<1>8. CASE UNCHANGED vars
  <2>1. next' = next /\ counter' = counter /\ window' = window /\ \A n : Mk2(n) <=> Mk(n)
    BY <1>8 DEF next, vars, threadVars, keyVars
  <2>. HIDE DEF Mk, Mk2
  <2>. QED  BY <1>7, <2>1
<1>9. CASE Main \/ ReportStatus \/ Terminator
  <2>1. index' = index /\ limit' = limit /\ counter' = counter /\ keynum' = keynum /\ window' = window
    BY <1>9, ThreadsStay DEF keyVars
  <2>2. \A t \in Threads : pc[t] = pc'[t] \/ (pc[t] = "new" /\ pc'[t] = "loop")
    BY <1>9, StartStep
  <2>3. next' = next /\ \A n : Mk2(n) <=> Mk(n)
    BY <2>1, <2>2 DEF next
  <2>. HIDE DEF Mk, Mk2
  <2>. QED  BY <1>7, <2>1, <2>3
<1>10. ASSUME NEW t \in Threads, Thread(t)
       PROVE  /\ \A x : x \in window' <=> \E n \in next'..(counter' - 1) : Mk2(n) /\ x = Slot(n)
              /\ \A m, n \in next'..(counter' - 1) : Mk2(m) /\ Mk2(n) /\ Slot(m) = Slot(n) => m = n
  <2>1. \A u \in Threads \ {t} : pc'[u] = pc[u] /\ keynum'[u] = keynum[u]
    BY <1>10, OthersStay
  <2>2. CASE TakeSlot(t)
    <3>1. counter' = counter /\ keynum' = keynum /\ pc' = pc /\ window' = window \ {Slot(index)}
      BY <2>2 DEF TakeSlot, threadVars
    <3>2. next' = next + 1 /\ index = next /\ next < counter
      BY <1>1, <1>10, <2>2, NextStep, TakesNext
    <3>3. Mk(next) /\ \A n : Mk2(n) <=> Mk(n)
      BY <2>2, <3>1, <3>2, TakesNext DEF Marked, Unmarked
    <3>. HIDE DEF Mk, Mk2
    <3>4. \A n : n \in next'..(counter' - 1) <=> n \in N /\ n # next
      BY <1>2, <3>1, <3>2
    <3>5. next \in N
      BY <1>2, <3>2
    <3>. HIDE DEF N
    <3>. QED  BY <1>4, <1>6, <3>1, <3>2, <3>3, <3>4, <3>5
  <2>3. CASE MarkSlot(t)
    <3>. DEFINE k == keynum[t]
    <3>1. counter' = counter /\ keynum' = keynum /\ window' = window \cup {Slot(k)}
      BY <2>3 DEF MarkSlot
    <3>2. pc[t] = "mark" /\ pc'[t] = "lock"
      BY <2>3, Moves
    <3>3. next' = next
      BY <1>1, <1>10, <3>2, NextStep, Moves
    <3>4. k \in N /\ Slot(k) \notin window
      BY <1>1, <1>2, <3>2 DEF UnmarkedOK, Unmarked
    <3>5. \A n : Mk2(n) <=> Mk(n) \/ n = k
      <4>1. \A u \in Threads : pc[u] \in {"acknowledge", "mark"} /\ keynum[u] = k => u = t
        BY <1>1, <3>2 DEF UnmarkedOK, Unmarked
      <4>. QED  BY <2>1, <3>1, <3>2, <4>1
    <3>. HIDE DEF Mk, Mk2, k
    <3>6. next'..(counter' - 1) = N
      BY <3>1, <3>3
    <3>. HIDE DEF N
    <3>7. \A x : x \in window' <=> \E n \in N : Mk2(n) /\ x = Slot(n)
      BY <1>4, <1>6, <3>1, <3>4, <3>5
    <3>8. \A n \in N : Mk(n) => Slot(n) # Slot(k)
      BY <1>4, <1>6, <3>4
    <3>9. \A m, n \in N : Mk2(m) /\ Mk2(n) /\ Slot(m) = Slot(n) => m = n
      BY <1>4, <1>6, <3>5, <3>8
    <3>. QED  BY <3>6, <3>7, <3>9
  <2>4. CASE QueueNew(t)
    <3>1. counter' = counter + 1 /\ window' = window
      BY <2>4 DEF QueueNew, QueueInsert, Incremented
    <3>2. keynum'[t] = counter
      BY <2>4 DEF QueueNew, QueueInsert, TypeOK
    <3>3. pc[t] = "queue" /\ pc'[t] = "acknowledge"
      BY <2>4, Moves
    <3>4. next' = next
      BY <1>1, <1>10, <3>3, NextStep, Moves
    <3>5. ~Mk2(counter) /\ \A n \in N : Mk2(n) <=> Mk(n)
      <4>1. \A n \in N : n # counter
        BY <1>2
      <4>. QED  BY <2>1, <3>2, <3>3, <4>1
    <3>. HIDE DEF Mk, Mk2
    <3>6. \A n : n \in next'..(counter' - 1) <=> n \in N \/ n = counter
      BY <1>2, <3>1, <3>4
    <3>. HIDE DEF N
    <3>. QED  BY <1>4, <1>6, <3>1, <3>5, <3>6
  <2>5. CASE TestSlot(t)
    <3>1. counter' = counter /\ window' = window /\ keynum' = keynum
      BY <2>5 DEF TestSlot, keyVars
    <3>2. pc[t] = "acknowledge" /\ pc'[t] = "mark"
      BY <2>5, Moves
    <3>3. next' = next
      BY <1>1, <1>10, <3>2, NextStep, Moves
    <3>4. \A n : Mk2(n) <=> Mk(n)
      BY <2>1, <3>1, <3>2
    <3>. HIDE DEF Mk, Mk2
    <3>. QED  BY <1>7, <3>1, <3>3, <3>4
  <2>6. CASE ~TakeSlot(t) /\ ~MarkSlot(t) /\ ~TestSlot(t) /\ ~QueueNew(t)
    <3>1. ~DoInsert(t)
      BY <1>6 DEF DoInsert
    <3>2. /\ counter' = counter /\ window' = window /\ keynum' = keynum
          /\ pc'[t] # "mark" /\ (pc'[t] = "acknowledge" <=> pc[t] = "acknowledge") /\ pc[t] # "mark"
      BY <1>10, <2>6, <3>1, WindowFrame
    <3>3. next' = next
      BY <1>1, <1>10, <2>6, NextStep
    <3>4. \A n : Mk2(n) <=> Mk(n)
      BY <2>1, <3>2
    <3>. HIDE DEF Mk, Mk2
    <3>. QED  BY <1>7, <3>2, <3>3, <3>4
  <2>. QED  BY <2>2, <2>3, <2>4, <2>5, <2>6
<1>. HIDE DEF Mk, Mk2
<1>. QED  BY <1>8, <1>9, <1>10 DEF Next

-----------------------------------------------------------------------------
(* Types *)

\* What main, the status thread and the terminator hold.
LEMMA MainTypes ==
    ASSUME TypeOK, [Next]_vars
    PROVE  /\ dotransactions' \in BOOLEAN /\ stopRequested' \in BOOLEAN
           /\ main' \in [at : {"init", "start", "terminator", "join", "cleanup", "interrupt",
                               "status", "exited"}, thread : Threads]
           /\ status' \in {"none", "alive", "ended"}
           /\ terminator' \in {"none", "new", "asleep", "joining", "ended"}
           /\ handler' \in [Threads -> {"none", "connected", "destructed"}]
<1>. DEFINE At == {"init", "start", "terminator", "join", "cleanup", "interrupt", "status", "exited"}
            Goal == /\ dotransactions' \in BOOLEAN /\ stopRequested' \in BOOLEAN
                    /\ main' \in [at : At, thread : Threads]
                    /\ status' \in {"none", "alive", "ended"}
                    /\ terminator' \in {"none", "new", "asleep", "joining", "ended"}
                    /\ handler' \in [Threads -> {"none", "connected", "destructed"}]
<1>1. /\ dotransactions \in BOOLEAN /\ stopRequested \in BOOLEAN
      /\ main \in [at : At, thread : Threads]
      /\ status \in {"none", "alive", "ended"}
      /\ terminator \in {"none", "new", "asleep", "joining", "ended"}
      /\ handler \in [Threads -> {"none", "connected", "destructed"}]
  BY DEF TypeOK
<1>2. ASSUME NEW l \in At, NextThread(l)
      PROVE  main' \in [at : At, thread : Threads]
  <2>1. ThreadCount \in Nat \ {0} /\ Threads = 1..ThreadCount
    BY Constants DEF Threads
  <2>. QED  BY <1>1, <1>2, <2>1 DEF NextThread
<1>3. CASE UNCHANGED vars
  BY <1>1, <1>3 DEF vars, mainVars
<1>4. CASE InitDB \/ Start \/ Join \/ Cleanup
  <2>1. main' \in [at : At, thread : Threads]
    BY <1>2, <1>4 DEF InitDB, Start, Join, Cleanup
  <2>. QED  BY <1>1, <1>4, <2>1 DEF InitDB, Start, Join, Cleanup
<1>5. CASE StartTerminator \/ Interrupt \/ Exit
  BY <1>1, <1>5 DEF StartTerminator, Interrupt, Exit
<1>6. CASE ReportStatus \/ Terminator
  BY <1>1, <1>6 DEF ReportStatus, Terminator, RequestStop, TerminatorJoin
<1>7. ASSUME NEW t \in Threads, Thread(t)
      PROVE  Goal
  <2>1. /\ dotransactions' = dotransactions /\ status' = status /\ terminator' = terminator
        /\ stopRequested' = stopRequested /\ handler' = handler
        /\ main' = main \/ main' = [main EXCEPT !.at = "exited"]
    BY <1>7, OthersStay
  <2>. QED  BY <1>1, <2>1
<1>. HIDE DEF Goal
<1>8. Goal
  BY <1>3, <1>4, <1>5, <1>6, <1>7 DEF Next, Main, Goal
<1>. QED  BY <1>8 DEF Goal

\* The counter leaves a key for every insert.
LEMMA CounterStays ==
    ASSUME TypeOK, QueuedOK, SharesOK, CounterOK, [Next]_vars
    PROVE  counter' \in 0..(LastKey + 1)
<1>1. counter \in Int /\ dotransactions \in BOOLEAN
  BY WindowTypes DEF TypeOK
<1>2. CounterOK'
  BY CounterStep
<1>3. dotransactions' \in BOOLEAN
  BY MainTypes
<1>4. counter' = counter \/ counter' = counter + 1
  <2>1. ASSUME NEW t \in Threads, Thread(t)
        PROVE  counter' = counter \/ counter' = counter + 1
    BY <2>1, UsedStep
  <2>. QED  BY <2>1, ThreadsStay DEF Next, vars, keyVars
<1>5. (counter \in Int)' /\ (dotransactions \in BOOLEAN)'
  BY <1>1, <1>3, <1>4
<1>6. (counter \in 0..(LastKey + 1))'
  BY <1>2, <1>5, CounterBound, PTL
<1>. QED  BY <1>6

\* What the threads hold.
LEMMA ThreadTypes ==
    ASSUME TypeOK, QueuedOK, SharesOK, CounterOK, MainOK, [Next]_vars
    PROVE  /\ pc' \in [Threads -> {"new", "loop", "queue", "acknowledge", "mark", "lock", "move",
                                   "unlock", "commit", "put_all", "get_all", "clear", "ended"}]
           /\ op' \in [Threads -> Operations \cup {"none"}]
           /\ keynum' \in [Threads -> Keys]
           /\ queued' \in [Threads -> [put_num : 0..TransactionLength, get_num : 0..TransactionLength,
                                       write_set : SUBSET Keys, read_set : SUBSET Keys]]
           /\ loaded' \subseteq Keys
<1>. DEFINE L == {"new", "loop", "queue", "acknowledge", "mark", "lock", "move",
                  "unlock", "commit", "put_all", "get_all", "clear", "ended"}
            O == Operations \cup {"none"}
            Q == [put_num : 0..TransactionLength, get_num : 0..TransactionLength,
                  write_set : SUBSET Keys, read_set : SUBSET Keys]
            Goal == /\ pc' \in [Threads -> L] /\ op' \in [Threads -> O] /\ keynum' \in [Threads -> Keys]
                    /\ queued' \in [Threads -> Q] /\ loaded' \subseteq Keys
<1>1. /\ pc \in [Threads -> L] /\ op \in [Threads -> O] /\ keynum \in [Threads -> Keys]
      /\ queued \in [Threads -> Q] /\ loaded \subseteq Keys
  BY DEF TypeOK
<1>2. CASE UNCHANGED vars
  BY <1>1, <1>2 DEF vars, threadVars
<1>3. CASE Main \/ ReportStatus \/ Terminator
  <2>1. op' = op /\ keynum' = keynum /\ queued' = queued /\ loaded' = loaded /\ (pc' = pc \/ Start)
    BY <1>3, ThreadsStay
  <2>2. Start => pc' \in [Threads -> L]
    BY <1>1 DEF Start, Goto
  <2>. QED  BY <1>1, <2>1, <2>2
<1>4. ASSUME NEW t \in Threads, Thread(t)
      PROVE  Goal
  <2>1. pc' \in [Threads -> L]
    <3>1. ASSUME NEW l \in L, Goto(t, l)
          PROVE  pc' \in [Threads -> L]
      BY <1>1, <3>1 DEF Goto
    <3>2. pc' = pc => pc' \in [Threads -> L]
      BY <1>1
    <3>3. \A q : AfterPut(q) \in {"get_all", "clear"}
      BY DEF AfterPut
    <3>. HIDE DEF L
    <3>4. {"ended", "loop", "queue", "commit", "acknowledge", "mark", "lock", "move", "unlock", "put_all",
           "get_all", "clear"} \subseteq L
      BY DEF L
    <3>. QED  BY <1>4, <3>1, <3>2, <3>3, <3>4 DEF Thread, Acknowledge, EndThread, DoTransaction, DoInsert,
              QueueChosen, QueueNew, QueueInsert, TooMany, TestSlot, MarkSlot, TryLock, TakeSlot, StopMoving,
              Unlock, Full, Commit, PutAll, GetAll, Clear, threadVars
  <2>2. op' \in [Threads -> O]
    <3>1. op' = op \/ \E o \in O : op' = [op EXCEPT ![t] = o]
      BY <1>4 DEF Thread, Acknowledge, EndThread, DoTransaction, DoInsert,
         QueueChosen, QueueNew, TooMany, TestSlot, MarkSlot, TryLock, TakeSlot, StopMoving,
         Unlock, Full, Commit, PutAll, GetAll, Clear, threadVars, Operations
    <3>. QED  BY <1>1, <3>1
  <2>3. DoInsert(t) \/ QueueNew(t) => counter \in Keys
    <3>1. DoInsert(t) \/ QueueNew(t) => counter' = counter + 1
      BY DEF DoInsert, QueueNew, QueueInsert, Incremented
    <3>2. counter \in Nat
      BY WindowTypes
    <3>. QED  BY <3>1, <3>2, CounterStays, Constants
  <2>4. keynum' \in [Threads -> Keys]
    <3>1. keynum' = keynum \/ ((DoInsert(t) \/ QueueNew(t)) /\ keynum' = [keynum EXCEPT ![t] = counter])
      BY <1>4 DEF Thread, Acknowledge, EndThread, DoTransaction, DoInsert, QueueInsert,
         QueueChosen, QueueNew, TooMany, TestSlot, MarkSlot, TryLock, TakeSlot, StopMoving,
         Unlock, Full, Commit, PutAll, GetAll, Clear, threadVars
    <3>. QED  BY <1>1, <2>3, <3>1
  <2>5. loaded' \subseteq Keys
    <3>1. loaded' = loaded \/ loaded' = loaded \cup queued[t].write_set
      BY <1>4 DEF Thread, Acknowledge, EndThread, DoTransaction, DoInsert,
         QueueChosen, QueueNew, TooMany, TestSlot, MarkSlot, TryLock, TakeSlot, StopMoving,
         Unlock, Full, Commit, PutAll, GetAll, Clear
    <3>. QED  BY <1>1, <3>1, QueuedType
  <2>6. queued' \in [Threads -> Q]
    <3>1. DOMAIN queued' = Threads /\ queued' = [u \in Threads |-> queued'[u]]
      <4>1. \A u \in Threads : \A x, f : f = [queued EXCEPT ![u] = x] => DOMAIN f = Threads /\ f = [v \in Threads |-> f[v]]
        BY <1>1
      <4>2. queued' = queued \/ QueueInsert(t, "commit") \/ QueueInsert(t, "acknowledge")
            \/ \E x : queued' = [queued EXCEPT ![t] = x]
        BY <1>4 DEF Thread, Acknowledge, EndThread, DoTransaction, DoInsert,
           QueueChosen, QueueNew, TooMany, TestSlot, MarkSlot, TryLock, TakeSlot, StopMoving,
           Unlock, Full, Commit, PutAll, GetAll, Clear, threadVars
      <4>3. ASSUME NEW l, QueueInsert(t, l)
            PROVE  DOMAIN queued' = Threads /\ queued' = [u \in Threads |-> queued'[u]]
        BY <1>1, <4>3 DEF QueueInsert
      <4>. QED  BY <1>1, <4>1, <4>2, <4>3
    <3>2. SUFFICES queued'[t] \in Q
      <4>1. \A u \in Threads \ {t} : queued'[u] = queued[u]
        BY <1>4, OthersStay
      <4>. HIDE DEF Q
      <4>. QED  BY <1>1, <3>1, <4>1
    <3>3. /\ queued[t].put_num \in 0..TransactionLength /\ queued[t].get_num \in 0..TransactionLength
          /\ queued[t].write_set \subseteq Keys /\ queued[t].read_set \subseteq Keys
          /\ TransactionLength \in Nat \ {0}
      BY QueuedType, Constants
    <3>4. HasRoom(t) => queued[t].put_num < TransactionLength /\ queued[t].get_num < TransactionLength
      BY <3>3 DEF HasRoom, numOperationsQueued
    <3>5. CASE DoInsert(t) \/ QueueNew(t)
      <4>1. queued[t].put_num < TransactionLength
        <5>1. DoInsert(t) => queued[t].put_num = 0
          BY Moves DEF QueuedOK, Busy, Empty
        <5>. QED  BY <3>3, <3>4, <3>5, <5>1 DEF QueueNew
      <4>2. queued'[t] = [put_num |-> queued[t].put_num + 1, get_num |-> queued[t].get_num,
                          write_set |-> queued[t].write_set \cup {counter},
                          read_set |-> queued[t].read_set]
        BY <3>5, InsertQueued DEF DoInsert, QueueNew
      <4>. QED  BY <2>3, <3>3, <3>5, <4>1, <4>2
    <3>6. CASE QueueChosen(t)
      <4>1. ChosenKeys \subseteq Keys
        BY WindowTypes, Constants DEF ChosenKeys
      <4>2. PICK k \in ChosenKeys :
               LET q == queued[t]
                   gets == IF op[t] = "UPDATE" THEN {} ELSE {k}
                   puts == IF op[t] = "READ" THEN {} ELSE {k}
               IN  queued' = [queued EXCEPT ![t] =
                                [put_num |-> q.put_num + (IF puts = {} THEN 0 ELSE 1),
                                 get_num |-> q.get_num + (IF gets = {} THEN 0 ELSE 1),
                                 write_set |-> q.write_set \cup puts,
                                 read_set |-> q.read_set \cup gets]]
        BY <3>6 DEF QueueChosen
      <4>. DEFINE puts == IF op[t] = "READ" THEN {} ELSE {k}
                  gets == IF op[t] = "UPDATE" THEN {} ELSE {k}
      <4>3. queued'[t] = [put_num |-> queued[t].put_num + (IF puts = {} THEN 0 ELSE 1),
                          get_num |-> queued[t].get_num + (IF gets = {} THEN 0 ELSE 1),
                          write_set |-> queued[t].write_set \cup puts,
                          read_set |-> queued[t].read_set \cup gets]
        BY <1>1, <4>2
      <4>4. puts \subseteq Keys /\ gets \subseteq Keys
        BY <4>1
      <4>. HIDE DEF puts, gets
      <4>5. queued[t].put_num < TransactionLength /\ queued[t].get_num < TransactionLength
        BY <3>4, <3>6 DEF QueueChosen
      <4>. QED  BY <3>3, <4>3, <4>4, <4>5
    <3>7. CASE Clear(t)
      <4>1. queued'[t] = Empty
        BY <1>1, <3>7 DEF Clear, Cleared
      <4>. QED  BY <3>3, <4>1 DEF Empty
    <3>8. queued' = queued => queued'[t] \in Q
      BY <1>1
    <3>9. DoInsert(t) \/ QueueNew(t) \/ QueueChosen(t) \/ Clear(t) \/ queued' = queued
      BY <1>4 DEF Thread, Acknowledge, EndThread, DoTransaction, TooMany, TestSlot, MarkSlot,
         TryLock, TakeSlot, StopMoving, Unlock, Full, Commit, PutAll, GetAll, threadVars
    <3>. QED  BY <3>5, <3>6, <3>7, <3>8, <3>9
  <2>. QED  BY <2>1, <2>2, <2>4, <2>5, <2>6
<1>. HIDE DEF Goal
<1>5. Goal
  BY <1>2, <1>3, <1>4 DEF Next, Goal
<1>. QED  BY <1>5 DEF Goal

\* Every variable keeps its type.
LEMMA TypesStep ==
    ASSUME IInv, [Next]_vars
    PROVE  TypeOK'
<1>1. TypeOK /\ MainOK /\ QueuedOK /\ SharesOK /\ CounterOK /\ WindowOK
  BY DEF IInv
<1>2. dotransactions' = dotransactions
  <2>1. ASSUME NEW t \in Threads, Thread(t)
        PROVE  dotransactions' = dotransactions
    BY <1>1, <2>1, OthersStay
  <2>. QED  BY <2>1, ThreadsStay DEF Next, vars
<1>3. opcount' = opcount
  BY <1>2 DEF opcount
<1>4. opsdone' \in [Threads -> 0..opcount'] /\ \A t \in Threads : opsdone'[t] <= ThreadOpCount(t)'
  <2>1. opsdone' \in [Threads -> Nat]
        /\ \A t \in Threads : opsdone'[t] <= ThreadOpCount(t) /\ ThreadOpCount(t)' = ThreadOpCount(t)
    BY <1>1, SharesStep
  <2>2. opcount \in Nat /\ \A t \in Threads : ThreadOpCount(t) \in Nat /\ ThreadOpCount(t) <= opcount
    BY Constants, ShareType
  <2>3. \A t \in Threads : opsdone'[t] \in 0..opcount
    BY <2>1, <2>2
  <2>. QED  BY <1>3, <2>1, <2>3
<1>5. latch' \in 0..ThreadCount
  BY <1>1, LatchStep
<1>6. counter' \in 0..(LastKey + 1)
  BY <1>1, CounterStays
<1>7. limit' \in -1..LastKey /\ index' \in 0..(LastKey + 1)
  <2>1. RangeOK' /\ index' \in Int /\ limit' \in Int /\ -1 <= limit'
    BY <1>1, RangeStep
  <2>2. 0 <= index' /\ index' <= counter' /\ limit' < next' /\ next' <= counter'
    BY <2>1 DEF RangeOK
  <2>3. next' \in Int
    BY <2>1 DEF next
  <2>4. LastKey \in Nat
    BY Constants
  <2>. QED  BY <1>6, <2>1, <2>2, <2>3, <2>4
<1>8. window' \subseteq Slots
  <2>1. ASSUME NEW t \in Threads, Thread(t)
        PROVE  window' \subseteq window \cup {Slot(keynum[t])}
    BY <2>1 DEF Thread, Acknowledge, EndThread, DoTransaction, DoInsert,
       QueueChosen, QueueNew, TooMany, TestSlot, MarkSlot, TryLock, TakeSlot, StopMoving,
       Unlock, Full, Commit, PutAll, GetAll, Clear, keyVars
  <2>2. window \subseteq Slots /\ \A t \in Threads : Slot(keynum[t]) \in Slots
    <3>1. window \subseteq Slots
      BY <1>1 DEF TypeOK
    <3>. QED  BY <1>1, <3>1, WindowTypes
  <2>3. window' = window \/ \E t \in Threads : Thread(t)
    BY ThreadsStay DEF Next, vars, keyVars
  <2>. QED  BY <2>1, <2>2, <2>3
<1>9. lock' \in Threads \cup {NoThread}
  <2>1. ASSUME NEW t \in Threads, Thread(t)
        PROVE  lock' = lock \/ lock' = t \/ lock' = NoThread
    BY <2>1 DEF Thread, Acknowledge, EndThread, DoTransaction, DoInsert,
       QueueChosen, QueueNew, TooMany, TestSlot, MarkSlot, TryLock, TakeSlot, StopMoving,
       Unlock, Full, Commit, PutAll, GetAll, Clear, keyVars
  <2>2. lock \in Threads \cup {NoThread}
    BY <1>1 DEF TypeOK
  <2>3. lock' = lock \/ \E t \in Threads : Thread(t)
    BY ThreadsStay DEF Next, vars, keyVars
  <2>. QED  BY <2>1, <2>2, <2>3
<1>10. Max(Keys) = LastKey
  BY Constants
<1>11. counter' \in 0..(Max(Keys) + 1) /\ limit' \in -1..Max(Keys) /\ index' \in 0..(Max(Keys) + 1)
  BY <1>6, <1>7, <1>10
<1>12. /\ dotransactions' \in BOOLEAN /\ stopRequested' \in BOOLEAN
       /\ main' \in [at : {"init", "start", "terminator", "join", "cleanup", "interrupt",
                           "status", "exited"}, thread : Threads]
       /\ status' \in {"none", "alive", "ended"}
       /\ terminator' \in {"none", "new", "asleep", "joining", "ended"}
       /\ handler' \in [Threads -> {"none", "connected", "destructed"}]
  BY <1>1, MainTypes
<1>13. /\ pc' \in [Threads -> {"new", "loop", "queue", "acknowledge", "mark", "lock", "move",
                               "unlock", "commit", "put_all", "get_all", "clear", "ended"}]
       /\ op' \in [Threads -> Operations \cup {"none"}]
       /\ keynum' \in [Threads -> Keys]
       /\ queued' \in [Threads -> [put_num : 0..TransactionLength, get_num : 0..TransactionLength,
                                   write_set : SUBSET Keys, read_set : SUBSET Keys]]
       /\ loaded' \subseteq Keys
  BY <1>1, ThreadTypes
<1>. QED  BY <1>4, <1>5, <1>8, <1>9, <1>11, <1>12, <1>13, Zenon DEF TypeOK

-----------------------------------------------------------------------------
(* The inductive invariant *)

\* Nothing is generated, queued or marked in the beginning.
LEMMA InitIInv == Init => IInv
<1>. SUFFICES ASSUME Init
              PROVE  IInv
  OBVIOUS
<1>1. /\ ThreadCount \in Nat \ {0} /\ RecordCount \in Nat \ {0} /\ TransactionLength \in Nat \ {0}
      /\ LastKey \in Nat /\ RecordCount <= LastKey /\ Keys = 0..LastKey /\ Max(Keys) = LastKey
      /\ opcount \in Nat \ {0} /\ Threads = 1..ThreadCount
  BY Constants DEF Threads
<1>2. /\ dotransactions \in BOOLEAN /\ main = [at |-> "init", thread |-> 1]
      /\ status \in {"none", "alive"} /\ terminator \in {"none", "new"} /\ stopRequested = FALSE
      /\ latch = ThreadCount /\ handler = [t \in Threads |-> "none"]
      /\ pc = [t \in Threads |-> "new"] /\ opsdone = [t \in Threads |-> 0]
      /\ op = [t \in Threads |-> "none"] /\ keynum = [t \in Threads |-> 0]
      /\ queued = [t \in Threads |-> Empty] /\ loaded = {}
      /\ counter = (IF dotransactions THEN RecordCount ELSE 0) /\ limit = counter - 1
      /\ window = {} /\ lock = NoThread /\ index = 0
  BY DEF Init, FirstLimit
<1>3. TypeOK
  <2>1. Empty \in [put_num : 0..TransactionLength, get_num : 0..TransactionLength,
                   write_set : SUBSET Keys, read_set : SUBSET Keys]
    BY <1>1 DEF Empty
  <2>2. queued \in [Threads -> [put_num : 0..TransactionLength, get_num : 0..TransactionLength,
                                write_set : SUBSET Keys, read_set : SUBSET Keys]]
    BY <1>2, <2>1
  <2>3. /\ opsdone \in [Threads -> 0..opcount] /\ \A t \in Threads : opsdone[t] <= ThreadOpCount(t)
        /\ keynum \in [Threads -> Keys]
    BY <1>1, <1>2, ShareType
  <2>4. counter \in 0..(Max(Keys) + 1) /\ limit \in -1..Max(Keys) /\ index \in 0..(Max(Keys) + 1)
    BY <1>1, <1>2
  <2>5. main \in [at : {"init", "start", "terminator", "join", "cleanup", "interrupt",
                        "status", "exited"}, thread : Threads]
        /\ latch \in 0..ThreadCount
    BY <1>1, <1>2
  <2>6. /\ handler \in [Threads -> {"none", "connected", "destructed"}]
        /\ pc \in [Threads -> {"new", "loop", "queue", "acknowledge", "mark", "lock", "move",
                               "unlock", "commit", "put_all", "get_all", "clear", "ended"}]
        /\ op \in [Threads -> Operations \cup {"none"}]
    BY <1>2
  <2>7. /\ dotransactions \in BOOLEAN /\ status \in {"none", "alive", "ended"}
        /\ terminator \in {"none", "new", "asleep", "joining", "ended"} /\ stopRequested \in BOOLEAN
        /\ loaded \subseteq Keys /\ window \subseteq Slots /\ lock \in Threads \cup {NoThread}
    BY <1>2
  <2>. QED  BY <2>2, <2>3, <2>4, <2>5, <2>6, <2>7, Zenon DEF TypeOK
<1>4. MainOK
  <2>1. {t \in Threads : pc[t] # "ended"} = Threads
    BY <1>2
  <2>2. Cardinality(Threads) = ThreadCount
    BY <1>1, FS_Interval
  <2>3. \A t \in Threads : pc[t] = "new"
    BY <1>2
  <2>4. \A t \in Threads : ~(t < main.thread)
    BY <1>1, <1>2
  <2>. QED  BY <1>2, <2>1, <2>2, <2>3, <2>4 DEF MainOK, AllJoined, HandlerAlive
<1>5. QueuedOK
  BY <1>2 DEF QueuedOK, Busy, Empty, Acknowledging
<1>6. SharesOK
  BY <1>2 DEF SharesOK, Busy
<1>7. CounterOK
  <2>1. Used = {}
    <3>1. \A t \in Threads : opsdone[t] = 0 /\ queued[t].put_num = 0
      BY <1>2 DEF Empty
    <3>2. ASSUME NEW y \in Share \X (0..(Width - 1))
          PROVE  y[1][1] \in Threads /\ y[1][2] \in Nat /\ y[2] \in Nat
      BY Constants, <3>2 DEF Share
    <3>. QED  BY <3>1, <3>2 DEF Used
  <2>. QED  BY <1>1, <1>2, <2>1, FS_EmptySet DEF CounterOK
<1>8. LoadedOK
  <2>1. \A t \in Threads : queued[t].write_set = {}
    BY <1>2 DEF Empty
  <2>. QED  BY <1>2, <2>1 DEF LoadedOK
<1>9. WindowOK
  <2>1. \A t \in Threads : pc[t] = "new" /\ t # NoThread
    BY <1>1, <1>2 DEF NoThread
  <2>2. next = counter
    BY <1>1, <1>2, <2>1 DEF next
  <2>3. LockOK
    BY <1>2, <2>1 DEF LockOK
  <2>4. RangeOK
    BY <1>1, <1>2, <2>2 DEF RangeOK
  <2>5. UnmarkedOK
    BY <2>1 DEF UnmarkedOK, Unmarked
  <2>6. SlotsOK
    <3>1. next..(counter - 1) = {}
      BY <1>1, <1>2, <2>2
    <3>. QED  BY <1>2, <3>1 DEF SlotsOK
  <2>. QED  BY <2>3, <2>4, <2>5, <2>6 DEF WindowOK
<1>. QED  BY <1>3, <1>4, <1>5, <1>6, <1>7, <1>8, <1>9 DEF IInv

\* The invariant holds in all reachable states: threads, main and the
\* generator keep in step, however many threads and records there are.
THEOREM Invariance == Spec => []IInv
<1>1. IInv /\ [Next]_vars => IInv'
  <2>. SUFFICES ASSUME IInv, [Next]_vars
                PROVE  IInv'
    OBVIOUS
  <2>1. TypeOK /\ MainOK /\ QueuedOK /\ SharesOK /\ CounterOK /\ LoadedOK /\ WindowOK
    BY DEF IInv
  <2>2. TypeOK'
    BY TypesStep
  <2>3. MainOK' /\ QueuedOK' /\ SharesOK'
    BY <2>1, MainStep, QueuedStep, SharesStep
  <2>4. CounterOK' /\ LoadedOK'
    BY <2>1, CounterStep, LoadedStep
  <2>5. LockOK /\ LockOK'
    BY <2>1, LockStep DEF WindowOK
  <2>6. RangeOK' /\ UnmarkedOK' /\ SlotsOK'
    BY <2>1, RangeStep, UnmarkedStep, SlotsStep
  <2>. QED  BY <2>2, <2>3, <2>4, <2>5, <2>6 DEF IInv, WindowOK
<1>. QED  BY <1>1, InitIInv, PTL DEF Spec

\* What YCSB commits is what RAMP-Fast is proved for: a transaction that puts
\* reads only keys that it puts.
THEOREM TransactionsArePure == Spec => []PureTransactions
<1>1. IInv => PureTransactions
  <2>. SUFFICES ASSUME IInv, NEW t \in Threads, pc[t] \in {"put_all", "get_all"}, queued[t].write_set # {}
                PROVE  queued[t].read_set \subseteq queued[t].write_set
    BY DEF PureTransactions
  <2>1. op[t] \in Operations \cup {"none"} /\ op[t] # "SCAN"
    BY DEF IInv, TypeOK, QueuedOK
  <2>2. op[t] # "READ"
    BY DEF IInv, QueuedOK
  <2>3. op[t] \in {"UPDATE", "INSERT", "none"} => queued[t].read_set = {}
    BY DEF IInv, QueuedOK
  <2>4. op[t] = "READMODIFYWRITE" => queued[t].read_set = queued[t].write_set
    BY DEF IInv, QueuedOK
  <2>. QED  BY <2>1, <2>2, <2>3, <2>4 DEF Operations
<1>. QED  BY <1>1, Invariance, PTL

\* Readers are offered acknowledged keys only, for any window and any number of
\* threads that insert.
THEOREM OfferedAreAcknowledged == Spec => []LimitAcknowledged
<1>1. IInv => LimitAcknowledged
  <2>. SUFFICES ASSUME IInv, NEW n \in RecordCount..limit, Unacknowledged(n)
                PROVE  FALSE
    BY DEF LimitAcknowledged
  <2>1. TypeOK /\ RangeOK /\ UnmarkedOK
    BY DEF IInv, WindowOK
  <2>2. n < next /\ n < counter
    BY <2>1, WindowTypes DEF RangeOK
  <2>3. \A t \in Threads : Unmarked(t) => next <= keynum[t] /\ keynum[t] \in Nat
    BY <2>1, WindowTypes DEF UnmarkedOK
  <2>4. PICK t \in Threads : pc[t] \in {"acknowledge", "mark"} /\ keynum[t] = n
    BY <2>1, <2>2, WindowTypes DEF Unacknowledged
  <2>. QED  BY <2>1, <2>2, <2>3, <2>4, WindowTypes DEF Unmarked
<1>. QED  BY <1>1, Invariance, PTL

\* No thread calls a native handler that is not constructed yet or deleted.
THEOREM HandlersAreAlive == Spec => []HandlerAlive
<1>1. IInv => HandlerAlive
  BY DEF IInv, MainOK
<1>. QED  BY <1>1, Invariance, PTL

\* When the threads are joined and nobody stopped them, each has done its share.
LEMMA SharesDone ==
    ASSUME IInv, AllJoined, ~stopRequested, NEW t \in Threads
    PROVE  opsdone[t] = ThreadOpCount(t) /\ ~Busy(t) /\ pc[t] = "ended" /\ queued[t] = Empty
<1>1. pc[t] = "ended"
  BY DEF IInv, MainOK
<1>2. ~Busy(t)
  BY <1>1 DEF Busy
<1>. QED  BY <1>1, <1>2 DEF IInv, SharesOK, QueuedOK

\* The threads together have then done as many operations as were asked for,
\* whatever remainder the number of threads leaves.  YCSBAssumption gives each
\* thread at least one: a thread whose share is 0 would go on without end.
THEOREM OperationsCounted == Spec => []OperationsDone
<1>1. ASSUME IInv, AllJoined, ~stopRequested
      PROVE  Cardinality(Completed) = opcount
  <2>1. \A t \in Threads : opsdone[t] = ThreadOpCount(t)
    BY <1>1, SharesDone
  <2>2. opcount \in Nat /\ \A t \in Threads : ThreadOpCount(t) \in 0..opcount
    BY Constants, ShareType
  <2>3. ASSUME NEW t \in Threads
        PROVE  {t} \X (0..(opsdone[t] - 1)) = {x \in Share : x[1] = t}
    BY <2>1, <2>2 DEF Share
  <2>4. Completed = UNION {{x \in Share : x[1] = t} : t \in Threads}
    BY <2>3 DEF Completed
  <2>5. Completed = Share
    BY <2>4 DEF Share
  <2>. QED  BY <2>5, ShareCount
<1>2. IInv => OperationsDone
  BY <1>1 DEF OperationsDone
<1>. QED  BY <1>2, Invariance, PTL

\* A load that is not stopped puts every record and no other, if there is at least
\* one record for each thread (YCSBAssumption): a thread whose share is 0 would
\* insert without end.
THEOREM RecordsAreLoaded == Spec => []LoadsEveryRecord
<1>1. IInv => LoadsEveryRecord
  <2>. SUFFICES ASSUME IInv, AllJoined, ~stopRequested, ~dotransactions
                PROVE  loaded = 0..(RecordCount - 1)
    BY DEF LoadsEveryRecord
  <2>1. Width = 1 /\ opcount = RecordCount /\ RecordCount \in Nat
    BY Constants DEF Width, opcount
  <2>2. Used = Share \X (0..(Width - 1))
    <3>1. ASSUME NEW y \in Share \X (0..(Width - 1))
          PROVE  y[1][1] \in Threads /\ y[1][2] < opsdone[y[1][1]]
      <4>1. y[1][1] \in Threads /\ y[1][2] < ThreadOpCount(y[1][1])
        BY DEF Share
      <4>. QED  BY <4>1, SharesDone
    <3>. QED  BY <3>1 DEF Used
  <2>3. Cardinality(Used) = RecordCount
    <3>1. IsFiniteSet(0..0) /\ Cardinality(0..0) = 1
      <4>1. 0..0 = {0}
        OBVIOUS
      <4>. QED  BY <4>1, FS_Singleton
    <3>2. IsFiniteSet(Share) /\ Cardinality(Share) = RecordCount
      BY <2>1, ShareCount
    <3>3. Cardinality(Share \X (0..0)) = RecordCount * 1
      BY <3>1, <3>2, FS_Product
    <3>. QED  BY <2>1, <2>2, <3>3
  <2>4. counter = RecordCount
    BY <2>3 DEF IInv, CounterOK
  <2>5. \A t \in Threads : pc[t] \notin {"commit", "put_all"}
    BY SharesDone
  <2>. QED  BY <2>4, <2>5 DEF IInv, LoadedOK
<1>. QED  BY <1>1, Invariance, PTL
=============================================================================

----------------------------- MODULE YCSBClient -----------------------------
(***************************************************************************)
(* The YCSB client that drives the copy of the store under YCSB-0.5.0:     *)
(* Client.main with its client threads, status thread and terminator; the  *)
(* transactions of CoreWorkload; the generator of their new keys; and the  *)
(* binding, RAMPClient, down to the transaction of the native handler.     *)
(*                                                                         *)
(* put_all and get_all of the handler are RAMPFast's; here they begin and  *)
(* return.  The generator's window is read and written as if in order, but *)
(* a slot that another thread has set may be seen late: it is a plain      *)
(* array.                                                                  *)
(***************************************************************************)
EXTENDS Integers, FiniteSetsExt

CONSTANTS
    ThreadCount,         \* threadcount: threads 1 to ThreadCount
    RecordCount,         \* recordcount, and the number of inserts of a load
    OperationCount,      \* operationcount of a run
    TransactionLength,   \* txnlen
    WINDOW_SIZE          \* slots of the generator's window

ASSUME YCSBAssumption ==
    /\ ThreadCount \in Nat \ {0}
    /\ RecordCount \in Nat /\ RecordCount >= ThreadCount
    /\ OperationCount \in Nat /\ OperationCount >= ThreadCount
    /\ TransactionLength \in Nat \ {0}
    /\ WINDOW_SIZE \in Nat \ {0}

VARIABLES
    dotransactions,   \* a run, or the load that comes before it
    main,             \* where Client.main stands, and its loop's thread
    status,           \* the status thread
    terminator,       \* the terminator thread
    stopRequested,    \* Workload.stopRequested
    latch,            \* completeLatch
    handler,          \* the native handler behind a thread's RAMPClient
    \* client threads
    pc,
    opsdone,          \* ClientThread._opsdone
    op,               \* the operation of the current transaction
    keynum,           \* the key it inserts
    queued,           \* put_num and get_num of RAMPClient, the handler's sets
    loaded,           \* history: the keys that a load has put
    \* keysequence of a load or transactioninsertkeysequence of a run
    counter, limit,
    window,           \* the slots that are set
    lock, index       \* its owner, and where the owner's loop stands

mainVars == <<main, status, terminator, stopRequested>>
threadVars == <<pc, opsdone, op, keynum, queued>>
keyVars == <<counter, limit, window, lock, index>>
vars == <<dotransactions, mainVars, latch, handler, threadVars, loaded, keyVars>>

-----------------------------------------------------------------------------

Threads == 1..ThreadCount
NoThread == 0

Keys == 0..(RecordCount + OperationCount * TransactionLength - 1)
Slots == 0..(WINDOW_SIZE - 1)
Slot(n) == n % WINDOW_SIZE

Operations == {"READ", "UPDATE", "INSERT", "SCAN", "READMODIFYWRITE"}

Empty == [put_num |-> 0, get_num |-> 0, write_set |-> {}, read_set |-> {}]

\* What clear leaves; KeepsReads is the faulty variant that forgets read_set.
KeepsReads(q) == [Empty EXCEPT !.read_set = q.read_set]
Cleared(q) == Empty

\* The limit before any key is acknowledged; StartsAtNone is the faulty
\* variant that does not count the keys of the load.
StartsAtNone(countstart) == -1
FirstLimit(countstart) == countstart - 1

Init ==
    /\ dotransactions \in BOOLEAN
    /\ main = [at |-> "init", thread |-> 1]
    /\ status \in {"none", "alive"}
    /\ terminator \in {"none", "new"}
    /\ stopRequested = FALSE
    /\ latch = ThreadCount
    /\ handler = [t \in Threads |-> "none"]
    /\ pc = [t \in Threads |-> "new"]
    /\ opsdone = [t \in Threads |-> 0]
    /\ op = [t \in Threads |-> "none"]
    /\ keynum = [t \in Threads |-> 0]
    /\ queued = [t \in Threads |-> Empty]
    /\ loaded = {}
    /\ counter = IF dotransactions THEN RecordCount ELSE 0
    /\ limit = FirstLimit(counter)
    /\ window = {}
    /\ lock = NoThread
    /\ index = 0

Running == main.at # "exited"

Goto(t, l) == pc' = [pc EXCEPT ![t] = l]

-----------------------------------------------------------------------------
(* Client.main: loops over the threads, one after the other *)

NextThread(l) ==
    main' = IF main.thread < ThreadCount THEN [main EXCEPT !.thread = @ + 1]
            ELSE [at |-> l, thread |-> 1]

\* RAMPClient.init: construct and connect_all.
InitDB ==
    /\ main.at = "init"
    /\ handler' = [handler EXCEPT ![main.thread] = "connected"]
    /\ NextThread("start")
    /\ UNCHANGED <<dotransactions, status, terminator, stopRequested, latch, threadVars,
                   loaded, keyVars>>

Start ==
    /\ main.at = "start"
    /\ Goto(main.thread, "loop")
    /\ NextThread("terminator")
    /\ UNCHANGED <<dotransactions, status, terminator, stopRequested, latch, handler, opsdone,
                   op, keynum, queued, loaded, keyVars>>

StartTerminator ==
    /\ main.at = "terminator"
    /\ terminator' = IF terminator = "new" THEN "asleep" ELSE terminator
    /\ main' = [main EXCEPT !.at = "join"]
    /\ UNCHANGED <<dotransactions, status, stopRequested, latch, handler, threadVars, loaded,
                   keyVars>>

\* Thread.join; NoJoin is the faulty variant that does not wait.
NoJoin(t) == TRUE
Joined(t) == pc[t] = "ended"

Join ==
    /\ main.at = "join"
    /\ Joined(main.thread)
    /\ NextThread("cleanup")
    /\ UNCHANGED <<dotransactions, status, terminator, stopRequested, latch, handler, threadVars,
                   loaded, keyVars>>

\* RAMPClient.cleanup: close_all and destruct.
Cleanup ==
    /\ main.at = "cleanup"
    /\ handler' = [handler EXCEPT ![main.thread] = "destructed"]
    /\ NextThread("interrupt")
    /\ UNCHANGED <<dotransactions, status, terminator, stopRequested, latch, threadVars,
                   loaded, keyVars>>

\* An interrupt ends the terminator while it sleeps, not while it joins.
Interrupt ==
    /\ main.at = "interrupt"
    /\ main' = [main EXCEPT !.at = "status"]
    /\ terminator' = IF terminator = "asleep" THEN "ended" ELSE terminator
    /\ UNCHANGED <<dotransactions, status, stopRequested, latch, handler, threadVars, loaded,
                   keyVars>>

\* The status thread has been interrupted by now and is joined.
Exit ==
    /\ main.at = "status"
    /\ status # "alive"
    /\ main' = [main EXCEPT !.at = "exited"]
    /\ UNCHANGED <<dotransactions, status, terminator, stopRequested, latch, handler, threadVars,
                   loaded, keyVars>>

-----------------------------------------------------------------------------
(* StatusThread and TerminatorThread *)

ReportStatus ==
    /\ status = "alive"
    /\ latch = 0 \/ main.at = "status"
    /\ status' = "ended"
    /\ UNCHANGED <<dotransactions, main, terminator, stopRequested, latch, handler, threadVars,
                   loaded, keyVars>>

RequestStop ==
    /\ terminator = "asleep"
    /\ terminator' = "joining"
    /\ stopRequested' = TRUE
    /\ UNCHANGED <<dotransactions, main, status, latch, handler, threadVars, loaded, keyVars>>

TerminatorJoin ==
    /\ terminator = "joining"
    /\ \A t \in Threads : pc[t] = "ended"
    /\ terminator' = "ended"
    /\ UNCHANGED <<dotransactions, main, status, stopRequested, latch, handler, threadVars,
                   loaded, keyVars>>

-----------------------------------------------------------------------------
(* ClientThread.run *)

opcount == IF dotransactions THEN OperationCount ELSE RecordCount

\* threadopcount; Quotient is the faulty variant without the remainder.
Quotient(t) == opcount \div ThreadCount
ThreadOpCount(t) ==
    opcount \div ThreadCount + IF t - 1 < opcount % ThreadCount THEN 1 ELSE 0

\* The condition of the loop: a share of 0 means without end.  OneMore is the
\* faulty variant with <=.
OneMore(t) == opsdone[t] <= ThreadOpCount(t) /\ ~stopRequested
HasMore(t) ==
    (ThreadOpCount(t) = 0 \/ opsdone[t] < ThreadOpCount(t)) /\ ~stopRequested

EndThread(t) ==
    /\ pc[t] = "loop"
    /\ ~HasMore(t)
    /\ Goto(t, "ended")
    /\ latch' = latch - 1
    /\ UNCHANGED <<dotransactions, mainVars, handler, opsdone, op, keynum, queued, loaded,
                   keyVars>>

\* operationchooser.nextString.  A scan is refused and nothing is committed.
DoTransaction(t) ==
    /\ dotransactions
    /\ pc[t] = "loop"
    /\ HasMore(t)
    /\ \E o \in Operations :
        IF o = "SCAN"
        THEN /\ opsdone' = [opsdone EXCEPT ![t] = @ + 1]
             /\ UNCHANGED <<pc, op>>
        ELSE /\ op' = [op EXCEPT ![t] = o]
             /\ Goto(t, "queue")
             /\ UNCHANGED opsdone
    /\ UNCHANGED <<dotransactions, mainVars, latch, handler, keynum, queued, loaded, keyVars>>

-----------------------------------------------------------------------------
(* CoreWorkload: new keys and chosen keys *)

\* getAndIncrement; Reused is the faulty variant that gives a key out again.
Reused(n) == n
Incremented(n) == n + 1

\* A bound that 2^20 slots make a matter of course: no thread keeps a key for
\* itself while others generate WINDOW_SIZE more.
KeepsUp(n) ==
    \A t \in Threads : pc[t] \in {"acknowledge", "mark"} => n < keynum[t] + WINDOW_SIZE

\* keysequence.nextInt or transactioninsertkeysequence.nextInt, and db.insert.
QueueInsert(t, l) ==
    /\ counter' = Incremented(counter)
    /\ keynum' = [keynum EXCEPT ![t] = counter]
    /\ queued' = [queued EXCEPT ![t].put_num = @ + 1, ![t].write_set = @ \cup {counter}]
    /\ Goto(t, l)

DoInsert(t) ==
    /\ ~dotransactions
    /\ pc[t] = "loop"
    /\ HasMore(t)
    /\ QueueInsert(t, "commit")
    /\ UNCHANGED <<dotransactions, mainVars, latch, handler, opsdone, op, loaded,
                   limit, window, lock, index>>

\* nextKeynum gives some key up to the limit.  A bound: the first or the last.
ChosenKeys == {k \in {0, limit} : 0 <= k /\ k <= limit}

numOperationsQueued(q) == IF q.put_num > q.get_num THEN q.put_num ELSE q.get_num

HasRoom(t) == numOperationsQueued(queued[t]) < TransactionLength

\* db.read, db.update, or one after the other for the same key.
QueueChosen(t) ==
    /\ pc[t] = "queue"
    /\ HasRoom(t)
    /\ op[t] # "INSERT"
    /\ \E k \in ChosenKeys :
        LET q == queued[t]
            gets == IF op[t] = "UPDATE" THEN {} ELSE {k}
            puts == IF op[t] = "READ" THEN {} ELSE {k}
        IN  queued' = [queued EXCEPT ![t] =
                         [put_num |-> q.put_num + (IF puts = {} THEN 0 ELSE 1),
                          get_num |-> q.get_num + (IF gets = {} THEN 0 ELSE 1),
                          write_set |-> q.write_set \cup puts,
                          read_set |-> q.read_set \cup gets]]
    /\ UNCHANGED <<dotransactions, mainVars, latch, handler, pc, opsdone, op, keynum, loaded,
                   keyVars>>

QueueNew(t) ==
    /\ pc[t] = "queue"
    /\ HasRoom(t)
    /\ op[t] = "INSERT"
    /\ KeepsUp(counter)
    /\ QueueInsert(t, "acknowledge")
    /\ UNCHANGED <<dotransactions, mainVars, latch, handler, opsdone, op, loaded,
                   limit, window, lock, index>>

-----------------------------------------------------------------------------
(* AcknowledgedCounterGenerator.acknowledge *)

\* A slot that is still set: an exception that ends the process.
TooMany(t) ==
    /\ pc[t] = "acknowledge"
    /\ Slot(keynum[t]) \in window
    /\ main' = [main EXCEPT !.at = "exited"]
    /\ UNCHANGED <<dotransactions, status, terminator, stopRequested, latch, handler, threadVars,
                   loaded, keyVars>>

TestSlot(t) ==
    /\ pc[t] = "acknowledge"
    /\ Slot(keynum[t]) \notin window
    /\ Goto(t, "mark")
    /\ UNCHANGED <<dotransactions, mainVars, latch, handler, opsdone, op, keynum, queued, loaded,
                   keyVars>>

MarkSlot(t) ==
    /\ pc[t] = "mark"
    /\ window' = window \cup {Slot(keynum[t])}
    /\ Goto(t, "lock")
    /\ UNCHANGED <<dotransactions, mainVars, latch, handler, opsdone, op, keynum, queued, loaded,
                   counter, limit, lock, index>>

\* Whoever does not get the lock leaves its key to the owner, or to the next.
TryLock(t) ==
    /\ pc[t] = "lock"
    /\ IF lock = NoThread
       THEN /\ lock' = t
            /\ index' = limit + 1
            /\ Goto(t, "move")
       ELSE /\ Goto(t, "queue")
            /\ UNCHANGED <<lock, index>>
    /\ UNCHANGED <<dotransactions, mainVars, latch, handler, opsdone, op, keynum, queued, loaded,
                   counter, limit, window>>

\* The other bound of the loop, beforeFirstSlot, is not above limit: an index
\* that starts behind limit never meets it.
TakeSlot(t) ==
    /\ pc[t] = "move"
    /\ Slot(index) \in window
    /\ window' = window \ {Slot(index)}
    /\ index' = index + 1
    /\ UNCHANGED <<dotransactions, mainVars, latch, handler, threadVars, loaded,
                   counter, limit, lock>>

\* The limit after the loop; OffByOne is the faulty variant that counts the
\* slot at which the loop stopped.
OffByOne(n) == n
LastTaken(n) == n - 1

\* The slot is clear, or another thread set it and this one has not seen it.
StopMoving(t) ==
    /\ pc[t] = "move"
    /\ Slot(index) \in window => Slot(index) # Slot(keynum[t])
    /\ limit' = LastTaken(index)
    /\ Goto(t, "unlock")
    /\ UNCHANGED <<dotransactions, mainVars, latch, handler, opsdone, op, keynum, queued, loaded,
                   counter, window, lock, index>>

Unlock(t) ==
    /\ pc[t] = "unlock"
    /\ lock' = NoThread
    /\ Goto(t, "queue")
    /\ UNCHANGED <<dotransactions, mainVars, latch, handler, opsdone, op, keynum, queued, loaded,
                   counter, limit, window, index>>

-----------------------------------------------------------------------------
(* RAMPClient.commit *)

Full(t) ==
    /\ pc[t] = "queue"
    /\ ~HasRoom(t)
    /\ Goto(t, "commit")
    /\ UNCHANGED <<dotransactions, mainVars, latch, handler, opsdone, op, keynum, queued, loaded,
                   keyVars>>

AfterPut(q) == IF q.get_num > 0 THEN "get_all" ELSE "clear"

Commit(t) ==
    /\ pc[t] = "commit"
    /\ Goto(t, IF queued[t].put_num > 0 THEN "put_all" ELSE AfterPut(queued[t]))
    /\ UNCHANGED <<dotransactions, mainVars, latch, handler, opsdone, op, keynum, queued, loaded,
                   keyVars>>

PutAll(t) ==
    /\ pc[t] = "put_all"
    /\ loaded' = IF dotransactions THEN loaded ELSE loaded \cup queued[t].write_set
    /\ Goto(t, AfterPut(queued[t]))
    /\ UNCHANGED <<dotransactions, mainVars, latch, handler, opsdone, op, keynum, queued, keyVars>>

GetAll(t) ==
    /\ pc[t] = "get_all"
    /\ Goto(t, "clear")
    /\ UNCHANGED <<dotransactions, mainVars, latch, handler, opsdone, op, keynum, queued, loaded,
                   keyVars>>

\* commit returns OK, and the loop of run goes on.
Clear(t) ==
    /\ pc[t] = "clear"
    /\ queued' = [queued EXCEPT ![t] = Cleared(@)]
    /\ opsdone' = [opsdone EXCEPT ![t] = @ + 1]
    /\ op' = [op EXCEPT ![t] = "none"]
    /\ Goto(t, "loop")
    /\ UNCHANGED <<dotransactions, mainVars, latch, handler, keynum, loaded, keyVars>>

-----------------------------------------------------------------------------
(* The whole process *)

Main == InitDB \/ Start \/ StartTerminator \/ Join \/ Cleanup \/ Interrupt \/ Exit

Acknowledge(t) ==
    TooMany(t) \/ TestSlot(t) \/ MarkSlot(t) \/ TryLock(t) \/ TakeSlot(t) \/ StopMoving(t)
    \/ Unlock(t)

Thread(t) ==
    \/ EndThread(t) \/ DoTransaction(t) \/ DoInsert(t) \/ QueueChosen(t) \/ QueueNew(t)
    \/ Acknowledge(t)
    \/ Full(t) \/ Commit(t) \/ PutAll(t) \/ GetAll(t) \/ Clear(t)

Terminator == RequestStop \/ TerminatorJoin

Next == Running /\ (Main \/ ReportStatus \/ Terminator \/ \E t \in Threads : Thread(t))

Fairness ==
    /\ WF_vars(Running /\ Main)
    /\ WF_vars(Running /\ ReportStatus)
    /\ \A t \in Threads : WF_vars(Running /\ Thread(t))

Spec == Init /\ [][Next]_vars /\ Fairness

-----------------------------------------------------------------------------
(* Properties *)

\* Every variable stays in the set of values its code can hold.
TypeOK ==
    /\ dotransactions \in BOOLEAN
    /\ main \in [at : {"init", "start", "terminator", "join", "cleanup", "interrupt",
                       "status", "exited"}, thread : Threads]
    /\ status \in {"none", "alive", "ended"}
    /\ terminator \in {"none", "new", "asleep", "joining", "ended"}
    /\ stopRequested \in BOOLEAN
    /\ latch \in 0..ThreadCount
    /\ handler \in [Threads -> {"none", "connected", "destructed"}]
    /\ pc \in [Threads -> {"new", "loop", "queue", "acknowledge", "mark", "lock", "move",
                           "unlock", "commit", "put_all", "get_all", "clear", "ended"}]
    /\ opsdone \in [Threads -> 0..opcount]
    /\ \A t \in Threads : opsdone[t] <= ThreadOpCount(t)
    /\ op \in [Threads -> Operations \cup {"none"}]
    /\ keynum \in [Threads -> Keys]
    /\ queued \in [Threads -> [put_num : 0..TransactionLength, get_num : 0..TransactionLength,
                               write_set : SUBSET Keys, read_set : SUBSET Keys]]
    /\ loaded \subseteq Keys
    /\ counter \in 0..(Max(Keys) + 1)
    /\ limit \in -1..Max(Keys)
    /\ window \subseteq Slots
    /\ lock \in Threads \cup {NoThread}
    /\ index \in 0..(Max(Keys) + 1)

\* What YCSB commits is what the handler is made for: a transaction that puts
\* reads only keys that it puts, whatever was queued before it.  This is the
\* assumption PureTrxs of RAMPFast.
PureTransactions ==
    \A t \in Threads :
        pc[t] \in {"put_all", "get_all"} /\ queued[t].write_set # {} =>
            queued[t].read_set \subseteq queued[t].write_set

\* Keys that no thread has generated, or has generated and not marked.
Unacknowledged(n) ==
    n >= counter \/ \E t \in Threads : pc[t] \in {"acknowledge", "mark"} /\ keynum[t] = n

\* Readers are offered acknowledged keys only, although threads test and set
\* slots without the lock and the owner of the lock clears them meanwhile.
LimitAcknowledged ==
    dotransactions => \A n \in RecordCount..limit : ~Unacknowledged(n)

\* A thread calls into its native handler only after the handler has been
\* constructed and before it is deleted.
HandlerAlive ==
    \A t \in Threads :
        pc[t] \notin {"new", "ended"} => handler[t] = "connected"

AllJoined == main.at \in {"cleanup", "interrupt", "status"}

\* The operations that have been done, by their thread and their number in it.
Completed == UNION {{t} \X (0..(opsdone[t] - 1)) : t \in Threads}

\* The threads together do as many operations as they were asked for, if
\* nobody stops them.
OperationsDone ==
    AllJoined /\ ~stopRequested => Cardinality(Completed) = opcount

\* A load that is not stopped puts every record, which runs and the cache of
\* the servers take for granted.
LoadsEveryRecord ==
    AllJoined /\ ~stopRequested /\ ~dotransactions => loaded = 0..(RecordCount - 1)

\* The process exits: no key is waited for without end, and threads, latch,
\* terminator and main never wait for each other.
EventuallyExits == <>(main.at = "exited")
=============================================================================

--------------------------- MODULE YCSBClientInv ----------------------------
(***************************************************************************)
(* The inductive invariant of YCSBClient: how far the threads and main are,*)
(* how many keys they can have generated, and what the generator's window  *)
(* says about them.  YCSBClientProofs proves it.                           *)
(***************************************************************************)
EXTENDS YCSBClient

Busy(t) == pc[t] \notin {"new", "loop", "ended"}
Acknowledging == {"acknowledge", "mark", "lock", "move", "unlock"}

\* The handlers are connected before the threads start and destructed after
\* the last of them has ended.
MainOK ==
    /\ main.at = "init" => \A t \in Threads : pc[t] = "new"
                                              /\ (t < main.thread => handler[t] = "connected")
    /\ main.at \in {"start", "terminator", "join"} => \A t \in Threads : handler[t] = "connected"
    /\ main.at = "start" => \A t \in Threads : t >= main.thread => pc[t] = "new"
    /\ main.at = "terminator" => main.thread = 1
    /\ main.at = "join" => \A t \in Threads : t < main.thread => pc[t] = "ended"
    /\ AllJoined => \A t \in Threads : pc[t] = "ended"
    /\ HandlerAlive
    /\ latch = Cardinality({t \in Threads : pc[t] # "ended"})

\* What a thread has queued, by the operation of its transaction.
QueuedOK ==
    \A t \in Threads :
        LET q == queued[t]
        IN  /\ ~Busy(t) => q = Empty /\ op[t] = "none"
            /\ Busy(t) => IF dotransactions THEN op[t] # "none" ELSE op[t] = "none" /\ q.put_num = 1
            /\ pc[t] \in Acknowledging \cup {"queue"} => dotransactions
            /\ op[t] # "SCAN"
            /\ op[t] = "READ" => q.write_set = {}
            /\ op[t] \in {"UPDATE", "INSERT", "none"} => q.read_set = {}
            /\ op[t] = "READMODIFYWRITE" => q.read_set = q.write_set

\* A thread that is busy has an operation left, and one that has ended has
\* none, unless it was stopped.
SharesOK ==
    \A t \in Threads :
        /\ Busy(t) => opsdone[t] < ThreadOpCount(t)
        /\ pc[t] = "ended" => opsdone[t] = ThreadOpCount(t) \/ stopRequested

\* The operations of the threads by their numbers, and the puts that operations
\* can have used; an insert of a load is one put.
Share == {x \in Threads \X (0..(opcount - 1)) : x[2] < ThreadOpCount(x[1])}
Width == IF dotransactions THEN TransactionLength ELSE 1
Used ==
    {y \in Share \X (0..(Width - 1)) :
        LET t == y[1][1]
        IN  \/ y[1][2] < opsdone[t]
            \/ y[1][2] = opsdone[t] /\ y[2] < queued[t].put_num}

\* Every key that is generated uses a put.
CounterOK ==
    /\ dotransactions => RecordCount <= counter /\ counter - RecordCount <= Cardinality(Used)
    /\ ~dotransactions => counter = Cardinality(Used)

\* What a load has generated it has put or is about to.
LoadedOK ==
    ~dotransactions =>
        /\ loaded \subseteq 0..(counter - 1)
        /\ \A t \in Threads : queued[t].write_set \subseteq 0..(counter - 1)
        /\ \A n \in 0..(counter - 1) :
              n \in loaded \/ \E t \in Threads : pc[t] \in {"commit", "put_all"}
                                                 /\ n \in queued[t].write_set

Unmarked(t) == pc[t] \in {"acknowledge", "mark"}
Marked(n) == \A t \in Threads : Unmarked(t) => keynum[t] # n

\* The first key whose slot has not been taken.
next == IF \E t \in Threads : pc[t] = "move" THEN index ELSE limit + 1

\* The owner of the lock moves the limit.
LockOK == \A t \in Threads : lock = t <=> pc[t] \in {"move", "unlock"}

RangeOK ==
    /\ 0 <= index /\ index <= counter /\ limit < next /\ next <= counter
    /\ dotransactions => RecordCount - 1 <= limit

\* The keys that are not marked yet lie in the last WINDOW_SIZE of all.
UnmarkedOK ==
    /\ \A t \in Threads : Unmarked(t) => next <= keynum[t] /\ keynum[t] < counter
                                         /\ counter <= keynum[t] + WINDOW_SIZE
    /\ \A t, u \in Threads : Unmarked(t) /\ Unmarked(u) /\ keynum[t] = keynum[u] => t = u
    /\ \A t \in Threads : pc[t] = "mark" => Slot(keynum[t]) \notin window

\* A set slot is that of a key that is marked and not taken, and of one only.
SlotsOK ==
    dotransactions =>
        /\ window = {Slot(n) : n \in {m \in next..(counter - 1) : Marked(m)}}
        /\ \A m, n \in next..(counter - 1) :
              Marked(m) /\ Marked(n) /\ Slot(m) = Slot(n) => m = n

WindowOK == LockOK /\ RangeOK /\ UnmarkedOK /\ SlotsOK

IInv == TypeOK /\ MainOK /\ QueuedOK /\ SharesOK /\ CounterOK /\ LoadedOK /\ WindowOK
=============================================================================

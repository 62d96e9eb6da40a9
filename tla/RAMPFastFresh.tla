--------------------------- MODULE RAMPFastFresh ----------------------------
(***************************************************************************)
(* What a finished put promises to the gets that start after it.  floor    *)
(* is a history variable: the code has no counterpart.  When get_all       *)
(* starts it records, for each key, the newest timestamp among the         *)
(* transactions whose put_all has already returned.                        *)
(***************************************************************************)
EXTENDS RAMPFast

VARIABLE floor

freshVars == <<vars, floor>>

\* put_all of t has returned: t has left the queue, and no worker is in it.
PutReturned(t) ==
    /\ t \notin queue
    /\ \A w \in Workers : trx[w] = t => pc[w] \notin {"put_all", "prepare", "commit"}

NewestReturnedPut(k) ==
    Max({0} \cup {trx_ts[t] : t \in {u \in Trxs : k \in WriteSet[u] /\ PutReturned(u)}})

FreshInit ==
    /\ Init
    /\ floor = [w \in Workers |-> [k \in Keys |-> 0]]

\* Only get_all records; every other step leaves the record alone.
Record ==
    floor' = [w \in Workers |-> IF pc[w] = "get_all" /\ pc'[w] = "round1"
                                THEN [k \in Keys |-> NewestReturnedPut(k)]
                                ELSE floor[w]]

FreshNext == Next /\ Record

FreshSpec == FreshInit /\ [][FreshNext]_freshVars

FreshFairSpec == FreshSpec /\ Fairness

-----------------------------------------------------------------------------
\* A get that starts after a put has returned sees that put or a newer one,
\* on every key and in both rounds: put_all returns only when every server
\* has moved latest_commit on.
FreshReads ==
    \A w \in Workers :
        pc[w] = "returned" =>
            \A k \in ReadSet[trx[w]] : ret[w][k].ts >= floor[w][k]

\* Every transaction of the queue is run, every worker is joined and every
\* executor thread leaves its loop.
EventuallyTerminates == <>Terminated
=============================================================================

-------------------------- MODULE RAMPFastFreshInv --------------------------
(***************************************************************************)
(* The inductive invariant behind FreshReads: how far a put that is being  *)
(* committed has moved latest_commit on, what a returned put has left      *)
(* there, and what a get that is under way has seen of it.                 *)
(***************************************************************************)
EXTENDS RAMPFastFresh, RAMPFastInv

\* No two workers are committing the same key.  The code does not see to that:
\* Table::commit takes no lock.  It is what FreshReads needs of the workload.
CommitsApart ==
    \A v, w \in Workers :
        pc[v] = "commit" /\ pc[w] = "commit"
            /\ WriteSet[trx[v]] \cap WriteSet[trx[w]] # {} => v = w

\* The key the loop of commit stands at.
CurrentKey(w, s) == items[s][conn[w][s].ts][executor[w][s].i].key

\* What the comparison found still holds when the timestamp is stored.
ComparedOK ==
    \A w \in Workers, s \in Servers :
        executor[w][s].at = "set" => latest_commit[CurrentKey(w, s)] < conn[w][s].ts

\* Every server that was sent a PREPARE is in access_coms.
AccessOK ==
    \A w \in Workers :
        pc[w] = "prepare" => \A k \in WriteSet[trx[w]] \ todo[w] : ServerOf[k] \in access_coms[w]

\* A connection that send_to_all has not come to is idle.
PendingOK ==
    \A w \in Workers :
        pc[w] = "commit" => \A s \in pending_coms[w] : conn[w][s] = NoMsg

\* The COMMIT for k is received, but its loop has not begun.
CommitSent(w, k) ==
    /\ conn[w][ServerOf[k]].type = "COMMIT"
    /\ executor[w][ServerOf[k]].at \notin {"test", "set"}

\* The loop of commit has still to come to an item of k.
LoopAhead(w, k) ==
    LET s == ServerOf[k]
        e == executor[w][s]
    IN  /\ e.at \in {"test", "set"}
        /\ \E j \in DOMAIN items[s][conn[w][s].ts] :
              e.i <= j /\ j <= e.n /\ items[s][conn[w][s].ts][j].key = k

\* A key that is being committed is still to be sent to, under way, ahead of
\* the loop, or already at the put's timestamp or a newer one.
CommittingOK ==
    \A w \in Workers :
        pc[w] = "commit" =>
            \A k \in WriteSet[trx[w]] :
                \/ ServerOf[k] \in pending_coms[w]
                \/ CommitSent(w, k)
                \/ LoopAhead(w, k)
                \/ latest_commit[k] >= trx_ts[trx[w]]

\* A put that has returned is visible on all its keys.
ReturnedPutsOK ==
    \A t \in Trxs : PutReturned(t) => \A k \in WriteSet[t] : latest_commit[k] >= trx_ts[t]

CommitInv == ComparedOK /\ AccessOK /\ PendingOK /\ CommittingOK /\ ReturnedPutsOK

-----------------------------------------------------------------------------
(* What it means to readers: the workers of a set W, on the keys of a set K *)

\* What a get recorded when it started is visible from then on.
FloorOK(K) ==
    \A w \in Workers, k \in K : floor[w][k] \in TsOrEmpty /\ latest_commit[k] >= floor[w][k]

\* No answer is older than what the get recorded, and in the second round
\* nothing older is asked for.
FreshAnswersOK(K, W) ==
    \A w \in W :
        /\ pc[w] = "round2" => \A k \in todo[w] \cap K : v_latest[w][k] >= floor[w][k]
        /\ \A s \in Servers :
              /\ conn[w][s].type = "GET" /\ pc[w] = "round2" /\ conn[w][s].key \in K =>
                    conn[w][s].ts >= floor[w][conn[w][s].key]
              /\ conn[w][s].type = "RESULT" /\ conn[w][s].key \in K =>
                    conn[w][s].item.ts >= floor[w][conn[w][s].key]

\* In the first round a key is still to ask for, its answer is under way, or
\* its item is recent enough; in the second round every item is.
FreshRoundsOK(K, W) ==
    \A w \in W :
        Reading(w) =>
            \A k \in ReadSet[trx[w]] \cap K :
                \/ pc[w] = "round1" /\ k \in todo[w]
                \/ /\ pc[w] = "round1"
                   /\ conn[w][ServerOf[k]].type \in {"GET", "RESULT"}
                   /\ conn[w][ServerOf[k]].key = k
                \/ ret[w][k].ts >= floor[w][k]

\* FreshReads, key by key.
FreshReadsOf(K, W) ==
    \A w \in W :
        pc[w] = "returned" =>
            \A k \in ReadSet[trx[w]] \cap K : ret[w][k].ts >= floor[w][k]

FreshGets(K, W) == FreshAnswersOK(K, W) /\ FreshRoundsOK(K, W) /\ FreshReadsOf(K, W)

FreshInv ==
    /\ CommitInv /\ FloorOK(Keys)
    /\ FreshAnswersOK(Keys, Workers) /\ FreshRoundsOK(Keys, Workers) /\ FreshReads
=============================================================================

---------------------------- MODULE ACRAMPFastInv ----------------------------
(***************************************************************************)
(* The inductive invariants of ACRAMPFast.  Seen without the cache, its     *)
(* connections and executors are those of a RAMP-Fast whose first round is *)
(* answered from a cache (LooseNext of RAMPFastInv): a read of the cache   *)
(* is a GET that is not answered yet, and an executor that has stored an   *)
(* item or a timestamp is past it, although the entry of the cache is      *)
(* still to be changed.  The answers are versions of prepared transactions *)
(* for the workers whose reads have copied each entry from one item; the   *)
(* invariant says nothing of the gets of the others.                       *)
(***************************************************************************)
EXTENDS ACRAMPFast

\* What is under way between a worker and its executor, and where it stands.
ACMessage ==
         [type : {"PREPARE"}, item : Item]
    \cup [type : {"COMMIT"}, ts : Timestamps]
    \cup [type : {"GET"}, key : Keys, ts : TsOrEmpty]
    \cup [type : {"GET_WITH_ADDR"}, key : Keys]
    \cup [type : {"READ"}, key : Keys, seen : SUBSET Item]
    \cup [type : {"RESULT", "RESULT_WITH_ADDR"}, key : Keys, item : Item]
    \cup [type : {"none", "DONE", "CLOSE"}]

ACExecutorState ==
    [at : {"recv", "invalidate", "test", "set", "update", "closed"}, i : Nat, n : Nat]

\* The message m of an executor that stands at e, and e, as RAMPFast has them.
PlainMessage(m, e) ==
    CASE m.type \in {"GET_WITH_ADDR", "READ"} -> [type |-> "GET", key |-> m.key, ts |-> 0]
      [] m.type = "RESULT_WITH_ADDR" -> Result(m.key, m.item)
      [] m.type = "PREPARE" /\ e.at = "invalidate" -> Done
      [] OTHER -> m

PlainState(e) ==
    CASE e.at = "invalidate" -> Receiving
      [] e.at = "update" -> NextItem(e)
      [] OTHER -> e

PlainConn == [w \in Workers |-> [s \in Servers |-> PlainMessage(conn[w][s], executor[w][s])]]
PlainExecutor == [w \in Workers |-> [s \in Servers |-> PlainState(executor[w][s])]]

Plain == INSTANCE RAMPFastFreshProofs WITH conn <- PlainConn, executor <- PlainExecutor

-----------------------------------------------------------------------------
\* The variables that this module changes; Plain!TypeOK has the others.
ACTypeOK ==
    /\ conn \in [Workers -> [Servers -> ACMessage]]
    /\ executor \in [Workers -> [Servers -> ACExecutorState]]
    /\ cache \in [Keys -> [invalid : BOOLEAN, item : Item]]
    /\ addr_cache \in [Workers -> SUBSET Keys]
    /\ torn \in SUBSET Workers

\* An executor changes the cache only between a request and its answer, and
\* then for an item of the message or of the loop.
ExecutorOK ==
    \A w \in Workers, s \in Servers :
        LET e == executor[w][s]
        IN  /\ e.at \in {"recv", "invalidate"} => e.i = 0 /\ e.n = 0
            /\ e.at = "invalidate" => conn[w][s].type = "PREPARE" /\ pc[w] = "prepare"
            /\ e.at = "update" => e.i >= 1 /\ e.i <= e.n

\* The cache holds nothing but what the executor may return.
CacheOK == \A k \in Keys : Plain!Readable(k, cache[k].item)

\* A read belongs to a first round, and has copied parts of nothing but what the
\* executor may return.
SeenOK ==
    \A w \in Workers, s \in Servers :
        conn[w][s].type = "READ" =>
            /\ pc[w] = "round1"
            /\ \A item \in conn[w][s].seen : Plain!Readable(conn[w][s].key, item)

\* The workers whose last get has accepted no parts of several items.
Intact == Workers \ torn

ACInv ==
    /\ ACTypeOK /\ ExecutorOK /\ CacheOK /\ SeenOK
    /\ Plain!WriteInv /\ Plain!AccessOK /\ Plain!PendingOK
    /\ Plain!ReadInv(Intact)

\* What a step is without the cache: a step of RAMP-Fast, or an answer to a GET
\* of the first round, which is a version of a prepared transaction unless its
\* worker is torn from then on.
PlainStep == \E W \in SUBSET Workers : W = Intact' /\ Plain!LooseNext(W)

-----------------------------------------------------------------------------
(* What CacheFresh needs                                                   *)

\* The keys it is about.
Once == {k \in Keys : WrittenOnce(k)}

\* The table and the cache have a version of k that is not the load's.
Reached(k) == latest_commit[k] # 0 /\ cache[k].item.ts # 0

\* The key that the loop of commit stands at.
KeyAt(w, s) == ItemAt(w, s).key

\* Table::commit stores the timestamp first and updates the cache then.
UpdatingOK ==
    \A w \in Workers, s \in Servers :
        executor[w][s].at = "update" => latest_commit[KeyAt(w, s)] # 0

\* Who has stored the timestamp of a key updates its entry.
CachedOK ==
    \A k \in Keys :
        latest_commit[k] # 0 =>
            \/ cache[k].item.ts # 0
            \/ \E w \in Workers : /\ executor[w][ServerOf[k]].at = "update"
                                  /\ KeyAt(w, ServerOf[k]) = k

InLoop(w, s) == executor[w][s].at \in {"test", "set", "update"}

\* The COMMIT for k has not been read, or the loop has still to come to k.
Sent(w, k) == conn[w][ServerOf[k]].type = "COMMIT" /\ ~ InLoop(w, ServerOf[k])

Ahead(w, k) ==
    LET s == ServerOf[k]
        e == executor[w][s]
    IN  /\ InLoop(w, s)
        /\ \E j \in DOMAIN items[s][conn[w][s].ts] :
              e.i <= j /\ j <= e.n /\ items[s][conn[w][s].ts][j].key = k

\* A put that commits comes to table and cache with all its keys.
CommittingOK ==
    \A w \in Workers :
        pc[w] = "commit" =>
            \A k \in WriteSet[trx[w]] \cap Once :
                ServerOf[k] \in pending_coms[w] \/ Sent(w, k) \/ Ahead(w, k) \/ Reached(k)

\* A put that has returned has come there.
ReturnedPutsOK ==
    \A t \in Trxs : PutReturned(t) => \A k \in WriteSet[t] \cap Once : Reached(k)

\* So has whatever a get recorded when it started.
RecordedOK ==
    \A w \in Workers, k \in Once :
        floor[w][k] # 0 =>
            Reached(k) /\ \E t \in Trxs : k \in WriteSet[t] /\ floor[w][k] = trx_ts[t]

\* No part that a read has copied is older than what its get recorded.
FreshSeenOK ==
    \A w \in Workers, s \in Servers :
        conn[w][s].type = "READ" /\ conn[w][s].key \in Once =>
            \A item \in conn[w][s].seen : item.ts >= floor[w][conn[w][s].key]

FreshCacheInv ==
    /\ UpdatingOK /\ CachedOK /\ CommittingOK /\ ReturnedPutsOK /\ RecordedOK
    /\ FreshSeenOK /\ Plain!FreshGets(Once, Intact)
=============================================================================

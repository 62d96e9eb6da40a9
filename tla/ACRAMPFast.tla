----------------------------- MODULE ACRAMPFast -----------------------------
(***************************************************************************)
(* RAMP-Fast with RDMA: ACRAMPFastHandler reads an item whose address it   *)
(* knows from the server's cache, past the executor, and asks for item and *)
(* address otherwise.  put_all, the second round and the table are those   *)
(* of RAMPFast; prepare and commit change the cache as well.               *)
(*                                                                         *)
(* The cache has an entry for every key, as a load leaves it, and every    *)
(* version in it is of the load or newer.  The load's versions stand for   *)
(* "nothing written yet": timestamp 0 is older than every other.  How keys *)
(* come to their entries, and in which order the cells of an entry are      *)
(* written and copied, is the subject of CommittedItems.  Here the adapter *)
(* copies an entry part by part, and a client that reads it beside an      *)
(* update may accept parts of several items.                               *)
(***************************************************************************)
EXTENDS RAMPFastFresh, RAMPFastVisible

VARIABLES
    cache,         \* Table::committed_items: the entry of each key
    addr_cache,    \* the keys whose addresses a handler knows
    torn           \* history variable: the workers whose last get has
                   \* accepted parts of several items for one

cacheVars == <<cache, addr_cache, torn>>
acVars == <<freshVars, cacheVars>>

\* Other transactions of a worker may have asked for the addresses before.
ACInit ==
    /\ FreshInit
    /\ cache = [k \in Keys |-> [invalid |-> FALSE, item |-> EmptyItem]]
    /\ addr_cache \in [Workers -> {{}, Keys}]
    /\ torn = {}

-----------------------------------------------------------------------------
(* ACRAMPFastHandler::get_all, first round, and RDMAWriteSocket::read *)

\* A task of the first round takes the connection of its key.
Start(w, k, m) ==
    /\ pc[w] = "round1"
    /\ k \in todo[w]
    /\ conn[w][ServerOf[k]] = NoMsg
    /\ todo' = [todo EXCEPT ![w] = @ \ {k}]
    /\ access_coms' = [access_coms EXCEPT ![w] = @ \cup {ServerOf[k]}]
    /\ Send(w, ServerOf[k], m)
    /\ UNCHANGED <<queue, trx, pc, trx_ts, pending_coms, ret, v_latest,
                   executor, tableVars, cacheVars>>

GetWithAddr(k) == [type |-> "GET_WITH_ADDR", key |-> k]

SendGetWithAddr(w, k) == k \notin addr_cache[w] /\ Start(w, k, GetWithAddr(k))

\* The item that the loop of commit stands at.
ItemAt(w, s) == items[s][conn[w][s].ts][executor[w][s].i]

\* The items that executors are writing into the entry of k.
Updating(k) ==
    LET s == ServerOf[k]
    IN  {ItemAt(v, s) : v \in {u \in Workers : executor[u][s].at = "update"
                                              /\ ItemAt(u, s).key = k}}

\* What a part of the entry may be of, and what its flag may be: update takes
\* the flag back first and then writes the item.
Parts(k) == {cache[k].item} \cup Updating(k)
Flags(k) == {cache[k].invalid} \cup {FALSE : i \in Updating(k)}

\* A read under way; seen are the items of which parts have been copied.
Read(k, seen) == [type |-> "READ", key |-> k, seen |-> seen]

\* The adapter has copied the flag; the read goes on to the item, or the
\* handler asks the executor after all.
ReadFlag(w, k) ==
    /\ k \in addr_cache[w]
    /\ \E invalid \in Flags(k) :
        Start(w, k, IF invalid THEN GetWithAddr(k) ELSE Read(k, {}))

\* The adapter copies another part, from the entry as it is by now.
CopyPart(w, s) ==
    /\ conn[w][s].type = "READ"
    /\ LET k == conn[w][s].key
       IN  \E item \in Parts(k) : Send(w, s, Read(k, conn[w][s].seen \cup {item}))
    /\ UNCHANGED <<workerVars, executor, tableVars, cacheVars>>

\* The parts that have been copied are of one item.
Whole(seen) == \E item \in seen : seen = {item}

\* What can be put together from parts of the given items.
Mixtures(seen) ==
    [key : {i.key : i \in seen}, trx : {i.trx : i \in seen},
     ts : {i.ts : i \in seen}, trx_keys : {i.trx_keys : i \in seen}]

\* The copy is complete and nothing tells the parts apart: the read returns
\* whatever they make up.
ReadItem(w, s) ==
    /\ conn[w][s].type = "READ"
    /\ conn[w][s].seen # {}
    /\ \E item \in Mixtures(conn[w][s].seen) : Send(w, s, Result(conn[w][s].key, item))
    /\ torn' = IF Whole(conn[w][s].seen) THEN torn ELSE torn \cup {w}
    /\ UNCHANGED <<workerVars, executor, tableVars, cache, addr_cache>>

\* Parts of several items need not unpack; read returns -1 then.
ReadGarbage(w, s) ==
    /\ conn[w][s].type = "READ"
    /\ conn[w][s].seen # {} /\ ~ Whole(conn[w][s].seen)
    /\ Send(w, s, GetWithAddr(conn[w][s].key))
    /\ UNCHANGED <<workerVars, executor, tableVars, cacheVars>>

RecvItemAndAddr(w, s) ==
    /\ conn[w][s].type = "RESULT_WITH_ADDR"
    /\ ret' = [ret EXCEPT ![w][conn[w][s].key] = conn[w][s].item]
    /\ addr_cache' = [addr_cache EXCEPT ![w] = @ \cup {conn[w][s].key}]
    /\ Send(w, s, NoMsg)
    /\ UNCHANGED <<queue, trx, pc, trx_ts, todo, access_coms, pending_coms, v_latest,
                   executor, tableVars, cache, torn>>

-----------------------------------------------------------------------------
(* ACRAMPFastExecutor, Table and CommittedItems *)

GetItemAndAddr(w, s) ==
    /\ conn[w][s].type = "GET_WITH_ADDR"
    /\ LET k == conn[w][s].key
       IN  Send(w, s, [type |-> "RESULT_WITH_ADDR", key |-> k,
                       item |-> GetItemByVer(s, k, latest_commit[k])])
    /\ UNCHANGED <<workerVars, executor, tableVars, cacheVars>>

PrepareItem(w, s) ==
    /\ conn[w][s].type = "PREPARE"
    /\ executor[w][s].at = "recv"
    /\ LET item == conn[w][s].item
       IN  items' = [items EXCEPT ![s][item.ts] = Append(@, item)]
    /\ executor' = [executor EXCEPT ![w][s].at = "invalidate"]
    /\ UNCHANGED <<workerVars, conn, latest_commit, cacheVars>>

\* The entry after invalidate and after update.  Stored is the faulty variant
\* that puts the prepared item into the cache at once.
Stored(entry, item) == [entry EXCEPT !.item = item]
Invalidated(entry, item) == [entry EXCEPT !.invalid = TRUE]

Invalidate(w, s) ==
    /\ executor[w][s].at = "invalidate"
    /\ LET item == conn[w][s].item
       IN  cache' = [cache EXCEPT ![item.key] = Invalidated(@, item)]
    /\ executor' = [executor EXCEPT ![w][s] = Receiving]
    /\ Send(w, s, Done)
    /\ UNCHANGED <<workerVars, tableVars, addr_cache, torn>>

SetLatest(w, s) ==
    LET e == executor[w][s]
        ts_c == conn[w][s].ts
        k == items[s][ts_c][e.i].key
    IN  /\ e.at = "set"
        /\ latest_commit' = [latest_commit EXCEPT ![k] = CommittedTs(@, ts_c)]
        /\ executor' = [executor EXCEPT ![w][s].at = "update"]
        /\ UNCHANGED <<workerVars, conn, items, cacheVars>>

\* Faulty variants: one leaves the old item in the entry, the other one packs
\* the item without its sibling keys.
OnlyValid(entry, item) == [entry EXCEPT !.invalid = FALSE]
WithoutKeys(entry, item) ==
    [invalid |-> FALSE, item |-> [item EXCEPT !.trx_keys = {}]]
Updated(entry, item) == [invalid |-> FALSE, item |-> item]

Update(w, s) ==
    LET e == executor[w][s]
        item == ItemAt(w, s)
    IN  /\ e.at = "update"
        /\ cache' = [cache EXCEPT ![item.key] = Updated(@, item)]
        /\ executor' = [executor EXCEPT ![w][s] = NextItem(e)]
        /\ UNCHANGED <<workerVars, conn, tableVars, addr_cache, torn>>

-----------------------------------------------------------------------------
(* The whole system: what RAMPFast does as well leaves the cache alone *)

InheritedStep ==
    /\ \/ \E w \in Workers :
            \/ Pop(w) \/ Exit(w) \/ Finish(w)
            \/ PutAll(w) \/ BeginCommit(w) \/ PutAllReturn(w)
            \/ GetAll(w) \/ CheckMissing(w) \/ GetAllReturn(w)
            \/ \E k \in Keys : SendPrepare(w, k) \/ (pc[w] = "round2" /\ SendGet(w, k))
       \/ \E w \in Workers, s \in Servers :
            \/ SendCommit(w, s) \/ RecvDone(w, s) \/ RecvResult(w, s) \/ SendClose(w, s)
            \/ Get(w, s) \/ CommitBegin(w, s) \/ CommitTest(w, s) \/ CommitDone(w, s)
            \/ HandleClose(w, s)
       \/ Terminating
    /\ UNCHANGED <<cache, addr_cache>>
    /\ torn' = torn \ {w \in Workers : pc[w] = "get_all" /\ pc'[w] = "round1"}

CacheStep ==
    \/ \E w \in Workers, k \in Keys : SendGetWithAddr(w, k) \/ ReadFlag(w, k)
    \/ \E w \in Workers, s \in Servers :
         \/ CopyPart(w, s) \/ ReadItem(w, s) \/ ReadGarbage(w, s)
         \/ RecvItemAndAddr(w, s) \/ GetItemAndAddr(w, s)
         \/ PrepareItem(w, s) \/ Invalidate(w, s) \/ SetLatest(w, s) \/ Update(w, s)

ACNext == (InheritedStep \/ CacheStep) /\ Record

ACSpec == ACInit /\ [][ACNext]_acVars

-----------------------------------------------------------------------------
(* Properties                                                              *)

\* Whatever a client reads from the cache, valid or invalid, belongs to a
\* transaction that all servers have prepared: the executor that prepares
\* touches the flag only, and the item comes with the commit.
CachePrepared ==
    \A k \in Keys : cache[k].item.trx # NoTrx => Prepared(cache[k].item.trx)

WrittenOnce(k) == \A t, u \in Trxs : k \in WriteSet[t] \cap WriteSet[u] => t = u

\* A get that starts after a put has returned sees that put, from the cache as
\* from the table, if no other transaction writes the key: put_all returns only
\* when every cache has the item.
CacheFresh ==
    \A w \in Workers \ torn :
        pc[w] = "returned" =>
            \A k \in ReadSet[trx[w]] : WrittenOnce(k) => ret[w][k].ts >= floor[w][k]

\* What a get returns that has not accepted parts of several items.
IntactView == [w \in Workers |-> IF w \in torn THEN [k \in {} |-> NoTrx] ELSE View[w]]

Visible == INSTANCE AtomicVisibility
             WITH Clients <- Workers, stamp <- Stamp, view <- IntactView

\* Every get whose reads copied each entry from one item implements
\* AtomicVisibility, whatever other gets have accepted meanwhile: no other get
\* and no put can tell.
IntactlyVisible == Visible!Spec
=============================================================================

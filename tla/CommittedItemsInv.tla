------------------------- MODULE CommittedItemsInv --------------------------
(***************************************************************************)
(* The inductive invariants of CommittedItems: what the entries, the pool  *)
(* and the buffers hold whatever runs, and, under LoadsOnce, what a load   *)
(* that comes first leaves behind.  CommittedItemsProofs proves them.      *)
(***************************************************************************)
EXTENDS CommittedItems

In(w, L) == frame[w].at \in L

Preparing == {"put", "invalidate", "create", "pop", "mark", "flag"}
Committing == {"test", "set", "update"}
Updating == {"lock", "body", "valid"}
Getting == {"get", "addr_pop", "addr_set", "addr_at", "read"}

\* Which local variables mean something at which statement.
Fits(f) ==
    /\ f.at = "idle" => f = Idle
    /\ f.at \in Preparing \cup Committing => f.trx \in Trxs
    /\ f.at \in Updating => f.item = f.trx
    /\ f.at \in Getting => f.trx = 0
    /\ f.at \in {"put"} \cup Committing => f.key = NoKey
    /\ f.at \in (Preparing \cup Updating \cup Getting) \ {"put"} => f.key \in Keys
    /\ f.at \in {"flag", "addr_set", "read"} \cup Updating => f.entry \in Entries
    /\ f.at \in {"put", "invalidate", "create", "pop", "mark", "get", "addr_pop"}
                  \cup Committing => f.entry = Null
    /\ f.at = "body" => f.cell \in 1..(Length[f.item] + 1)

FrameFits(w) ==
    /\ Fits(frame[w])
    /\ In(w, Committing) => frame[w].i # 0
    /\ In(w, {"set", "update"}) => InLoop(frame[w])

FrameOK == \A w \in Workers : FrameFits(w)

\* A transaction is run once and puts all its keys before it commits.
RunOK ==
    /\ \A w \in Workers : frame[w].trx \notin queue
    /\ \A v, w \in Workers : frame[v].trx = frame[w].trx /\ frame[w].trx # 0 => v = w
    /\ \A t \in Trxs : Range(items[t]) \subseteq WriteSet[t]
    /\ \A w \in Workers :
          /\ In(w, Preparing) => Range(items[frame[w].trx]) \cup frame[w].todo
                                    = WriteSet[frame[w].trx]
          /\ In(w, Preparing \ {"put"}) => frame[w].key \in Range(items[frame[w].trx])
          /\ In(w, Committing \cup Updating) => Prepared(frame[w].trx)

\* What has been prepared is known to the cache, except where invalidate is
\* still looking for it.
KnownOK ==
    /\ \A t \in Trxs : \A k \in Range(items[t]) :
          \/ Known(k)
          \/ \E w \in Workers : /\ In(w, {"invalidate", "create"})
                                /\ frame[w].trx = t /\ frame[w].key = k
    /\ \A w \in Workers : In(w, {"pop", "mark"}) => Known(frame[w].key)

Unused(e) == \E i \in DOMAIN unused_entries : unused_entries[i] = e

PoolOK ==
    /\ \A i, j \in DOMAIN unused_entries : unused_entries[i] = unused_entries[j] => i = j
    /\ OneKeyPerEntry

\* The mutex of an entry is held from its header to its valid flag, and what
\* the holder has written so far is all there.
MutexOK ==
    /\ \A e \in Entries, w \in Workers :
          mtx[e] = w <=> In(w, {"body", "valid"}) /\ frame[w].entry = e
    /\ \A w \in Workers :
          LET f == frame[w]
              m == mem[f.entry]
          IN  /\ In(w, {"body", "valid"}) =>
                    /\ m.header = Length[f.item]
                    /\ \A c \in 1..Length[f.item] :
                          f.at = "valid" \/ c < f.cell => m.body[c] = [key |-> f.key, trx |-> f.item]
              /\ f.at = "valid" => m.body[Length[f.item] + 1] # Zero

\* The items that lie in an entry, and those a client has copied from it.
MemOK ==
    \A e \in Entries, c \in Cells :
        LET i == mem[e].body[c]
        IN  i \in Item => Prepared(i.trx) /\ Owners(e) \subseteq {i.key} /\ ~Unused(e)

BufferOK ==
    \A w \in Workers, c \in Cells :
        LET i == read_buf[w].body[c]
        IN  i \in Item => At(w, "read") /\ Prepared(i.trx) /\ i.key = frame[w].key

CacheInv ==
    TypeOK /\ FrameOK /\ RunOK /\ KnownOK /\ PoolOK /\ MutexOK /\ EntryWhole
           /\ MemOK /\ BufferOK /\ ReadsPrepared

-----------------------------------------------------------------------------
(* A load that comes first *)

\* Every key is loaded, by one transaction, and there is an entry for it.
LoadsOnce ==
    /\ \A k \in Keys : \E t \in Loaders : k \in WriteSet[t]
    /\ \A t, u \in Loaders : WriteSet[t] \cap WriteSet[u] # {} => t = u
    /\ IsFiniteSet(Keys)
    /\ Cardinality(Keys) <= ENTRY_NUM

\* Until the load is over nothing else runs.
LoadFirst ==
    /\ \A w \in Workers : At(w, "idle") \/ frame[w].trx \in Loaders \/ LoadOver
    /\ \A w \in Workers, k \in Keys : addr_cache[w][k] = Null \/ LoadOver
    /\ \A t \in queue : items[t] = <<>>
    /\ \A t \in Loaders : \/ t \in queue
                          \/ \E w \in Workers : frame[w].trx = t
                          \/ Prepared(t)

\* After the load every key is known, and no key gets another entry.
LoadedOK ==
    /\ LoadOver =>
          /\ \A k \in Keys : Known(k)
          /\ \A w \in Workers : ~In(w, {"create", "pop", "addr_pop", "addr_set"})
          /\ \A w \in Workers : In(w, Updating) => frame[w].trx # 0
    /\ \A w \in Workers : At(w, "read") => frame[w].entry = entries[frame[w].key]

\* What no loader has prepared is unknown, and what one has prepared gets its
\* entry before the loader goes on to its next key.
EntriesOK ==
    /\ \A k \in Keys : Known(k) => \E t \in Loaders : k \in Range(items[t])
    /\ \A w \in Workers :
          frame[w].trx \in Loaders =>
              /\ In(w, Preparing) => frame[w].todo \cap Range(items[frame[w].trx]) = {}
              /\ In(w, {"invalidate", "create"}) => ~Known(frame[w].key)
              /\ At(w, "pop") => entries[frame[w].key] = Null
    /\ \A k \in Keys : entries[k] = Null => \E w \in Workers : At(w, "pop") /\ frame[w].key = k

Filled == {k \in Keys : entries[k] \in Entries}

\* Every entry that is not in the pool serves a key.
PoolCount == Cardinality(Filled) + Len(unused_entries) = ENTRY_NUM

LoadInv ==
    /\ AddressesCurrent
    /\ NoCrash
    /\ loaded => LoadFirst /\ LoadedOK /\ EntriesOK /\ PoolCount

-----------------------------------------------------------------------------
(* Reads after a load of the longest items *)

\* A key is loaded with an item that is as long as any that is put later.  A
\* load writes all fields and an update only one, unless writeallfields is set.
LoadsLongest ==
    \A t \in Loaders, u \in Trxs :
        WriteSet[t] \cap WriteSet[u] # {} => Length[u] <= Length[t]

\* The loaded item has been written to the entry of the key, with the flag
\* behind it.  What overwrites it is no longer and leaves no cell clear.
Arrived(k) ==
    /\ entries[k] \in Entries
    /\ \A t \in Loaders :
          k \in WriteSet[t] =>
              /\ mem[entries[k]].header \in 1..Length[t]
              /\ \A c \in 1..(Length[t] + 1) : mem[entries[k]].body[c] # Zero

\* A worker that updates an entry after the test of commit.
UpdatingOK ==
    \A w \in Workers :
        In(w, Updating) => /\ InLoop(frame[w])
                           /\ frame[w].key = LoopKey(frame[w])
                           /\ frame[w].entry = entries[frame[w].key]
                           /\ frame[w].i # 0

\* What a loader has passed in the loop of commit has arrived, and so has all
\* that it loads when it is done; a key with a latest commit is about to.
ArrivalOK ==
    /\ \A w \in Workers :
          frame[w].trx \in Loaders /\ In(w, Committing \cup Updating) =>
              \A j \in DOMAIN items[frame[w].trx] :
                  j < frame[w].i => Arrived(items[frame[w].trx][j])
    /\ \A t \in Loaders : \/ t \in queue
                          \/ \E w \in Workers : frame[w].trx = t
                          \/ \A k \in WriteSet[t] : Arrived(k)
    /\ \A k \in Keys : latest_commit[k] = 0 \/ Arrived(k) \/
          \E w \in Workers : In(w, {"update"} \cup Updating) /\ LoopKey(frame[w]) = k

\* What a client has copied of an entry in which an item lies.
CopiedOK ==
    \A w \in Workers, t \in Loaders :
        At(w, "read") /\ frame[w].key \in WriteSet[t] =>
            /\ frame[w].cell > 1 => read_buf[w].header \in 1..Length[t]
            /\ \A c \in 1..(Length[t] + 1) :
                  frame[w].cell > c + 1 => read_buf[w].body[c] # Zero

ReadInv == loaded => UpdatingOK /\ ArrivalOK /\ CopiedOK

IInv == CacheInv /\ (LoadsOnce => LoadInv /\ (LoadsLongest => ReadInv))
=============================================================================

--------------------------- MODULE CommittedItems ---------------------------
(***************************************************************************)
(* The cache of one server, from which clients read items by one-sided     *)
(* RDMA: CommittedItems, its entries, and what Table, ACRAMPFastExecutor,  *)
(* ACRAMPFastHandler and RDMAWriteSocket::read do with them.               *)
(*                                                                         *)
(* A worker is a handler with its connection and the executor thread that  *)
(* serves it; one of the two waits for the other, so one pc is enough.     *)
(* Executors share the cache and run statement by statement.  A client     *)
(* that reads takes no lock: the adapter copies the entry, cell by cell,   *)
(* into the client's buffer, once.                                         *)
(*                                                                         *)
(* Transactions are numbered by their timestamps.  An entry is a row of    *)
(* cells: the invalid flag, the header, the body, and an arrival flag      *)
(* behind it.  The body of an item takes as many cells as Length says.     *)
(***************************************************************************)
EXTENDS Naturals, Sequences, FiniteSetsExt

CONSTANTS
    Keys, Workers,
    NoKey, NoWorker,
    Trxs,             \* transactions, numbered by their timestamps
    Loaders,          \* those that load the keys, when a load comes first
    WriteSet,         \* the keys a transaction puts on this server
    Length,           \* cells of an item's body; Length[0] is for Item(key)
    ENTRY_NUM,        \* entries of the pool
    MaxGets,          \* bound on the keys that workers get
    Copies,           \* the copies of the source a run checks
    Loads             \* whether a load comes first: TRUE, FALSE or both

ASSUME CacheAssumption ==
    /\ Trxs \subseteq Nat \ {0}
    /\ Loaders \subseteq Trxs
    /\ WriteSet \in [Trxs -> SUBSET Keys]
    /\ Length \in [Trxs \cup {0} -> Nat \ {0}]
    \* No body exceeds PACKET_SIZE, so one of them is the longest.
    /\ \E t \in Trxs \cup {0} : \A u \in Trxs \cup {0} : Length[u] <= Length[t]
    /\ ENTRY_NUM \in Nat
    /\ MaxGets \in Nat
    /\ Copies \subseteq {"main", "ycsb"}
    /\ Loads \subseteq BOOLEAN
    /\ NoKey \notin Keys
    /\ NoWorker \notin Workers

VARIABLES
    copy,             \* which copy of the source runs
    loaded,           \* whether a load comes before everything else
    queue,            \* transactions that have not begun
    frame,            \* the local variables of a worker, see Frame
    \* Table and CommittedItems
    items,            \* Table::items: the keys of each timestamp
    latest_commit,    \* Table::latest_commit
    entries,          \* CommittedItems::entries, with 0 for a null pointer
    unused_entries,   \* CommittedItems::unused_entries
    mem,              \* the cells of the entries
    mtx,              \* Entry::mtx
    \* handlers
    gets,             \* keys that workers have begun to get
    addr_cache,       \* ACRAMPFastHandler::addr_cache
    read_buf,         \* the buffer that the adapter copies to
    ret               \* get_all's ret: the items whose bytes a read returned

rigidVars == <<copy, loaded>>
tableVars == <<items, latest_commit>>
poolVars == <<entries, unused_entries>>
memVars == <<mem, mtx>>
clientVars == <<gets, addr_cache, read_buf, ret>>
vars == <<rigidVars, queue, frame, tableVars, poolVars, memVars, clientVars>>

-----------------------------------------------------------------------------
(* Items and entries *)

Entries == 1..ENTRY_NUM
Null == 0
Absent == ENTRY_NUM + 1

Versions == Trxs \cup {0}
MaxLength == Max({Length[t] : t \in Versions})

\* Cells 1 to MaxLength + 1 hold the body and the flag behind it.
Cells == 1..(MaxLength + 1)

Item == [key : Keys, trx : Versions]
Zero == [key |-> NoKey, trx |-> 0]
IS_ARRIVED == [key |-> NoKey, trx |-> 1]

\* header is the body_size of a header that has arrived, or 0.
Memory == [invalid : BOOLEAN, header : 0..MaxLength,
           body : [Cells -> Item \cup {Zero, IS_ARRIVED}]]

Cleared == [invalid |-> FALSE, header |-> 0, body |-> [c \in Cells |-> Zero]]

\* Where a worker stands.
Statements ==
    {"idle", "put", "invalidate", "create", "pop", "mark", "flag",
     "test", "set", "update", "lock", "body", "valid",
     "get", "addr_pop", "addr_set", "addr_at", "read", "crashed"}

\* The transaction a worker puts and the keys it has still to prepare; the
\* index of the loop of commit; the key at hand, the entry it is about, the
\* version to write there and the next cell to write or to copy.
Frame == [at : Statements,
          trx : Versions, todo : SUBSET Keys, i : Nat, key : Keys \cup {NoKey},
          entry : Entries \cup {Null}, item : Versions, cell : Nat]

Idle == [at |-> "idle", trx |-> 0, todo |-> {}, i |-> 0, key |-> NoKey,
         entry |-> Null, item |-> 0, cell |-> 0]

Init ==
    /\ copy \in Copies
    /\ loaded \in Loads
    /\ queue = IF loaded THEN Trxs ELSE Trxs \ Loaders
    /\ frame = [w \in Workers |-> Idle]
    /\ items = [t \in Trxs |-> <<>>]
    /\ latest_commit = [k \in Keys |-> 0]
    /\ entries = [k \in Keys |-> Absent]
    /\ unused_entries = [e \in Entries |-> e]
    /\ mem = [e \in Entries |-> Cleared]
    /\ mtx = [e \in Entries |-> NoWorker]
    /\ gets = 0
    /\ addr_cache = [w \in Workers |-> [k \in Keys |-> Null]]
    /\ read_buf = [w \in Workers |-> Cleared]
    /\ ret = [w \in Workers |-> [k \in Keys |-> {}]]

At(w, l) == frame[w].at = l

\* The worker goes on with f.
Continue(w, f) == frame' = [frame EXCEPT ![w] = f]
Goto(w, l) == Continue(w, [frame[w] EXCEPT !.at = l])

\* f without what it knew of a key.
Forget(f) == [f EXCEPT !.key = NoKey, !.entry = Null, !.item = 0]

-----------------------------------------------------------------------------
(* A handler begins a put or a get *)

\* The load is over when every transaction of it has returned.
LoadOver == \A t \in Loaders : t \notin queue /\ \A w \in Workers : frame[w].trx # t

BeginPut(w) ==
    /\ At(w, "idle")
    /\ \E t \in queue :
        /\ loaded => t \in Loaders \/ LoadOver
        /\ queue' = queue \ {t}
        /\ Continue(w, [Idle EXCEPT !.at = "put", !.trx = t, !.todo = WriteSet[t]])
    /\ UNCHANGED <<rigidVars, tableVars, poolVars, memVars, clientVars>>

\* A key whose address is known is read, another one asked for.
BeginGet(w) ==
    /\ At(w, "idle")
    /\ loaded => LoadOver
    /\ gets < MaxGets
    /\ gets' = gets + 1
    /\ \E k \in Keys :
        IF addr_cache[w][k] = Null
        THEN Continue(w, [Idle EXCEPT !.at = "get", !.key = k])
        ELSE Continue(w, [Idle EXCEPT !.at = "read", !.key = k, !.entry = addr_cache[w][k]])
    /\ UNCHANGED <<rigidVars, queue, tableVars, poolVars, memVars, addr_cache, read_buf, ret>>

-----------------------------------------------------------------------------
(* Table::prepare and CommittedItems::invalidate *)

\* The table has the item before the cache hears of it.
Prepare(w) ==
    /\ At(w, "put")
    /\ \E k \in frame[w].todo :
        /\ items' = [items EXCEPT ![frame[w].trx] = Append(@, k)]
        /\ Continue(w, [frame[w] EXCEPT !.at = "invalidate", !.key = k, !.todo = @ \ {k}])
    /\ UNCHANGED <<rigidVars, queue, latest_commit, poolVars, memVars, clientVars>>

\* entries.find; NeverKnown is the faulty variant that does not look.
NeverKnown(k) == FALSE
Known(k) == entries[k] # Absent

InvalidateFind(w) ==
    /\ At(w, "invalidate")
    /\ Goto(w, IF Known(frame[w].key) THEN "mark" ELSE "create")
    /\ UNCHANGED <<rigidVars, queue, tableVars, poolVars, memVars, clientVars>>

\* entries[key], evaluated first, creates a null pointer that others can see.
InvalidateCreate(w) ==
    /\ At(w, "create")
    /\ entries' = [entries EXCEPT ![frame[w].key] = IF @ = Absent THEN Null ELSE @]
    /\ Goto(w, "pop")
    /\ UNCHANGED <<rigidVars, queue, tableVars, unused_entries, memVars, clientVars>>

\* What try_pop leaves in the pool; Peeked is the faulty variant that copies
\* the first entry without taking it.
Peeked(pool) == pool
Popped(pool) == Tail(pool)

\* try_pop assigns to the pointer in the map, whatever that is by now.
\* NotAssigned is the faulty variant that pops into a copy of the pointer.
NotAssigned(old, e) == old
Assigned(old, e) == e

InvalidatePop(w) ==
    /\ At(w, "pop")
    /\ IF unused_entries = <<>> THEN UNCHANGED poolVars
       ELSE /\ entries' = [entries EXCEPT ![frame[w].key] = Assigned(@, Head(unused_entries))]
            /\ unused_entries' = Popped(unused_entries)
    /\ Continue(w, [Forget(frame[w]) EXCEPT !.at = "put"])
    /\ UNCHANGED <<rigidVars, queue, tableVars, memVars, clientVars>>

\* A null pointer ends the process.
OrCrash(e, l) == IF e = Null THEN "crashed" ELSE l

InvalidateAt(w) ==
    LET e == entries[frame[w].key]
    IN  /\ At(w, "mark")
        /\ Continue(w, [frame[w] EXCEPT !.at = OrCrash(e, "flag"), !.entry = e])
        /\ UNCHANGED <<rigidVars, queue, tableVars, poolVars, memVars, clientVars>>

\* Entry::invalidate holds the mutex for one store.
InvalidateFlag(w) ==
    LET e == frame[w].entry
    IN  /\ At(w, "flag")
        /\ mtx[e] = NoWorker
        /\ mem' = [mem EXCEPT ![e].invalid = TRUE]
        /\ Continue(w, [Forget(frame[w]) EXCEPT !.at = "put"])
        /\ UNCHANGED <<rigidVars, queue, tableVars, poolVars, mtx, clientVars>>

-----------------------------------------------------------------------------
(* Table::commit and CommittedItems::update *)

\* AnyPrepared is the faulty variant that does not wait for every key.
AnyPrepared(f) == TRUE
AllPrepared(f) == f.todo = {}

BeginCommit(w) ==
    /\ At(w, "put")
    /\ AllPrepared(frame[w])
    /\ Continue(w, [frame[w] EXCEPT !.at = "test", !.i = 1])
    /\ UNCHANGED <<rigidVars, queue, tableVars, poolVars, memVars, clientVars>>

InLoop(f) == f.i <= Len(items[f.trx])
LoopKey(f) == items[f.trx][f.i]

CommitTest(w) ==
    LET f == frame[w]
    IN  /\ At(w, "test")
        /\ InLoop(f)
        /\ Continue(w, IF latest_commit[LoopKey(f)] < f.trx
                       THEN [f EXCEPT !.at = "set"] ELSE [f EXCEPT !.i = @ + 1])
        /\ UNCHANGED <<rigidVars, queue, tableVars, poolVars, memVars, clientVars>>

\* The main copy inserts, without effect, where the other one assigns.
CommitSet(w) ==
    LET f == frame[w]
    IN  /\ At(w, "set")
        /\ latest_commit' = [latest_commit EXCEPT
                               ![LoopKey(f)] = IF copy = "ycsb" THEN f.trx ELSE @]
        /\ Goto(w, "update")
        /\ UNCHANGED <<rigidVars, queue, items, poolVars, memVars, clientVars>>

\* entries.at(item.key): prepare has created the key.
UpdateAt(w) ==
    LET k == LoopKey(frame[w])
        e == entries[k]
    IN  /\ At(w, "update")
        /\ Continue(w, [frame[w] EXCEPT !.at = OrCrash(e, "lock"), !.key = k,
                                        !.entry = e, !.item = frame[w].trx])
        /\ UNCHANGED <<rigidVars, queue, tableVars, poolVars, memVars, clientVars>>

CommitDone(w) ==
    /\ At(w, "test")
    /\ ~InLoop(frame[w])
    /\ Continue(w, Idle)
    /\ UNCHANGED <<rigidVars, queue, tableVars, poolVars, memVars, clientVars>>

-----------------------------------------------------------------------------
(* Entry::update, under the mutex of the entry *)

\* NoGuard is the faulty variant without the lock_guard.
NoGuard(e) == TRUE
LockGuard(e) == mtx[e] = NoWorker

\* body_size; WithFlag is the faulty variant that counts the flag too.
WithFlag(i) == Length[i] + 1
BodySize(i) == Length[i]

\* The copy under YCSB-0.5.0 takes the invalid flag back first, the other last.
UpdateHeader(w) ==
    LET e == frame[w].entry
    IN  /\ At(w, "lock")
        /\ LockGuard(e)
        /\ mtx' = [mtx EXCEPT ![e] = w]
        /\ mem' = [mem EXCEPT ![e].invalid = @ /\ copy = "main",
                              ![e].header = BodySize(frame[w].item)]
        /\ Continue(w, [frame[w] EXCEPT !.at = "body", !.cell = 1])
        /\ UNCHANGED <<rigidVars, queue, tableVars, poolVars, clientVars>>

\* Where the arrival flag goes; InBody is the faulty variant that puts it onto
\* the last cell of the body.
InBody(i) == Length[i]
BehindBody(i) == Length[i] + 1

\* The body and the arrival flag behind it, one cell after the other.
UpdateBody(w) ==
    LET f == frame[w]
        last == f.cell = BehindBody(f.item)
    IN  /\ At(w, "body")
        /\ mem' = [mem EXCEPT ![f.entry].body[f.cell] =
                     IF last THEN IS_ARRIVED ELSE [key |-> f.key, trx |-> f.item]]
        /\ Continue(w, IF last THEN [f EXCEPT !.at = "valid", !.cell = 0]
                       ELSE [f EXCEPT !.cell = @ + 1])
        /\ UNCHANGED <<rigidVars, queue, tableVars, poolVars, mtx, clientVars>>

\* Then the lock ends.  update returns to the loop of commit, or to
\* get_item_addr, which alone writes version 0.
UpdateValid(w) ==
    LET f == frame[w]
    IN  /\ At(w, "valid")
        /\ mem' = [mem EXCEPT ![f.entry].invalid = FALSE]
        /\ mtx' = [mtx EXCEPT ![f.entry] = NoWorker]
        /\ Continue(w, IF f.item = 0 THEN [f EXCEPT !.at = "addr_set"]
                       ELSE [Forget(f) EXCEPT !.at = "test", !.i = @ + 1])
        /\ UNCHANGED <<rigidVars, queue, tableVars, poolVars, clientVars>>

-----------------------------------------------------------------------------
(* ACRAMPFastExecutor::get_item_and_addr and CommittedItems::get_item_addr *)

AddrFind(w) ==
    /\ At(w, "get")
    /\ Goto(w, IF Known(frame[w].key) THEN "addr_at" ELSE "addr_pop")
    /\ UNCHANGED <<rigidVars, queue, tableVars, poolVars, memVars, clientVars>>

AddrPop(w) ==
    /\ At(w, "addr_pop")
    /\ IF unused_entries = <<>> THEN Goto(w, "addr_at") /\ UNCHANGED unused_entries
       ELSE /\ unused_entries' = Popped(unused_entries)
            /\ Continue(w, [frame[w] EXCEPT !.at = "lock", !.entry = Head(unused_entries),
                                            !.item = 0])
    /\ UNCHANGED <<rigidVars, queue, tableVars, entries, memVars, clientVars>>

\* An entry that the map has for the key by now is overwritten.
AddrSet(w) ==
    /\ At(w, "addr_set")
    /\ entries' = [entries EXCEPT ![frame[w].key] = frame[w].entry]
    /\ Goto(w, "addr_at")
    /\ UNCHANGED <<rigidVars, queue, tableVars, unused_entries, memVars, clientVars>>

\* at throws if the key has no entry and a null pointer has no address: both
\* end the process.  Else the client gets the address, and the latest item of
\* the table with it.
AddrAt(w) ==
    LET k == frame[w].key
        e == entries[k]
    IN  /\ At(w, "addr_at")
        /\ IF e \in {Absent, Null} THEN Goto(w, "crashed") /\ UNCHANGED addr_cache
           ELSE /\ addr_cache' = [addr_cache EXCEPT ![w][k] = e]
                /\ Continue(w, Idle)
        /\ UNCHANGED <<rigidVars, queue, tableVars, poolVars, memVars, gets, read_buf, ret>>

-----------------------------------------------------------------------------
(* RDMAWriteSocket::read *)

\* The adapter copies the flag, the header, and then the other cells.
Copied(buf, m, c) ==
    CASE c = 0 -> [buf EXCEPT !.invalid = m.invalid]
      [] c = 1 -> [buf EXCEPT !.header = m.header]
      [] OTHER -> [buf EXCEPT !.body[c - 1] = m.body[c - 1]]

CopyCell(w) ==
    LET f == frame[w]
    IN  /\ At(w, "read")
        /\ f.cell <= MaxLength + 2
        /\ read_buf' = [read_buf EXCEPT ![w] = Copied(@, mem[f.entry], f.cell)]
        /\ Continue(w, [f EXCEPT !.cell = @ + 1])
        /\ UNCHANGED <<rigidVars, queue, tableVars, poolVars, memVars, gets, addr_cache, ret>>

\* The buffer is done with; what the adapter still copies nobody reads.
LeaveRead(w, f) ==
    /\ read_buf' = [read_buf EXCEPT ![w] = Cleared]
    /\ Continue(w, f)
    /\ UNCHANGED <<rigidVars, queue, tableVars, poolVars, memVars, gets, addr_cache>>

AskAgain(w) ==
    LeaveRead(w, [Idle EXCEPT !.at = "get", !.key = frame[w].key]) /\ UNCHANGED ret

HeaderArrived(w) == At(w, "read") /\ read_buf[w].header # 0

ReadInvalid(w) ==
    /\ HeaderArrived(w)
    /\ read_buf[w].invalid
    /\ AskAgain(w)

\* The cell behind the body, where the header says it is, has arrived.
BodyArrived(w) ==
    /\ HeaderArrived(w)
    /\ ~read_buf[w].invalid
    /\ read_buf[w].body[read_buf[w].header + 1] # Zero

\* The items whose bytes are in the body.
Unpacked(w) == {read_buf[w].body[c] : c \in 1..read_buf[w].header}

ReadBody(w) ==
    /\ BodyArrived(w)
    /\ ret' = [ret EXCEPT ![w][frame[w].key] = Unpacked(w)]
    /\ LeaveRead(w, Idle)

\* Bytes that are not those of one item need not unpack.
ReadGarbage(w) ==
    /\ BodyArrived(w)
    /\ \A i \in Item : Unpacked(w) # {i}
    /\ AskAgain(w)

-----------------------------------------------------------------------------
(* The whole server and its clients *)

Crashed == \E w \in Workers : At(w, "crashed")

Handler(w) ==
    BeginPut(w) \/ BeginGet(w) \/ ReadInvalid(w) \/ ReadBody(w) \/ ReadGarbage(w)

Executor(w) ==
    \/ Prepare(w) \/ InvalidateFind(w) \/ InvalidateCreate(w) \/ InvalidatePop(w)
    \/ InvalidateAt(w) \/ InvalidateFlag(w)
    \/ BeginCommit(w) \/ CommitTest(w) \/ CommitSet(w) \/ UpdateAt(w) \/ CommitDone(w)
    \/ UpdateHeader(w) \/ UpdateBody(w) \/ UpdateValid(w)
    \/ AddrFind(w) \/ AddrPop(w) \/ AddrSet(w) \/ AddrAt(w)

Next == ~Crashed /\ \E w \in Workers : Handler(w) \/ Executor(w) \/ CopyCell(w)

Spec == Init /\ [][Next]_vars

-----------------------------------------------------------------------------
(* Properties *)

\* Every variable stays in the set of values its code can hold.
TypeOK ==
    /\ copy \in Copies
    /\ loaded \in BOOLEAN
    /\ queue \subseteq Trxs
    /\ frame \in [Workers -> Frame]
    /\ items \in [Trxs -> Seq(Keys)]
    /\ latest_commit \in [Keys -> Versions]
    /\ entries \in [Keys -> Entries \cup {Null, Absent}]
    /\ unused_entries \in Seq(Entries)
    /\ mem \in [Entries -> Memory]
    /\ mtx \in [Entries -> Workers \cup {NoWorker}]
    /\ gets \in 0..MaxGets
    /\ addr_cache \in [Workers -> [Keys -> Entries \cup {Null}]]
    /\ read_buf \in [Workers -> Memory]
    /\ ret \in [Workers -> [Keys -> SUBSET (Item \cup {Zero, IS_ARRIVED})]]

\* A key that an entry has been given to, by whatever path: the map, an address
\* that a client remembers, or get_item_addr between its pop and its store.
Owners(e) ==
    {k \in Keys : \/ entries[k] = e
                  \/ \E w \in Workers :
                       \/ addr_cache[w][k] = e
                       \/ frame[w].entry = e /\ frame[w].key = k}

\* An entry serves one key for good, although entries are popped and pointers
\* overwritten without a lock: whatever address a client remembers, however
\* old, it never leads to another key or to an entry that is still free.
OneKeyPerEntry ==
    \A e \in Entries :
        /\ \A k1, k2 \in Owners(e) : k1 = k2
        /\ (\E i \in DOMAIN unused_entries : unused_entries[i] = e) => Owners(e) = {}

\* The version lies in the entry completely: header, body and the flag behind.
HoldsWhole(e, i) ==
    /\ mem[e].header = Length[i.trx]
    /\ \A c \in 1..mem[e].header : mem[e].body[c] = i
    /\ mem[e].body[mem[e].header + 1] # Zero

\* Between updates an entry holds one item whole, or nothing: executors that
\* update it at the same time do not mix their items.
EntryWhole ==
    \A e \in Entries :
        mtx[e] = NoWorker => mem[e].header = 0 \/ \E i \in Item : HoldsWhole(e, i)

\* t has been prepared for all its keys on this server.
Prepared(t) == t = 0 \/ Range(items[t]) = WriteSet[t]

\* Whatever bytes a read returns, torn or not, are of the key it asked for and
\* of versions that had been prepared for all their keys.
ReadsPrepared ==
    \A w \in Workers, k \in Keys : \A i \in ret[w][k] :
        i \in Item => i.key = k /\ Prepared(i.trx)

\* After a load the addresses that clients remember stay those of the map: no
\* executor gives a key another entry.
AddressesCurrent ==
    loaded => \A w \in Workers, k \in Keys : addr_cache[w][k] \in {Null, entries[k]}

\* Once a load has given every key its entry, no executor meets a null pointer or
\* a key without an entry.
NoCrash == loaded => ~Crashed

\* A read returns the bytes of one item.
ReadsIntact ==
    \A w \in Workers, k \in Keys : \A i, j \in ret[w][k] : i = j

\* After a load of items that no later one exceeds a read ends when the
\* adapter has copied the last cell, if not before: the copy is taken once, so
\* an arrival flag that it does not have is waited for without end.
ReadsEnd ==
    loaded => \A w \in Workers :
                At(w, "read") /\ frame[w].cell > MaxLength + 2 =>
                    HeaderArrived(w) /\ (read_buf[w].invalid \/ BodyArrived(w))
=============================================================================

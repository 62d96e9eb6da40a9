------------------------ MODULE CommittedItemsProofs ------------------------
(***************************************************************************)
(* Proofs about CommittedItems, for every set of keys, workers and         *)
(* transactions, every size of the pool and every length of the items.     *)
(***************************************************************************)
EXTENDS CommittedItemsInv, FiniteSetTheorems, TLAPS

-----------------------------------------------------------------------------
(* Types *)

\* The longest body is as long as one of the items, and no item is longer.
LEMMA Lengths ==
    /\ MaxLength \in Nat \ {0}
    /\ \A t \in Versions : Length[t] \in 1..MaxLength
<1>. DEFINE S == {Length[t] : t \in Versions}
<1>1. PICK t \in Versions : \A u \in Versions : Length[u] <= Length[t]
  BY CacheAssumption DEF Versions
<1>2. \A n \in S : n \in Nat \ {0}
  BY CacheAssumption DEF Versions
<1>3. \E n \in S : \A m \in S : n >= m
  BY <1>1, <1>2
<1>4. MaxLength \in S /\ \A m \in S : MaxLength >= m
  BY <1>3 DEF MaxLength, Max
<1>. QED  BY <1>2, <1>4

\* What the cells and the versions are.
LEMMA Ranges ==
    /\ Versions \subseteq Nat /\ 0 \in Versions /\ Trxs \subseteq Versions
    /\ \A t \in Versions : t # 0 => t \in Trxs
    /\ \A t \in Trxs : t # 0
    /\ Null \notin Entries /\ Absent \notin Entries /\ Null # Absent
    /\ Entries \subseteq Nat
    /\ \A t \in Versions : 1..(Length[t] + 1) \subseteq Cells
  BY Lengths, CacheAssumption DEF Versions, Null, Absent, Entries, Cells

\* A cleared buffer is a memory.
LEMMA ClearedType == Cleared \in Memory
  BY Lengths DEF Cleared, Memory

\* The frame of an idle worker is a frame.
LEMMA IdleType == Idle \in Frame
  BY Ranges DEF Idle, Frame, Statements

\* The initial states have the types of the variables.
LEMMA TypeInit ==
    ASSUME Init
    PROVE  TypeOK
<1>1. entries \in [Keys -> Entries \cup {Null, Absent}] /\ unused_entries \in Seq(Entries)
  BY CacheAssumption DEF Init, Entries
<1>2. queue \subseteq Trxs /\ items \in [Trxs -> Seq(Keys)] /\ latest_commit \in [Keys -> Versions]
  BY Ranges DEF Init
<1>3. frame \in [Workers -> Frame]
  BY IdleType DEF Init
<1>4. mem \in [Entries -> Memory] /\ read_buf \in [Workers -> Memory]
  BY ClearedType DEF Init
<1>5. ret \in [Workers -> [Keys -> SUBSET (Item \cup {Zero, IS_ARRIVED})]]
      /\ addr_cache \in [Workers -> [Keys -> Entries \cup {Null}]]
      /\ mtx \in [Entries -> Workers \cup {NoWorker}]
  BY DEF Init
<1>6. copy \in Copies /\ loaded \in BOOLEAN /\ gets \in 0..MaxGets
  BY CacheAssumption DEF Init
<1>. QED  BY <1>1, <1>2, <1>3, <1>4, <1>5, <1>6 DEF TypeOK

\* A worker that goes on with a frame leaves only frames.
LEMMA ContinueType ==
    ASSUME frame \in [Workers -> Frame], NEW w \in Workers, NEW f \in Frame, Continue(w, f)
    PROVE  frame' \in [Workers -> Frame]
  BY DEF Continue

\* A worker has a frame.
LEMMA FrameType ==
    ASSUME TypeOK, NEW w \in Workers
    PROVE  /\ frame[w] \in Frame
           /\ frame[w].trx \in Versions /\ frame[w].item \in Versions
           /\ frame[w].todo \in SUBSET Keys /\ frame[w].i \in Nat /\ frame[w].cell \in Nat
           /\ frame[w].key \in Keys \cup {NoKey} /\ frame[w].entry \in Entries \cup {Null}
  BY DEF TypeOK, Frame

\* What commit finds in its loop is a key of its transaction, which the cache
\* knows since it was prepared.
LEMMA LoopKnown ==
    ASSUME TypeOK, FrameOK, RunOK, KnownOK, NEW w \in Workers, In(w, {"set", "update"})
    PROVE  /\ LoopKey(frame[w]) \in Range(items[frame[w].trx])
           /\ LoopKey(frame[w]) \in Keys
           /\ Known(LoopKey(frame[w]))
<1>. DEFINE t == frame[w].trx
            k == LoopKey(frame[w])
<1>1. t \in Trxs /\ frame[w].i \in Nat \ {0} /\ frame[w].i <= Len(items[t])
  BY FrameType DEF FrameOK, FrameFits, Fits, In, Committing, InLoop
<1>2. items[t] \in Seq(Keys)
  BY <1>1 DEF TypeOK
<1>3. k \in Keys /\ k \in Range(items[t])
  BY <1>1, <1>2 DEF LoopKey, Range
<1>4. t # 0
  BY <1>1, Ranges
<1>5. \A v \in Workers : frame[v].trx = t => v = w
  BY <1>4 DEF RunOK
<1>6. Known(k) \/ \E v \in Workers : In(v, {"invalidate", "create"}) /\ frame[v].trx = t
  BY <1>1, <1>3 DEF KnownOK
<1>. QED  BY <1>3, <1>5, <1>6 DEF In

\* Every step leaves only frames.
LEMMA FrameTypeStep ==
    ASSUME TypeOK, FrameOK, RunOK, KnownOK, NEW w \in Workers, Handler(w) \/ Executor(w) \/ CopyCell(w)
    PROVE  frame' \in [Workers -> Frame]
<1>. DEFINE f == frame[w]
<1>. SUFFICES \E g \in Frame : Continue(w, g)
  BY ContinueType DEF TypeOK
<1>1. f \in Frame
  BY FrameType
<1>2. FrameFits(w)
  BY DEF FrameOK
<1>3. ASSUME NEW l \in Statements, Goto(w, l)
      PROVE  \E g \in Frame : Continue(w, g)
  <2>1. [f EXCEPT !.at = l] \in Frame
    BY <1>1 DEF Frame
  <2>. QED  BY <1>3, <2>1 DEF Goto
<1>4. ASSUME NEW l \in Statements, Continue(w, [Forget(f) EXCEPT !.at = l])
      PROVE  \E g \in Frame : Continue(w, g)
  <2>1. [Forget(f) EXCEPT !.at = l] \in Frame
    BY <1>1, Ranges DEF Frame, Forget
  <2>. QED  BY <1>4, <2>1
<1>5. CASE \/ InvalidateFind(w) \/ InvalidateCreate(w) \/ CommitSet(w)
           \/ AddrFind(w) \/ AddrSet(w)
  BY <1>5, <1>3 DEF Statements, InvalidateFind, InvalidateCreate, CommitSet, AddrFind, AddrSet
<1>6. CASE InvalidatePop(w) \/ InvalidateFlag(w)
  BY <1>6, <1>4 DEF Statements, InvalidatePop, InvalidateFlag
<1>7. CASE CommitDone(w) \/ ReadBody(w)
  BY <1>7, IdleType DEF CommitDone, ReadBody, LeaveRead
<1>8. CASE BeginPut(w)
  <2>1. PICK t \in queue : Continue(w, [Idle EXCEPT !.at = "put", !.trx = t, !.todo = WriteSet[t]])
    BY <1>8 DEF BeginPut
  <2>2. t \in Trxs /\ WriteSet[t] \in SUBSET Keys
    BY CacheAssumption DEF TypeOK
  <2>3. [Idle EXCEPT !.at = "put", !.trx = t, !.todo = WriteSet[t]] \in Frame
    BY <2>2, IdleType, Ranges DEF Frame, Statements
  <2>. QED  BY <2>1, <2>3
<1>9. CASE BeginGet(w)
  <2>1. PICK k \in Keys :
           IF addr_cache[w][k] = Null
           THEN Continue(w, [Idle EXCEPT !.at = "get", !.key = k])
           ELSE Continue(w, [Idle EXCEPT !.at = "read", !.key = k, !.entry = addr_cache[w][k]])
    BY <1>9 DEF BeginGet
  <2>2. addr_cache[w][k] \in Entries \cup {Null}
    BY DEF TypeOK
  <2>3. /\ [Idle EXCEPT !.at = "get", !.key = k] \in Frame
        /\ [Idle EXCEPT !.at = "read", !.key = k, !.entry = addr_cache[w][k]] \in Frame
    BY <2>2, IdleType DEF Frame, Statements
  <2>. QED  BY <2>1, <2>3
<1>10. CASE Prepare(w)
  <2>1. PICK k \in f.todo :
           Continue(w, [f EXCEPT !.at = "invalidate", !.key = k, !.todo = @ \ {k}])
    BY <1>10 DEF Prepare
  <2>2. [f EXCEPT !.at = "invalidate", !.key = k, !.todo = @ \ {k}] \in Frame
    BY <1>1 DEF Frame, Statements
  <2>. QED  BY <2>1, <2>2
<1>11. CASE InvalidateAt(w)
  <2>. DEFINE e == entries[f.key]
  <2>1. f.key \in Keys
    BY <1>2, <1>11 DEF InvalidateAt, At, FrameFits, Fits, In, Preparing, Updating, Getting
  <2>2. e \in Entries \cup {Null}
    BY <1>11, <2>1 DEF InvalidateAt, At, In, TypeOK, KnownOK, Known
  <2>3. [f EXCEPT !.at = OrCrash(e, "flag"), !.entry = e] \in Frame
    BY <1>1, <2>2 DEF Frame, Statements, OrCrash
  <2>. QED  BY <1>11, <2>3 DEF InvalidateAt
<1>12. CASE BeginCommit(w)
  <2>1. [f EXCEPT !.at = "test", !.i = 1] \in Frame
    BY <1>1 DEF Frame, Statements
  <2>. QED  BY <1>12, <2>1 DEF BeginCommit
<1>13. CASE CommitTest(w)
  <2>1. [f EXCEPT !.at = "set"] \in Frame /\ [f EXCEPT !.i = @ + 1] \in Frame
    BY <1>1 DEF Frame, Statements
  <2>. QED  BY <1>13, <2>1 DEF CommitTest
<1>14. CASE UpdateAt(w)
  <2>. DEFINE k == LoopKey(f)
              e == entries[k]
  <2>1. k \in Keys /\ e # Absent
    BY <1>14, LoopKnown DEF UpdateAt, At, In, Known
  <2>2. e \in Entries \cup {Null}
    BY <2>1 DEF TypeOK
  <2>3. [f EXCEPT !.at = OrCrash(e, "lock"), !.key = k, !.entry = e, !.item = f.trx] \in Frame
    BY <1>1, <2>1, <2>2 DEF Frame, Statements, OrCrash
  <2>. QED  BY <1>14, <2>3 DEF UpdateAt
<1>15. CASE UpdateHeader(w)
  <2>1. [f EXCEPT !.at = "body", !.cell = 1] \in Frame
    BY <1>1 DEF Frame, Statements
  <2>. QED  BY <1>15, <2>1 DEF UpdateHeader
<1>16. CASE UpdateBody(w)
  <2>1. [f EXCEPT !.at = "valid", !.cell = 0] \in Frame
    BY <1>1 DEF Frame, Statements
  <2>2. \A c \in Nat : [f EXCEPT !.cell = c] \in Frame
    BY <1>1 DEF Frame
  <2>3. f.cell + 1 \in Nat
    BY FrameType
  <2>. QED  BY <1>16, <2>1, <2>2, <2>3 DEF UpdateBody
<1>17. CASE UpdateValid(w)
  <2>1. [f EXCEPT !.at = "addr_set"] \in Frame
    BY <1>1 DEF Frame, Statements
  <2>2. \A i \in Nat : [Forget(f) EXCEPT !.at = "test", !.i = i] \in Frame
    BY <1>1, Ranges DEF Frame, Statements, Forget
  <2>3. f.i + 1 \in Nat /\ Forget(f).i = f.i
    BY FrameType DEF Forget
  <2>. QED  BY <1>17, <2>1, <2>2, <2>3 DEF UpdateValid
<1>18. CASE AddrPop(w)
  <2>1. CASE unused_entries = <<>>
    BY <1>18, <2>1, <1>3 DEF AddrPop, Statements
  <2>2. CASE unused_entries # <<>>
    <3>1. Head(unused_entries) \in Entries
      BY <2>2 DEF TypeOK
    <3>2. [f EXCEPT !.at = "lock", !.entry = Head(unused_entries), !.item = 0] \in Frame
      BY <1>1, <3>1, Ranges DEF Frame, Statements
    <3>. QED  BY <1>18, <2>2, <3>2 DEF AddrPop
  <2>. QED  BY <2>1, <2>2
<1>19. CASE AddrAt(w)
  BY <1>19, <1>3, IdleType DEF AddrAt, Statements
<1>20. CASE CopyCell(w)
  <2>1. [f EXCEPT !.cell = @ + 1] \in Frame
    BY <1>1 DEF Frame
  <2>. QED  BY <1>20, <2>1 DEF CopyCell
<1>21. CASE ReadInvalid(w) \/ ReadGarbage(w)
  <2>1. f.key \in Keys
    BY <1>2, <1>21 DEF ReadInvalid, ReadGarbage, BodyArrived, HeaderArrived, At, FrameFits, Fits, In,
                       Preparing, Updating, Getting
  <2>2. [Idle EXCEPT !.at = "get", !.key = f.key] \in Frame
    BY <2>1, IdleType DEF Frame, Statements
  <2>. QED  BY <1>21, <2>2 DEF ReadInvalid, ReadGarbage, AskAgain, LeaveRead
<1>. QED
  BY <1>5, <1>6, <1>7, <1>8, <1>9, <1>10, <1>11, <1>12, <1>13, <1>14, <1>15, <1>16, <1>17, <1>18,
     <1>19, <1>20, <1>21
  DEF Handler, Executor

\* Cells that are written hold items or flags.
LEMMA MemoryTypes ==
    ASSUME NEW m \in Memory
    PROVE  /\ m.invalid \in BOOLEAN /\ m.header \in 0..MaxLength
           /\ m.body \in [Cells -> Item \cup {Zero, IS_ARRIVED}]
           /\ \A b \in BOOLEAN : [m EXCEPT !.invalid = b] \in Memory
           /\ \A n \in 0..MaxLength : [m EXCEPT !.header = n] \in Memory
           /\ \A c \in Cells, x \in Item \cup {Zero, IS_ARRIVED} :
                 [m EXCEPT !.body = [m.body EXCEPT ![c] = x]] \in Memory
  BY DEF Memory

\* Every step leaves memories in the entries and in the buffers.
LEMMA MemoryTypeStep ==
    ASSUME TypeOK, FrameOK, NEW w \in Workers, Handler(w) \/ Executor(w) \/ CopyCell(w)
    PROVE  mem' \in [Entries -> Memory] /\ read_buf' \in [Workers -> Memory]
<1>. DEFINE f == frame[w]
            M(e) == mem[e]
<1>1. FrameFits(w) /\ f \in Frame
  BY FrameType DEF FrameOK
<1>2. mem \in [Entries -> Memory] /\ read_buf \in [Workers -> Memory]
  BY DEF TypeOK
<1>3. CASE InvalidateFlag(w)
  <2>1. f.entry \in Entries
    BY <1>1, <1>3 DEF InvalidateFlag, At, FrameFits, Fits, In
  <2>2. [mem[f.entry] EXCEPT !.invalid = TRUE] \in Memory
    BY <1>2, <2>1, MemoryTypes
  <2>. QED  BY <1>2, <1>3, <2>1, <2>2 DEF InvalidateFlag, clientVars
<1>4. CASE UpdateHeader(w)
  <2>1. f.entry \in Entries /\ f.item \in Versions
    BY <1>1, <1>4, FrameType DEF UpdateHeader, At, FrameFits, Fits, In, Updating
  <2>. DEFINE m == [mem[f.entry] EXCEPT !.invalid = @ /\ copy = "main"]
  <2>2. m \in Memory
    BY <1>2, <2>1, MemoryTypes
  <2>3. [m EXCEPT !.header = BodySize(f.item)] \in Memory
    <3>1. BodySize(f.item) \in 0..MaxLength
      BY <2>1, Lengths DEF BodySize
    <3>. HIDE DEF m, f
    <3>. QED  BY <2>2, <3>1, MemoryTypes
  <2>4. mem' = [mem EXCEPT ![f.entry] = [m EXCEPT !.header = BodySize(f.item)]]
    BY <1>2, <1>4, <2>1 DEF UpdateHeader
  <2>. QED  BY <1>2, <1>4, <2>1, <2>3, <2>4 DEF UpdateHeader, clientVars
<1>5. CASE UpdateBody(w)
  <2>. DEFINE x == IF f.cell = BehindBody(f.item) THEN IS_ARRIVED ELSE [key |-> f.key, trx |-> f.item]
  <2>1. f.entry \in Entries /\ f.item \in Versions /\ f.cell \in 1..(Length[f.item] + 1) /\ f.key \in Keys
    BY <1>1, <1>5, FrameType DEF UpdateBody, At, FrameFits, Fits, In, Updating
  <2>2. f.cell \in Cells
    BY <2>1, Ranges
  <2>3. x \in Item \cup {Zero, IS_ARRIVED}
    BY <2>1 DEF Item
  <2>4. [mem[f.entry] EXCEPT !.body = [mem[f.entry].body EXCEPT ![f.cell] = x]] \in Memory
    BY <1>2, <2>1, <2>2, <2>3, MemoryTypes
  <2>5. mem' = [mem EXCEPT ![f.entry] = [mem[f.entry] EXCEPT !.body = [mem[f.entry].body EXCEPT ![f.cell] = x]]]
    BY <1>2, <1>5, <2>1 DEF UpdateBody
  <2>. QED  BY <1>2, <1>5, <2>1, <2>4, <2>5 DEF UpdateBody, clientVars
<1>6. CASE UpdateValid(w)
  <2>1. f.entry \in Entries
    BY <1>1, <1>6 DEF UpdateValid, At, FrameFits, Fits, In, Updating
  <2>2. [mem[f.entry] EXCEPT !.invalid = FALSE] \in Memory
    BY <1>2, <2>1, MemoryTypes
  <2>. QED  BY <1>2, <1>6, <2>1, <2>2 DEF UpdateValid, clientVars
<1>7. CASE CopyCell(w)
  <2>. DEFINE m == mem[f.entry]
              b == read_buf[w]
  <2>1. f.entry \in Entries /\ f.cell \in Nat /\ f.cell <= MaxLength + 2
    BY <1>1, <1>7, FrameType DEF CopyCell, At, FrameFits, Fits, In
  <2>2. m \in Memory /\ b \in Memory
    BY <1>2, <2>1
  <2>3. f.cell # 0 /\ f.cell # 1 => f.cell - 1 \in Cells
    BY <2>1, Lengths DEF Cells
  <2>4. Copied(b, m, f.cell) \in Memory
    <3>1. CASE f.cell = 0
      BY <2>2, <3>1, MemoryTypes DEF Copied
    <3>2. CASE f.cell = 1
      BY <2>2, <3>2, MemoryTypes DEF Copied
    <3>3. CASE f.cell # 0 /\ f.cell # 1
      <4>1. m.body[f.cell - 1] \in Item \cup {Zero, IS_ARRIVED}
        BY <2>2, <2>3, <3>3, MemoryTypes
      <4>2. [b EXCEPT !.body = [b.body EXCEPT ![f.cell - 1] = m.body[f.cell - 1]]] \in Memory
        BY <2>2, <2>3, <3>3, <4>1, MemoryTypes
      <4>. QED  BY <3>3, <4>2 DEF Copied
    <3>. QED  BY <3>1, <3>2, <3>3
  <2>5. mem' = mem /\ read_buf' = [read_buf EXCEPT ![w] = Copied(b, m, f.cell)]
    BY <1>2, <1>7 DEF CopyCell, memVars
  <2>. QED  BY <1>2, <2>4, <2>5
<1>8. CASE ReadInvalid(w) \/ ReadBody(w) \/ ReadGarbage(w)
  BY <1>2, <1>8, ClearedType DEF ReadInvalid, ReadBody, ReadGarbage, AskAgain, LeaveRead, memVars
<1>9. CASE UNCHANGED <<mem, read_buf>>
  BY <1>2, <1>9
<1>. QED
  <2>1. ASSUME BeginPut(w) \/ BeginGet(w) \/ Prepare(w) \/ InvalidateFind(w) \/ InvalidateCreate(w)
                \/ InvalidatePop(w) \/ InvalidateAt(w)
        PROVE  UNCHANGED <<mem, read_buf>>
    BY <2>1 DEF BeginPut, BeginGet, Prepare, InvalidateFind, InvalidateCreate, InvalidatePop,
                InvalidateAt, memVars, clientVars
  <2>2. ASSUME BeginCommit(w) \/ CommitTest(w) \/ CommitSet(w) \/ UpdateAt(w) \/ CommitDone(w)
                \/ AddrFind(w) \/ AddrPop(w) \/ AddrSet(w) \/ AddrAt(w)
        PROVE  UNCHANGED <<mem, read_buf>>
    BY <2>2 DEF BeginCommit, CommitTest, CommitSet, UpdateAt, CommitDone, AddrFind, AddrPop,
                AddrSet, AddrAt, memVars, clientVars
  <2>. QED  BY <1>3, <1>4, <1>5, <1>6, <1>7, <1>8, <1>9, <2>1, <2>2 DEF Handler, Executor

\* Every step keeps every variable in its type.
LEMMA TypeStep ==
    ASSUME TypeOK, FrameOK, RunOK, KnownOK, [Next]_vars
    PROVE  TypeOK'
<1>1. CASE UNCHANGED vars
  BY <1>1 DEF TypeOK, vars, rigidVars, tableVars, poolVars, memVars, clientVars
<1>2. ASSUME NEW w \in Workers, Handler(w) \/ Executor(w) \/ CopyCell(w)
      PROVE  TypeOK'
  <2>. DEFINE f == frame[w]
              Rest == /\ copy' \in Copies
                      /\ loaded' \in BOOLEAN
                      /\ queue' \subseteq Trxs
                      /\ items' \in [Trxs -> Seq(Keys)]
                      /\ latest_commit' \in [Keys -> Versions]
                      /\ entries' \in [Keys -> Entries \cup {Null, Absent}]
                      /\ unused_entries' \in Seq(Entries)
                      /\ mtx' \in [Entries -> Workers \cup {NoWorker}]
                      /\ gets' \in 0..MaxGets
                      /\ addr_cache' \in [Workers -> [Keys -> Entries \cup {Null}]]
                      /\ ret' \in [Workers -> [Keys -> SUBSET (Item \cup {Zero, IS_ARRIVED})]]
  <2>1. f \in Frame /\ FrameFits(w)
    BY FrameType DEF FrameOK
  <2>. USE DEF TypeOK
  <2>. SUFFICES Rest
    BY <1>2, FrameTypeStep, MemoryTypeStep
  <2>2. CASE BeginPut(w) \/ InvalidateFind(w) \/ InvalidateAt(w) \/ BeginCommit(w) \/ CommitTest(w)
             \/ UpdateAt(w) \/ CommitDone(w) \/ AddrFind(w) \/ ReadInvalid(w) \/ ReadGarbage(w)
             \/ CopyCell(w)
    BY <2>2 DEF BeginPut, InvalidateFind, InvalidateAt, BeginCommit, CommitTest, UpdateAt, CommitDone,
                AddrFind, ReadInvalid, ReadGarbage, CopyCell, AskAgain, LeaveRead,
                rigidVars, tableVars, poolVars, memVars, clientVars
  <2>3. CASE BeginGet(w)
    BY <2>3, CacheAssumption
    DEF BeginGet, rigidVars, tableVars, poolVars, memVars
  <2>4. CASE Prepare(w)
    <3>1. f.trx \in Trxs
      BY <2>1, <2>4 DEF Prepare, At, FrameFits, Fits, In, Preparing
    <3>2. PICK k \in f.todo : items' = [items EXCEPT ![f.trx] = Append(@, k)]
      BY <2>4 DEF Prepare
    <3>3. k \in Keys
      BY FrameType
    <3>4. items' \in [Trxs -> Seq(Keys)]
      BY <3>1, <3>2, <3>3
    <3>. QED
      BY <2>4, <3>4 DEF Prepare, rigidVars, poolVars, memVars, clientVars
  <2>5. CASE InvalidateCreate(w)
    BY <2>5 DEF InvalidateCreate, rigidVars, tableVars, memVars, clientVars
  <2>6. CASE InvalidatePop(w)
    <3>1. unused_entries # <<>> => /\ Head(unused_entries) \in Entries
                                   /\ Tail(unused_entries) \in Seq(Entries)
      OBVIOUS
    <3>2. entries' \in [Keys -> Entries \cup {Null, Absent}] /\ unused_entries' \in Seq(Entries)
      BY <2>6, <3>1 DEF InvalidatePop, Assigned, Popped, poolVars
    <3>. QED
      BY <2>6, <3>2 DEF InvalidatePop, rigidVars, tableVars, memVars, clientVars
  <2>7. CASE InvalidateFlag(w)
    BY <2>7 DEF InvalidateFlag, rigidVars, tableVars, poolVars, clientVars
  <2>8. CASE CommitSet(w)
    <3>1. f.trx \in Versions
      BY FrameType
    <3>2. latest_commit' \in [Keys -> Versions]
      BY <2>8, <3>1 DEF CommitSet
    <3>. QED
      BY <2>8, <3>2 DEF CommitSet, rigidVars, poolVars, memVars, clientVars
  <2>9. CASE UpdateHeader(w) \/ UpdateBody(w) \/ UpdateValid(w)
    <3>1. CASE UpdateHeader(w)
      BY <3>1 DEF UpdateHeader, rigidVars, tableVars, poolVars, clientVars
    <3>2. CASE UpdateBody(w)
      BY <3>2 DEF UpdateBody, rigidVars, tableVars, poolVars, clientVars
    <3>3. CASE UpdateValid(w)
      BY <3>3 DEF UpdateValid, rigidVars, tableVars, poolVars, clientVars
    <3>. QED  BY <2>9, <3>1, <3>2, <3>3
  <2>10. CASE AddrPop(w)
    <3>1. CASE unused_entries = <<>>
      BY <2>10, <3>1 DEF AddrPop, rigidVars, tableVars, memVars, clientVars
    <3>2. CASE unused_entries # <<>>
      <4>1. Tail(unused_entries) \in Seq(Entries)
        BY <3>2
      <4>2. unused_entries' = Tail(unused_entries)
        BY <2>10, <3>2 DEF AddrPop, Popped
      <4>. QED
        BY <2>10, <4>1, <4>2 DEF AddrPop, rigidVars, tableVars, memVars, clientVars
    <3>. QED  BY <3>1, <3>2
  <2>11. CASE AddrSet(w)
    <3>1. f.entry \in Entries
      BY <2>1, <2>11 DEF AddrSet, At, FrameFits, Fits, In
    <3>. QED
      BY <2>11, <3>1 DEF AddrSet, rigidVars, tableVars, memVars, clientVars
  <2>12. CASE AddrAt(w)
    <3>1. f.key \in Keys
      BY <2>1, <2>12 DEF AddrAt, At, FrameFits, Fits, In, Preparing, Updating, Getting
    <3>2. entries[f.key] \notin {Absent, Null} => entries[f.key] \in Entries
      BY <3>1
    <3>3. \/ addr_cache' = addr_cache
          \/ /\ entries[f.key] \notin {Absent, Null}
             /\ addr_cache' = [addr_cache EXCEPT ![w][f.key] = entries[f.key]]
      BY <2>12, Zenon DEF AddrAt
    <3>4. addr_cache' \in [Workers -> [Keys -> Entries \cup {Null}]]
      <4>1. CASE addr_cache' = addr_cache
        BY <4>1
      <4>2. ASSUME entries[f.key] \notin {Absent, Null},
                   addr_cache' = [addr_cache EXCEPT ![w][f.key] = entries[f.key]]
            PROVE  addr_cache' \in [Workers -> [Keys -> Entries \cup {Null}]]
        <5>1. addr_cache \in [Workers -> [Keys -> Entries \cup {Null}]]
          OBVIOUS
        <5>. QED  BY <3>1, <3>2, <4>2, <5>1
      <4>. QED  BY <3>3, <4>1, <4>2, Zenon
    <3>5. UNCHANGED <<rigidVars, queue, tableVars, poolVars, memVars, gets, ret>>
      BY <2>12, Zenon DEF AddrAt
    <3>. QED
      BY <3>4, <3>5 DEF rigidVars, tableVars, poolVars, memVars
  <2>13. CASE ReadBody(w)
    <3>1. read_buf[w].header \in 0..MaxLength
          /\ read_buf[w].body \in [Cells -> Item \cup {Zero, IS_ARRIVED}]
      BY MemoryTypes
    <3>2. \A c \in 1..read_buf[w].header : c \in Cells
      BY <3>1, Lengths DEF Cells
    <3>3. Unpacked(w) \in SUBSET (Item \cup {Zero, IS_ARRIVED})
      BY <3>1, <3>2 DEF Unpacked
    <3>4. ret' \in [Workers -> [Keys -> SUBSET (Item \cup {Zero, IS_ARRIVED})]]
      BY <2>13, <3>3 DEF ReadBody
    <3>. QED
      BY <2>13, <3>4 DEF ReadBody, LeaveRead, rigidVars, tableVars, poolVars, memVars
  <2>. QED
    BY <1>2, <2>2, <2>3, <2>4, <2>5, <2>6, <2>7, <2>8, <2>9, <2>10, <2>11, <2>12, <2>13
    DEF Handler, Executor
<1>. QED
  BY <1>1, <1>2 DEF Next

\* A step of a worker changes no other worker's frame.
LEMMA FramesStay ==
    ASSUME TypeOK, NEW w \in Workers, Handler(w) \/ Executor(w) \/ CopyCell(w)
    PROVE  \A v \in Workers \ {w} : frame'[v] = frame[v]
<1>. SUFFICES \E g : frame' = [frame EXCEPT ![w] = g]
  BY DEF TypeOK
<1>1. CASE Handler(w)
  BY <1>1, Zenon DEF Handler, BeginPut, BeginGet, ReadInvalid, ReadBody, ReadGarbage, AskAgain, LeaveRead,
             Continue
<1>2. CASE Executor(w)
  BY <1>2, Zenon DEF Executor, Prepare, InvalidateFind, InvalidateCreate, InvalidatePop, InvalidateAt,
             InvalidateFlag, BeginCommit, CommitTest, CommitSet, UpdateAt, CommitDone, UpdateHeader,
             UpdateBody, UpdateValid, AddrFind, AddrPop, AddrSet, AddrAt, Continue, Goto
<1>3. CASE CopyCell(w)
  BY <1>3 DEF CopyCell, Continue
<1>. QED  BY <1>1, <1>2, <1>3

\* Only Prepare changes the table's items.
LEMMA ItemsStep ==
    ASSUME TypeOK, FrameOK, NEW w \in Workers, Handler(w) \/ Executor(w) \/ CopyCell(w)
    PROVE  Prepare(w) \/ items' = items
<1>1. CASE Handler(w)
  BY <1>1 DEF Handler, BeginPut, BeginGet, ReadInvalid, ReadBody, ReadGarbage, AskAgain, LeaveRead, tableVars
<1>2. CASE Executor(w)
  BY <1>2 DEF Executor, InvalidateFind, InvalidateCreate, InvalidatePop, InvalidateAt, InvalidateFlag,
              BeginCommit, CommitTest, CommitSet, UpdateAt, CommitDone, UpdateHeader, UpdateBody,
              UpdateValid, AddrFind, AddrPop, AddrSet, AddrAt, tableVars
<1>3. CASE CopyCell(w)
  BY <1>3 DEF CopyCell, tableVars
<1>. QED  BY <1>1, <1>2, <1>3

\* Prepare adds one of its keys to the items of its transaction.
LEMMA Prepares ==
    ASSUME TypeOK, FrameOK, NEW w \in Workers, Prepare(w)
    PROVE  LET t == frame[w].trx
           IN  /\ t \in Trxs
               /\ \E k \in frame[w].todo :
                     /\ k \in Keys
                     /\ items'[t] = Append(items[t], k)
                     /\ Range(items'[t]) = Range(items[t]) \cup {k}
                     /\ Len(items'[t]) = Len(items[t]) + 1
                     /\ frame'[w] = [frame[w] EXCEPT !.at = "invalidate", !.key = k, !.todo = @ \ {k}]
               /\ \A u \in Trxs \ {t} : items'[u] = items[u]
<1>. DEFINE t == frame[w].trx
<1>1. t \in Trxs
  BY DEF Prepare, At, FrameOK, FrameFits, Fits, In, Preparing
<1>2. PICK k \in frame[w].todo :
         /\ items' = [items EXCEPT ![t] = Append(@, k)]
         /\ Continue(w, [frame[w] EXCEPT !.at = "invalidate", !.key = k, !.todo = @ \ {k}])
  BY DEF Prepare
<1>3. k \in Keys /\ items \in [Trxs -> Seq(Keys)] /\ frame \in [Workers -> Frame]
  BY FrameType DEF TypeOK
<1>4. items'[t] = Append(items[t], k) /\ items[t] \in Seq(Keys)
  BY <1>1, <1>2, <1>3
<1>5. Range(items'[t]) = Range(items[t]) \cup {k} /\ Len(items'[t]) = Len(items[t]) + 1
  <2>1. /\ Len(items'[t]) = Len(items[t]) + 1 /\ Len(items[t]) \in Nat
        /\ DOMAIN items'[t] = 1..(Len(items[t]) + 1) /\ DOMAIN items[t] = 1..Len(items[t])
        /\ \A n \in 1..Len(items[t]) : items'[t][n] = items[t][n]
        /\ items'[t][Len(items[t]) + 1] = k
    BY <1>3, <1>4
  <2>2. \A n : n \in DOMAIN items'[t] <=> n \in DOMAIN items[t] \/ n = Len(items[t]) + 1
    BY <2>1
  <2>3. \A n \in DOMAIN items[t] : items'[t][n] = items[t][n]
    BY <2>1
  <2>. QED  BY <2>1, <2>2, <2>3, Zenon DEF Range
<1>6. frame'[w] = [frame[w] EXCEPT !.at = "invalidate", !.key = k, !.todo = @ \ {k}]
  BY <1>2, <1>3 DEF Continue
<1>7. \A u \in Trxs \ {t} : items'[u] = items[u]
  BY <1>1, <1>2, <1>3
<1>. QED  BY <1>1, <1>3, <1>4, <1>5, <1>6, <1>7

\* In the initial states no worker is doing anything.
LEMMA FrameInit ==
    ASSUME Init
    PROVE  FrameOK
  BY DEF Init, FrameOK, FrameFits, Fits, In, Idle, Preparing, Committing, Updating, Getting

\* Every step of a worker leaves a frame that fits where it stands then.
LEMMA FitsStep ==
    ASSUME TypeOK, FrameOK, RunOK, KnownOK, NEW w \in Workers, Handler(w) \/ Executor(w) \/ CopyCell(w)
    PROVE  Fits(frame'[w])
<1>. DEFINE f == frame[w]
<1>1. f \in Frame /\ Fits(f) /\ frame \in [Workers -> Frame]
  BY FrameType DEF FrameOK, FrameFits, TypeOK
<1>2. ASSUME NEW g, Fits(g), Continue(w, g)
      PROVE  Fits(frame'[w])
  <2>1. frame'[w] = g
    BY <1>1, <1>2 DEF Continue
  <2>. QED  BY <1>2, <2>1
<1>3. f \in Frame /\ Fits(f)
  BY <1>1
<1>. HIDE DEF f
<1>. USE DEF Frame, Fits, Preparing, Committing, Updating, Getting
<1>4. CASE InvalidateFind(w)
  <2>1. f.at = "invalidate"
    BY <1>4 DEF InvalidateFind, At, f
  <2>2. Fits([f EXCEPT !.at = "mark"]) /\ Fits([f EXCEPT !.at = "create"])
    BY <1>3, <2>1
  <2>. QED  BY <1>2, <1>4, <2>2 DEF InvalidateFind, Goto, f
<1>5. CASE InvalidateCreate(w)
  <2>1. f.at = "create"
    BY <1>5 DEF InvalidateCreate, At, f
  <2>2. Fits([f EXCEPT !.at = "pop"])
    BY <1>3, <2>1
  <2>. QED  BY <1>2, <1>5, <2>2 DEF InvalidateCreate, Goto, f
<1>6. CASE CommitSet(w)
  <2>1. f.at = "set"
    BY <1>6 DEF CommitSet, At, f
  <2>2. Fits([f EXCEPT !.at = "update"])
    BY <1>3, <2>1
  <2>. QED  BY <1>2, <1>6, <2>2 DEF CommitSet, Goto, f
<1>7. CASE AddrFind(w)
  <2>1. f.at = "get"
    BY <1>7 DEF AddrFind, At, f
  <2>2. Fits([f EXCEPT !.at = "addr_at"]) /\ Fits([f EXCEPT !.at = "addr_pop"])
    BY <1>3, <2>1
  <2>. QED  BY <1>2, <1>7, <2>2 DEF AddrFind, Goto, f
<1>8. CASE AddrSet(w)
  <2>1. f.at = "addr_set"
    BY <1>8 DEF AddrSet, At, f
  <2>2. Fits([f EXCEPT !.at = "addr_at"])
    BY <1>3, <2>1
  <2>. QED  BY <1>2, <1>8, <2>2 DEF AddrSet, Goto, f
<1>9. CASE InvalidatePop(w)
  <2>1. f.at = "pop"
    BY <1>9 DEF InvalidatePop, At, f
  <2>2. Fits([Forget(f) EXCEPT !.at = "put"])
    BY <1>3, <2>1 DEF Forget
  <2>. QED  BY <1>2, <1>9, <2>2 DEF InvalidatePop, f
<1>10. CASE InvalidateFlag(w)
  <2>1. f.at = "flag"
    BY <1>10 DEF InvalidateFlag, At, f
  <2>2. Fits([Forget(f) EXCEPT !.at = "put"])
    BY <1>3, <2>1 DEF Forget
  <2>. QED  BY <1>2, <1>10, <2>2 DEF InvalidateFlag, f
<1>11. CASE CommitDone(w) \/ ReadBody(w)
  <2>1. Fits(Idle)
    BY DEF Idle
  <2>. QED  BY <1>2, <1>11, <2>1 DEF CommitDone, ReadBody, LeaveRead
<1>12. CASE BeginPut(w)
  <2>1. PICK t \in queue : Continue(w, [Idle EXCEPT !.at = "put", !.trx = t, !.todo = WriteSet[t]])
    BY <1>12 DEF BeginPut
  <2>2. t \in Trxs
    BY DEF TypeOK
  <2>3. Fits([Idle EXCEPT !.at = "put", !.trx = t, !.todo = WriteSet[t]])
    BY <2>2 DEF Idle
  <2>. QED  BY <1>2, <2>1, <2>3
<1>13. CASE BeginGet(w)
  <2>1. PICK k \in Keys :
           IF addr_cache[w][k] = Null
           THEN Continue(w, [Idle EXCEPT !.at = "get", !.key = k])
           ELSE Continue(w, [Idle EXCEPT !.at = "read", !.key = k, !.entry = addr_cache[w][k]])
    BY <1>13 DEF BeginGet
  <2>2. Fits([Idle EXCEPT !.at = "get", !.key = k])
    BY DEF Idle
  <2>3. CASE addr_cache[w][k] = Null
    BY <1>2, <2>1, <2>2, <2>3
  <2>4. CASE addr_cache[w][k] # Null
    <3>1. addr_cache[w][k] \in Entries
      BY <2>4 DEF TypeOK
    <3>2. Fits([Idle EXCEPT !.at = "read", !.key = k, !.entry = addr_cache[w][k]])
      BY <3>1 DEF Idle
    <3>. QED  BY <1>2, <2>1, <2>4, <3>2
  <2>. QED  BY <2>3, <2>4
<1>14. CASE Prepare(w)
  <2>1. PICK k \in f.todo :
           Continue(w, [f EXCEPT !.at = "invalidate", !.key = k, !.todo = @ \ {k}])
    BY <1>14 DEF Prepare, f
  <2>2. f.at = "put" /\ k \in Keys
    BY <1>3, <1>14 DEF Prepare, At, f
  <2>3. Fits([f EXCEPT !.at = "invalidate", !.key = k, !.todo = @ \ {k}])
    BY <1>3, <2>2
  <2>. QED  BY <1>2, <2>1, <2>3
<1>15. CASE InvalidateAt(w)
  <2>. DEFINE e == entries[f.key]
              l == OrCrash(e, "flag")
  <2>1. f.at = "mark"
    BY <1>15 DEF InvalidateAt, At, f
  <2>2. f.key \in Keys /\ Known(f.key)
    BY <1>3, <2>1 DEF KnownOK, In, f
  <2>3. e \in Entries \cup {Null}
    BY <2>2 DEF TypeOK, Known
  <2>4. l = "crashed" \/ (l = "flag" /\ e \in Entries)
    BY <2>3, Zenon DEF OrCrash
  <2>5. Continue(w, [f EXCEPT !.at = l, !.entry = e])
    BY <1>15 DEF InvalidateAt, f
  <2>. HIDE DEF l, e
  <2>6. Fits([f EXCEPT !.at = l, !.entry = e])
    BY <1>3, <2>1, <2>4
  <2>. QED  BY <1>2, <2>5, <2>6
<1>16. CASE BeginCommit(w)
  <2>1. f.at = "put"
    BY <1>16 DEF BeginCommit, At, f
  <2>2. Fits([f EXCEPT !.at = "test", !.i = 1])
    BY <1>3, <2>1
  <2>. QED  BY <1>2, <1>16, <2>2 DEF BeginCommit, f
<1>17. CASE CommitTest(w)
  <2>1. f.at = "test"
    BY <1>17 DEF CommitTest, At, f
  <2>2. Fits([f EXCEPT !.at = "set"]) /\ Fits([f EXCEPT !.i = @ + 1])
    BY <1>3, <2>1
  <2>. QED  BY <1>2, <1>17, <2>2 DEF CommitTest, f
<1>18. CASE UpdateAt(w)
  <2>. DEFINE k == LoopKey(f)
              e == entries[k]
              l == OrCrash(e, "lock")
  <2>1. f.at = "update"
    BY <1>18 DEF UpdateAt, At, f
  <2>2. k \in Keys /\ Known(k)
    BY <2>1, LoopKnown DEF In, f
  <2>3. e \in Entries \cup {Null}
    BY <2>2 DEF TypeOK, Known
  <2>4. l = "crashed" \/ (l = "lock" /\ e \in Entries)
    BY <2>3, Zenon DEF OrCrash
  <2>5. Continue(w, [f EXCEPT !.at = l, !.key = k, !.entry = e, !.item = f.trx])
    BY <1>18 DEF UpdateAt, f
  <2>. HIDE DEF l, e, k
  <2>6. Fits([f EXCEPT !.at = l, !.key = k, !.entry = e, !.item = f.trx])
    BY <1>3, <2>1, <2>2, <2>4
  <2>. QED  BY <1>2, <2>5, <2>6
<1>19. CASE UpdateHeader(w)
  <2>1. f.at = "lock"
    BY <1>19 DEF UpdateHeader, At, f
  <2>2. Length[f.item] \in Nat
    BY <1>3, CacheAssumption DEF Versions
  <2>3. Fits([f EXCEPT !.at = "body", !.cell = 1])
    BY <1>3, <2>1, <2>2
  <2>. QED  BY <1>2, <1>19, <2>3 DEF UpdateHeader, f
<1>20. CASE UpdateBody(w)
  <2>1. f.at = "body"
    BY <1>20 DEF UpdateBody, At, f
  <2>2. Length[f.item] \in Nat
    BY <1>3, CacheAssumption DEF Versions
  <2>3. Fits([f EXCEPT !.at = "valid", !.cell = 0])
    BY <1>3, <2>1
  <2>4. f.cell # Length[f.item] + 1 => Fits([f EXCEPT !.cell = @ + 1])
    BY <1>3, <2>1, <2>2
  <2>. QED  BY <1>2, <1>20, <2>3, <2>4 DEF UpdateBody, BehindBody, f
<1>21. CASE UpdateValid(w)
  <2>1. f.at = "valid"
    BY <1>21 DEF UpdateValid, At, f
  <2>2. f.item = 0 => Fits([f EXCEPT !.at = "addr_set"])
    BY <1>3, <2>1
  <2>3. f.item # 0 => Fits([Forget(f) EXCEPT !.at = "test", !.i = @ + 1])
    BY <1>3, <2>1 DEF Forget, Versions
  <2>. QED  BY <1>2, <1>21, <2>2, <2>3 DEF UpdateValid, f
<1>22. CASE AddrPop(w)
  <2>1. f.at = "addr_pop"
    BY <1>22 DEF AddrPop, At, f
  <2>2. CASE unused_entries = <<>>
    <3>1. Fits([f EXCEPT !.at = "addr_at"])
      BY <1>3, <2>1
    <3>. QED  BY <1>2, <1>22, <2>2, <3>1 DEF AddrPop, Goto, f
  <2>3. CASE unused_entries # <<>>
    <3>. DEFINE e == Head(unused_entries)
    <3>1. e \in Entries
      BY <2>3 DEF TypeOK
    <3>2. Continue(w, [f EXCEPT !.at = "lock", !.entry = e, !.item = 0])
      BY <1>22, <2>3 DEF AddrPop, f
    <3>. HIDE DEF e
    <3>3. Fits([f EXCEPT !.at = "lock", !.entry = e, !.item = 0])
      BY <1>3, <2>1, <3>1
    <3>. QED  BY <1>2, <3>2, <3>3
  <2>. QED  BY <2>2, <2>3
<1>23. CASE AddrAt(w)
  <2>1. f.at = "addr_at"
    BY <1>23 DEF AddrAt, At, f
  <2>2. Fits([f EXCEPT !.at = "crashed"]) /\ Fits(Idle)
    BY <1>3, <2>1 DEF Idle
  <2>3. Continue(w, [f EXCEPT !.at = "crashed"]) \/ Continue(w, Idle)
    BY <1>23, Zenon DEF AddrAt, Goto, f
  <2>. QED  BY <1>2, <2>2, <2>3
<1>24. CASE CopyCell(w)
  <2>1. f.at = "read"
    BY <1>24 DEF CopyCell, At, f
  <2>2. Fits([f EXCEPT !.cell = @ + 1])
    BY <1>3, <2>1
  <2>. QED  BY <1>2, <1>24, <2>2 DEF CopyCell, f
<1>25. CASE ReadInvalid(w) \/ ReadGarbage(w)
  <2>1. f.at = "read"
    BY <1>25 DEF ReadInvalid, ReadGarbage, BodyArrived, HeaderArrived, At, f
  <2>2. f.key \in Keys
    BY <1>3, <2>1
  <2>3. Fits([Idle EXCEPT !.at = "get", !.key = f.key])
    BY <2>2 DEF Idle
  <2>. QED  BY <1>2, <1>25, <2>3 DEF ReadInvalid, ReadGarbage, AskAgain, LeaveRead, f
<1>. QED
  BY <1>4, <1>5, <1>6, <1>7, <1>8, <1>9, <1>10, <1>11, <1>12, <1>13, <1>14, <1>15, <1>16, <1>17, <1>18, <1>19, <1>20, <1>21, <1>22, <1>23, <1>24, <1>25 DEF Handler, Executor

\* The control flow of a worker: where each action finds it and leaves it.
LEMMA Moves ==
    ASSUME TypeOK, NEW w \in Workers
    PROVE  LET l == frame[w].at
               m == frame'[w].at
           IN
           /\ BeginPut(w) => l = "idle" /\ m = "put"
           /\ BeginGet(w) => l = "idle" /\ m \in {"get", "read"}
           /\ Prepare(w) => l = "put" /\ m = "invalidate"
           /\ InvalidateFind(w) => l = "invalidate" /\ m \in {"mark", "create"}
           /\ InvalidateCreate(w) => l = "create" /\ m = "pop"
           /\ InvalidatePop(w) => l = "pop" /\ m = "put"
           /\ InvalidateAt(w) => l = "mark" /\ m \in {"flag", "crashed"}
           /\ InvalidateFlag(w) => l = "flag" /\ m = "put"
           /\ BeginCommit(w) => l = "put" /\ m = "test"
           /\ CommitTest(w) => l = "test" /\ m \in {"set", "test"}
           /\ CommitSet(w) => l = "set" /\ m = "update"
           /\ UpdateAt(w) => l = "update" /\ m \in {"lock", "crashed"}
           /\ CommitDone(w) => l = "test" /\ m = "idle"
           /\ UpdateHeader(w) => l = "lock" /\ m = "body"
           /\ UpdateBody(w) => l = "body" /\ m \in {"body", "valid"}
           /\ UpdateValid(w) => l = "valid" /\ m \in {"addr_set", "test"}
           /\ AddrFind(w) => l = "get" /\ m \in {"addr_at", "addr_pop"}
           /\ AddrPop(w) => l = "addr_pop" /\ m \in {"addr_at", "lock"}
           /\ AddrSet(w) => l = "addr_set" /\ m = "addr_at"
           /\ AddrAt(w) => l = "addr_at" /\ m \in {"idle", "crashed"}
           /\ CopyCell(w) => l = "read" /\ m = "read"
           /\ ReadInvalid(w) => l = "read" /\ m = "get"
           /\ ReadBody(w) => l = "read" /\ m = "idle"
           /\ ReadGarbage(w) => l = "read" /\ m = "get"
<1>. DEFINE f == frame[w]
<1>1. f \in Frame /\ frame \in [Workers -> Frame] /\ \A g : Continue(w, g) => frame'[w] = g
  BY FrameType DEF TypeOK, Continue
<1>. USE DEF Frame, At, Goto, Idle
<1>2. BeginPut(w) => f.at = "idle" /\ frame'[w].at = "put"
  BY <1>1 DEF BeginPut
<1>3. BeginGet(w) => f.at = "idle" /\ frame'[w].at \in {"get", "read"}
  BY <1>1 DEF BeginGet
<1>4. Prepare(w) => f.at = "put" /\ frame'[w].at = "invalidate"
  BY <1>1 DEF Prepare
<1>5. InvalidateFind(w) => f.at = "invalidate" /\ frame'[w].at \in {"mark", "create"}
  BY <1>1 DEF InvalidateFind
<1>6. InvalidateCreate(w) => f.at = "create" /\ frame'[w].at = "pop"
  BY <1>1 DEF InvalidateCreate
<1>7. InvalidatePop(w) => f.at = "pop" /\ frame'[w].at = "put"
  BY <1>1 DEF Forget, InvalidatePop
<1>8. InvalidateAt(w) => f.at = "mark" /\ frame'[w].at \in {"flag", "crashed"}
  BY <1>1 DEF OrCrash, InvalidateAt
<1>9. InvalidateFlag(w) => f.at = "flag" /\ frame'[w].at = "put"
  BY <1>1 DEF Forget, InvalidateFlag
<1>10. BeginCommit(w) => f.at = "put" /\ frame'[w].at = "test"
  BY <1>1 DEF BeginCommit
<1>11. CommitTest(w) => f.at = "test" /\ frame'[w].at \in {"set", "test"}
  BY <1>1 DEF CommitTest
<1>12. CommitSet(w) => f.at = "set" /\ frame'[w].at = "update"
  BY <1>1 DEF CommitSet
<1>13. UpdateAt(w) => f.at = "update" /\ frame'[w].at \in {"lock", "crashed"}
  BY <1>1 DEF OrCrash, UpdateAt
<1>14. CommitDone(w) => f.at = "test" /\ frame'[w].at = "idle"
  BY <1>1 DEF CommitDone
<1>15. UpdateHeader(w) => f.at = "lock" /\ frame'[w].at = "body"
  BY <1>1 DEF UpdateHeader
<1>16. UpdateBody(w) => f.at = "body" /\ frame'[w].at \in {"body", "valid"}
  BY <1>1 DEF UpdateBody
<1>17. UpdateValid(w) => f.at = "valid" /\ frame'[w].at \in {"addr_set", "test"}
  BY <1>1 DEF Forget, UpdateValid
<1>18. AddrFind(w) => f.at = "get" /\ frame'[w].at \in {"addr_at", "addr_pop"}
  BY <1>1 DEF AddrFind
<1>19. AddrPop(w) => f.at = "addr_pop" /\ frame'[w].at \in {"addr_at", "lock"}
  BY <1>1 DEF AddrPop
<1>20. AddrSet(w) => f.at = "addr_set" /\ frame'[w].at = "addr_at"
  BY <1>1 DEF AddrSet
<1>21. AddrAt(w) => f.at = "addr_at" /\ frame'[w].at \in {"idle", "crashed"}
  BY <1>1 DEF AddrAt
<1>22. CopyCell(w) => f.at = "read" /\ frame'[w].at = "read"
  BY <1>1 DEF CopyCell
<1>23. ReadInvalid(w) => f.at = "read" /\ frame'[w].at = "get"
  <2>1. \A k : [Idle EXCEPT !.at = "get", !.key = k].at = "get"
    OBVIOUS
  <2>2. ReadInvalid(w) => frame'[w] = [Idle EXCEPT !.at = "get", !.key = f.key]
    BY <1>1, Zenon DEF AskAgain, LeaveRead, ReadInvalid
  <2>3. ReadInvalid(w) => f.at = "read"
    BY DEF ReadInvalid, HeaderArrived
  <2>. QED  BY <2>1, <2>2, <2>3, Zenon
<1>24. ReadBody(w) => f.at = "read" /\ frame'[w].at = "idle"
  BY <1>1 DEF LeaveRead, BodyArrived, HeaderArrived, ReadBody
<1>25. ReadGarbage(w) => f.at = "read" /\ frame'[w].at = "get"
  BY <1>1 DEF AskAgain, LeaveRead, BodyArrived, HeaderArrived, ReadGarbage
<1>. QED
  BY <1>2, <1>3, <1>4, <1>5, <1>6, <1>7, <1>8, <1>9, <1>10, <1>11, <1>12, <1>13, <1>14, <1>15, <1>16, <1>17, <1>18, <1>19, <1>20, <1>21, <1>22, <1>23, <1>24, <1>25

\* Every step leaves frames that fit where the workers stand.
LEMMA FrameStep ==
    ASSUME TypeOK, FrameOK, RunOK, KnownOK, [Next]_vars
    PROVE  FrameOK'
<1>1. CASE UNCHANGED vars
  BY <1>1 DEF FrameOK, FrameFits, In, InLoop, vars, tableVars
<1>2. ASSUME NEW w \in Workers, Handler(w) \/ Executor(w) \/ CopyCell(w)
      PROVE  FrameOK'
  <2>. DEFINE f == frame[w]
  <2>1. ASSUME NEW v \in Workers \ {w}
        PROVE  FrameFits(v)'
    <3>1. frame'[v] = frame[v] /\ FrameFits(v)
      BY <1>2, <2>1, FramesStay DEF FrameOK
    <3>2. ASSUME In(v, {"set", "update"})
          PROVE  InLoop(frame[v])'
      <4>1. InLoop(frame[v]) /\ frame[v].trx \in Trxs /\ frame[v].i \in Nat
        BY <3>1, <3>2, FrameType DEF FrameFits, Fits, In, Committing
      <4>2. items'[frame[v].trx] = items[frame[v].trx]
            \/ Len(items'[frame[v].trx]) = Len(items[frame[v].trx]) + 1
        BY <1>2, <4>1, ItemsStep, Prepares
      <4>3. Len(items[frame[v].trx]) \in Nat
        BY <4>1 DEF TypeOK
      <4>. QED  BY <3>1, <4>1, <4>2, <4>3 DEF InLoop
    <3>. QED  BY <3>1, <3>2 DEF FrameFits, In
  <2>2. Fits(frame'[w])
    BY <1>2, FitsStep
  <2>3. f \in Frame /\ FrameFits(w) /\ frame \in [Workers -> Frame]
    BY FrameType DEF FrameOK, TypeOK
  <2>4. frame'[w].at \in Committing => frame'[w].i # 0
    <3>1. CASE BeginCommit(w)
      BY <2>3, <3>1 DEF BeginCommit, Continue, Frame
    <3>2. CASE CommitTest(w)
      BY <2>3, <3>2 DEF CommitTest, Continue, At, Frame, FrameFits, In, Committing
    <3>4. CASE CommitSet(w)
      BY <2>3, <3>4 DEF CommitSet, Continue, Goto, At, Frame, FrameFits, In, Committing
    <3>5. CASE CommitTest(w) \/ CommitSet(w)
      BY <3>2, <3>4, <3>5
    <3>3. CASE UpdateValid(w)
      BY <2>3, <3>3 DEF UpdateValid, Continue, Forget, Frame, Committing
    <3>. QED  BY <1>2, <2>3, <3>1, <3>3, <3>5, Moves DEF Handler, Executor, Committing
  <2>5. frame'[w].at \in {"set", "update"} => items' = items /\ InLoop(frame'[w])
    <3>1. CASE CommitTest(w)
      <4>1. InLoop(f) /\ f.at = "test" /\ items' = items
        BY <3>1 DEF CommitTest, At, tableVars
      <4>2. frame'[w] = [f EXCEPT !.at = "set"] \/ frame'[w] = [f EXCEPT !.i = @ + 1]
        BY <2>3, <3>1 DEF CommitTest, Continue
      <4>3. frame'[w].at = "test" \/ (frame'[w].i = f.i /\ frame'[w].trx = f.trx)
        BY <2>3, <4>1, <4>2 DEF Frame
      <4>. QED  BY <4>1, <4>3 DEF InLoop
    <3>2. CASE CommitSet(w)
      <4>1. InLoop(f) /\ items' = items
        BY <2>3, <3>2 DEF CommitSet, At, FrameFits, In
      <4>2. frame'[w].i = f.i /\ frame'[w].trx = f.trx
        BY <2>3, <3>2 DEF CommitSet, Continue, Goto, Frame
      <4>. QED  BY <4>1, <4>2 DEF InLoop
    <3>. QED  BY <1>2, <2>3, <3>1, <3>2, Moves DEF Handler, Executor, Committing
  <2>. QED  BY <2>1, <2>2, <2>4, <2>5 DEF FrameOK, FrameFits, In, InLoop
<1>. QED
  BY <1>1, <1>2 DEF Next

\* What a step does to the transaction of its worker, and to the queue: one
\* action takes a transaction, the others keep theirs or are done with it.
LEMMA TrxStep ==
    ASSUME TypeOK, FrameOK, NEW w \in Workers, Handler(w) \/ Executor(w) \/ CopyCell(w)
    PROVE  \/ \E t \in queue : /\ frame'[w] = [Idle EXCEPT !.at = "put", !.trx = t, !.todo = WriteSet[t]]
                               /\ queue' = queue \ {t}
                               /\ BeginPut(w)
           \/ /\ queue' = queue
              /\ ~BeginPut(w)
              /\ frame'[w].trx \in {frame[w].trx, 0}
              /\ frame'[w].at \in Preparing \cup Committing \cup Updating => frame'[w].trx = frame[w].trx
              /\ frame'[w].at \notin {"idle", "get", "read"} => frame'[w].trx = frame[w].trx
<1>. DEFINE f == frame[w]
            Same == queue' = queue /\ frame'[w].trx = f.trx
            Over == queue' = queue /\ frame'[w].trx = 0 /\ frame'[w].at \in {"idle", "get", "read"}
<1>1. f \in Frame /\ frame \in [Workers -> Frame] /\ \A g : Continue(w, g) => frame'[w] = g
  BY FrameType DEF TypeOK, Continue
<1>2. CASE BeginPut(w)
  BY <1>1, <1>2 DEF BeginPut
<1>3. ASSUME \/ InvalidateFind(w) \/ InvalidateCreate(w) \/ InvalidateAt(w) \/ BeginCommit(w)
             \/ CommitTest(w) \/ CommitSet(w) \/ UpdateAt(w) \/ UpdateHeader(w) \/ UpdateBody(w)
             \/ AddrFind(w) \/ AddrSet(w) \/ CopyCell(w)
      PROVE  Same
  <2>1. CASE InvalidateFind(w) \/ InvalidateCreate(w) \/ InvalidateAt(w)
    BY <1>1, <2>1 DEF Frame, Goto, InvalidateFind, InvalidateCreate, InvalidateAt
  <2>2. CASE BeginCommit(w) \/ CommitTest(w)
    BY <1>1, <2>2 DEF Frame, Goto, BeginCommit, CommitTest
  <2>3. CASE CommitSet(w) \/ UpdateAt(w)
    BY <1>1, <2>3 DEF Frame, Goto, CommitSet, UpdateAt
  <2>4. CASE UpdateHeader(w) \/ UpdateBody(w)
    BY <1>1, <2>4 DEF Frame, Goto, UpdateHeader, UpdateBody
  <2>5. CASE AddrFind(w) \/ AddrSet(w) \/ CopyCell(w)
    BY <1>1, <2>5 DEF Frame, Goto, AddrFind, AddrSet, CopyCell
  <2>. QED  BY <1>3, <2>1, <2>2, <2>3, <2>4, <2>5
<1>4. ASSUME InvalidatePop(w) \/ InvalidateFlag(w) \/ UpdateValid(w)
      PROVE  Same
  BY <1>1, <1>4 DEF Frame, Forget, InvalidatePop, InvalidateFlag, UpdateValid
<1>5. ASSUME Prepare(w)
      PROVE  Same
  BY <1>1, <1>5 DEF Frame, Prepare
<1>6. ASSUME AddrPop(w)
      PROVE  Same
  BY <1>1, <1>6 DEF Frame, AddrPop, Goto
<1>7. ASSUME CommitDone(w) \/ BeginGet(w) \/ ReadBody(w)
      PROVE  Over
  <2>1. CASE CommitDone(w) \/ ReadBody(w)
    BY <1>1, <2>1 DEF Idle, CommitDone, ReadBody, LeaveRead
  <2>2. CASE BeginGet(w)
    <3>1. PICK k \in Keys :
             \/ frame'[w] = [Idle EXCEPT !.at = "get", !.key = k]
             \/ frame'[w] = [Idle EXCEPT !.at = "read", !.key = k, !.entry = addr_cache[w][k]]
      BY <1>1, <2>2, Zenon DEF BeginGet
    <3>2. queue' = queue
      BY <2>2 DEF BeginGet
    <3>. QED  BY <3>1, <3>2 DEF Idle
  <2>. QED  BY <1>7, <2>1, <2>2
<1>8. ASSUME ReadInvalid(w) \/ ReadGarbage(w)
      PROVE  Over
  <2>1. frame'[w] = [Idle EXCEPT !.at = "get", !.key = f.key] /\ queue' = queue
    BY <1>1, <1>8, Zenon DEF ReadInvalid, ReadGarbage, AskAgain, LeaveRead
  <2>2. \A k : /\ [Idle EXCEPT !.at = "get", !.key = k].at = "get"
               /\ [Idle EXCEPT !.at = "get", !.key = k].trx = 0
    BY DEF Idle
  <2>. QED  BY <2>1, <2>2, Zenon
<1>9. ASSUME AddrAt(w)
      PROVE  Same \/ Over
  <2>1. queue' = queue /\ (frame'[w] = Idle \/ frame'[w] = [f EXCEPT !.at = "crashed"])
    BY <1>1, <1>9, Zenon DEF AddrAt, Goto
  <2>. QED  BY <1>1, <2>1 DEF Idle, Frame
<1>10. BeginPut(w) \/ Same \/ Over
  BY <1>3, <1>4, <1>5, <1>6, <1>7, <1>8, <1>9 DEF Handler, Executor
<1>11. CASE ~BeginPut(w)
  BY <1>10, <1>11 DEF Preparing, Committing, Updating
<1>. QED  BY <1>2, <1>11

\* In the initial states nothing has been prepared.
LEMMA RunInit ==
    ASSUME Init
    PROVE  RunOK
<1>1. \A t \in Trxs : Range(items[t]) = {}
  BY DEF Init, Range
<1>2. \A w \in Workers : frame[w] = Idle
  BY DEF Init
<1>3. 0 \notin queue
  BY Ranges DEF Init
<1>. QED  BY <1>1, <1>2, <1>3 DEF RunOK, In, Idle, Preparing, Committing, Updating

\* What has been prepared stays prepared.
LEMMA PreparedStays ==
    ASSUME TypeOK, FrameOK, RunOK, [Next]_vars, NEW t \in Versions, Prepared(t)
    PROVE  Prepared(t)'
<1>1. CASE items' = items
  BY <1>1 DEF Prepared
<1>2. ASSUME NEW w \in Workers, Prepare(w)
      PROVE  Prepared(t)'
  <2>. DEFINE u == frame[w].trx
  <2>1. PICK k \in frame[w].todo : Range(items'[u]) = Range(items[u]) \cup {k}
    BY <1>2, Prepares
  <2>2. Range(items[u]) \cup frame[w].todo = WriteSet[u]
    BY <1>2 DEF Prepare, At, RunOK, In, Preparing
  <2>3. u \in Trxs /\ \A v \in Trxs \ {u} : items'[v] = items[v]
    BY <1>2, Prepares
  <2>4. t = 0 \/ t \in Trxs
    BY DEF Versions
  <2>. QED  BY <2>1, <2>2, <2>3, <2>4 DEF Prepared
<1>. QED  BY <1>1, <1>2, ItemsStep DEF Next, vars, tableVars

\* Every step keeps the workers to one run of each transaction.
LEMMA RunStep ==
    ASSUME TypeOK, FrameOK, RunOK, KnownOK, [Next]_vars
    PROVE  RunOK'
<1>1. CASE UNCHANGED vars
  BY <1>1 DEF RunOK, In, Prepared, vars, tableVars
<1>2. ASSUME NEW w \in Workers, Handler(w) \/ Executor(w) \/ CopyCell(w)
      PROVE  RunOK'
  <2>. DEFINE f == frame[w]
  <2>1. \A v \in Workers \ {w} : frame'[v] = frame[v]
    BY <1>2, FramesStay
  <2>2. \A v \in Workers : frame[v].trx \notin queue
    BY DEF RunOK
  <2>3. 0 \notin queue
    BY Ranges DEF TypeOK
  <2>4. \/ \E t \in queue : frame'[w].trx = t /\ queue' = queue \ {t}
        \/ queue' = queue /\ frame'[w].trx \in {f.trx, 0}
    <3>1. \A t, T : [Idle EXCEPT !.at = "put", !.trx = t, !.todo = T].trx = t
      BY DEF Idle
    <3>2. CASE BeginPut(w)
      <4>1. PICK t \in queue :
               /\ frame'[w] = [Idle EXCEPT !.at = "put", !.trx = t, !.todo = WriteSet[t]]
               /\ queue' = queue \ {t}
        BY <1>2, <3>2, TrxStep
      <4>2. frame'[w].trx = t
        BY <3>1, <4>1
      <4>. QED  BY <4>1, <4>2
    <3>3. CASE ~BeginPut(w)
      BY <1>2, <3>3, TrxStep
    <3>. QED  BY <3>2, <3>3
  <2>5. /\ \A v \in Workers : frame'[v].trx \notin queue'
        /\ \A u, v \in Workers : frame'[u].trx = frame'[v].trx /\ frame'[u].trx # 0 => u = v
    BY <2>1, <2>2, <2>3, <2>4 DEF RunOK
  <2>6. \A t \in Trxs : Range(items'[t]) \subseteq WriteSet[t]
    <3>. SUFFICES ASSUME NEW t \in Trxs
                  PROVE  Range(items'[t]) \subseteq WriteSet[t]
      OBVIOUS
    <3>1. CASE Prepare(w)
      <4>1. f.todo \subseteq WriteSet[f.trx]
        BY <3>1 DEF Prepare, At, RunOK, In, Preparing
      <4>2. PICK k \in f.todo : Range(items'[f.trx]) = Range(items[f.trx]) \cup {k}
        BY <3>1, Prepares
      <4>3. t # f.trx => items'[t] = items[t]
        BY <3>1, Prepares
      <4>4. Range(items[t]) \subseteq WriteSet[t]
        BY DEF RunOK
      <4>. QED  BY <4>1, <4>2, <4>3, <4>4
    <3>2. CASE items' = items
      BY <3>2 DEF RunOK
    <3>. QED  BY <1>2, <3>1, <3>2, ItemsStep
  <2>7. ASSUME NEW v \in Workers \ {w}
        PROVE  /\ In(v, Preparing)' => Range(items'[frame'[v].trx]) \cup frame'[v].todo
                                          = WriteSet[frame'[v].trx]
               /\ In(v, Preparing \ {"put"})' => frame'[v].key \in Range(items'[frame'[v].trx])
               /\ In(v, Committing \cup Updating)' => Prepared(frame[v].trx)'
    <3>1. frame'[v] = frame[v] /\ frame[v].trx \in Versions
      BY <2>1, <2>7, FrameType
    <3>2. frame[v].trx \in Trxs => items'[frame[v].trx] = items[frame[v].trx]
      <4>1. ASSUME Prepare(w), frame[v].trx \in Trxs
            PROVE  frame[v].trx # f.trx
        BY <2>7, <4>1, Ranges DEF RunOK
      <4>. QED  BY <1>2, <4>1, ItemsStep, Prepares
    <3>3. In(v, Preparing) => frame[v].trx \in Trxs
      BY DEF FrameOK, FrameFits, Fits, In
    <3>4. In(v, Committing \cup Updating) => Prepared(frame[v].trx)'
      BY <3>1, <3>2, Ranges DEF RunOK, Prepared
    <3>. QED  BY <3>1, <3>2, <3>3, <3>4 DEF RunOK, In, Preparing
  <2>8. f \in Frame /\ frame \in [Workers -> Frame] /\ \A g : Continue(w, g) => frame'[w] = g
    BY FrameType DEF TypeOK, Continue
  <2>9. /\ In(w, Preparing)' => Range(items'[frame'[w].trx]) \cup frame'[w].todo = WriteSet[frame'[w].trx]
        /\ In(w, Preparing \ {"put"})' => frame'[w].key \in Range(items'[frame'[w].trx])
    <3>1. CASE BeginPut(w)
      <4>1. PICK t \in queue : frame'[w] = [Idle EXCEPT !.at = "put", !.trx = t, !.todo = WriteSet[t]]
        BY <2>8, <3>1 DEF BeginPut
      <4>2. frame'[w].at = "put" /\ frame'[w].trx = t /\ frame'[w].todo = WriteSet[t]
        BY <4>1 DEF Idle
      <4>3. t \in Trxs
        BY DEF TypeOK
      <4>. QED  BY <2>6, <4>2, <4>3 DEF In
    <3>2. CASE Prepare(w)
      <4>. DEFINE t == f.trx
      <4>1. PICK k \in f.todo :
               /\ Range(items'[t]) = Range(items[t]) \cup {k}
               /\ frame'[w] = [f EXCEPT !.at = "invalidate", !.key = k, !.todo = @ \ {k}]
        BY <3>2, Prepares
      <4>2. frame'[w].trx = t /\ frame'[w].key = k /\ frame'[w].todo = f.todo \ {k}
        BY <2>8, <4>1 DEF Frame
      <4>3. Range(items[t]) \cup f.todo = WriteSet[t]
        BY <3>2 DEF Prepare, At, RunOK, In, Preparing
      <4>. QED  BY <4>1, <4>2, <4>3
    <3>3. CASE InvalidateFind(w) \/ InvalidateCreate(w) \/ InvalidateAt(w)
      <4>1. /\ frame'[w].trx = f.trx /\ frame'[w].key = f.key /\ frame'[w].todo = f.todo
            /\ f.at \in {"invalidate", "create", "mark"} /\ items' = items
        <5>1. CASE InvalidateFind(w)
          BY <2>8, <5>1 DEF Frame, Goto, At, InvalidateFind, tableVars
        <5>2. CASE InvalidateCreate(w)
          BY <2>8, <5>2 DEF Frame, Goto, At, InvalidateCreate, tableVars
        <5>3. CASE InvalidateAt(w)
          BY <2>8, <5>3 DEF Frame, Goto, At, InvalidateAt, tableVars
        <5>. QED  BY <3>3, <5>1, <5>2, <5>3
      <4>. QED  BY <4>1 DEF RunOK, In, Preparing
    <3>4. CASE InvalidatePop(w) \/ InvalidateFlag(w)
      <4>1. /\ frame'[w].trx = f.trx /\ frame'[w].todo = f.todo /\ frame'[w].at = "put"
            /\ f.at \in {"pop", "flag"} /\ items' = items
        <5>1. CASE InvalidatePop(w)
          BY <2>8, <5>1 DEF Frame, Forget, At, InvalidatePop, tableVars
        <5>2. CASE InvalidateFlag(w)
          BY <2>8, <5>2 DEF Frame, Forget, At, InvalidateFlag, tableVars
        <5>. QED  BY <3>4, <5>1, <5>2
      <4>. QED  BY <4>1 DEF RunOK, In, Preparing
    <3>. QED  BY <1>2, <3>1, <3>2, <3>3, <3>4, Moves DEF Handler, Executor, In, Preparing
  <2>10. In(w, Committing \cup Updating)' => Prepared(frame[w].trx)'
    <3>1. ASSUME In(w, Committing \cup Updating)'
          PROVE  frame'[w].trx = f.trx /\ Prepared(f.trx) /\ items' = items
      <4>1. items' = items /\ ~BeginPut(w)
        BY <1>2, <3>1, ItemsStep, Moves DEF In, Committing, Updating
      <4>2. frame'[w].trx = f.trx
        BY <1>2, <3>1, <4>1, TrxStep DEF In
      <4>3. CASE BeginCommit(w)
        <5>1. In(w, Preparing) /\ f.todo = {}
          BY <4>3 DEF BeginCommit, At, AllPrepared, In, Preparing
        <5>. QED  BY <4>1, <4>2, <5>1 DEF RunOK, Prepared
      <4>4. CASE In(w, Committing \cup Updating)
        BY <4>1, <4>2, <4>4 DEF RunOK
      <4>5. CASE AddrPop(w)
        BY <4>1, <4>2, <4>5 DEF AddrPop, At, FrameOK, FrameFits, Fits, In, Getting, Prepared
      <4>. QED  BY <1>2, <3>1, <4>3, <4>4, <4>5, Moves DEF Handler, Executor, In, Committing, Updating
    <3>. QED  BY <3>1 DEF Prepared
  <2>. QED  BY <2>5, <2>6, <2>7, <2>9, <2>10 DEF RunOK
<1>. QED
  BY <1>1, <1>2 DEF Next

\* How the map and the pool change: a key gets a null pointer, or an entry
\* from the pool or from its worker; or an entry goes to a worker.
LEMMA EntriesStep ==
    ASSUME TypeOK, FrameOK, NEW w \in Workers, Handler(w) \/ Executor(w) \/ CopyCell(w)
    PROVE  LET k == frame[w].key
               e == Head(unused_entries)
           IN  \/ entries' = entries /\ unused_entries' = unused_entries
               \/ /\ InvalidateCreate(w)
                  /\ k \in Keys
                  /\ entries' = [entries EXCEPT ![k] = IF @ = Absent THEN Null ELSE @]
                  /\ unused_entries' = unused_entries
               \/ /\ InvalidatePop(w)
                  /\ k \in Keys
                  /\ unused_entries # <<>> /\ e \in Entries
                  /\ entries' = [entries EXCEPT ![k] = e]
                  /\ unused_entries' = Tail(unused_entries)
               \/ /\ AddrPop(w)
                  /\ unused_entries # <<>> /\ e \in Entries
                  /\ entries' = entries
                  /\ unused_entries' = Tail(unused_entries)
               \/ /\ AddrSet(w)
                  /\ k \in Keys /\ frame[w].entry \in Entries
                  /\ entries' = [entries EXCEPT ![k] = frame[w].entry]
                  /\ unused_entries' = unused_entries
<1>. DEFINE f == frame[w]
            Same == entries' = entries /\ unused_entries' = unused_entries
<1>1. In(w, {"create", "pop", "addr_set"}) => f.key \in Keys
  BY DEF FrameOK, FrameFits, Fits, In, Preparing, Updating, Getting
<1>2. unused_entries # <<>> => Head(unused_entries) \in Entries
  BY DEF TypeOK
<1>3. ASSUME Handler(w) \/ CopyCell(w)
      PROVE  Same
  BY <1>3 DEF Handler, BeginPut, BeginGet, ReadInvalid, ReadBody, ReadGarbage, AskAgain, LeaveRead,
              CopyCell, poolVars
<1>4. ASSUME \/ Prepare(w) \/ InvalidateFind(w) \/ InvalidateAt(w) \/ InvalidateFlag(w)
             \/ BeginCommit(w) \/ CommitTest(w) \/ CommitSet(w) \/ UpdateAt(w) \/ CommitDone(w)
             \/ UpdateHeader(w) \/ UpdateBody(w) \/ UpdateValid(w) \/ AddrFind(w) \/ AddrAt(w)
      PROVE  Same
  BY <1>4 DEF Prepare, InvalidateFind, InvalidateAt, InvalidateFlag, BeginCommit, CommitTest, CommitSet,
              UpdateAt, CommitDone, UpdateHeader, UpdateBody, UpdateValid, AddrFind, AddrAt, poolVars
<1>5. CASE InvalidateCreate(w)
  BY <1>1, <1>5 DEF InvalidateCreate, At, In
<1>6. CASE InvalidatePop(w)
  BY <1>1, <1>2, <1>6 DEF InvalidatePop, At, In, Assigned, Popped, poolVars
<1>7. CASE AddrPop(w)
  <2>1. CASE unused_entries = <<>>
    BY <1>7, <2>1 DEF AddrPop
  <2>2. CASE unused_entries # <<>>
    BY <1>2, <1>7, <2>2 DEF AddrPop, Popped
  <2>. QED  BY <2>1, <2>2
<1>8. CASE AddrSet(w)
  <2>1. f.entry \in Entries
    BY <1>8 DEF AddrSet, At, FrameOK, FrameFits, Fits, In
  <2>. QED  BY <1>1, <1>8, <2>1 DEF AddrSet, At, In
<1>. QED
  BY <1>3, <1>4, <1>5, <1>6, <1>7, <1>8 DEF Handler, Executor

\* A key that the cache knows stays known.
LEMMA KnownStays ==
    ASSUME TypeOK, FrameOK, NEW w \in Workers, Handler(w) \/ Executor(w) \/ CopyCell(w),
           NEW k \in Keys, Known(k)
    PROVE  Known(k)'
<1>1. entries'[k] \in {entries[k], Null} \cup Entries
  BY EntriesStep DEF TypeOK
<1>. QED  BY <1>1, Ranges DEF Known

\* In the initial states nothing has been prepared that could be unknown.
LEMMA KnownInit ==
    ASSUME Init
    PROVE  KnownOK
<1>1. \A t \in Trxs : Range(items[t]) = {}
  BY DEF Init, Range
<1>. QED  BY <1>1 DEF Init, KnownOK, In, Idle

\* A worker between the table and the cache keeps its transaction and its key
\* until the cache knows the key.
LEMMA HearsStep ==
    ASSUME TypeOK, FrameOK, NEW w \in Workers, Handler(w) \/ Executor(w) \/ CopyCell(w),
           In(w, {"invalidate", "create"}), NEW k \in Keys, frame[w].key = k
    PROVE  \/ Known(k)'
           \/ /\ In(w, {"invalidate", "create"})'
              /\ frame'[w].trx = frame[w].trx /\ frame'[w].key = k
<1>. DEFINE f == frame[w]
<1>1. InvalidateFind(w) \/ InvalidateCreate(w)
  BY Moves DEF In, Handler, Executor
<1>2. f \in Frame /\ frame \in [Workers -> Frame]
  BY FrameType DEF TypeOK
<1>3. CASE InvalidateFind(w) /\ ~Known(k)
  <2>1. frame'[w] = [f EXCEPT !.at = "create"]
    BY <1>2, <1>3 DEF InvalidateFind, Goto, Continue
  <2>2. frame'[w].at = "create" /\ frame'[w].trx = f.trx /\ frame'[w].key = k
    BY <1>2, <2>1 DEF Frame
  <2>. QED  BY <2>2 DEF In
<1>4. CASE InvalidateCreate(w)
  <2>1. entries' = [entries EXCEPT ![k] = IF @ = Absent THEN Null ELSE @]
    BY <1>4 DEF InvalidateCreate
  <2>2. entries'[k] # Absent
    BY <1>2, <2>1, Ranges DEF TypeOK
  <2>. QED  BY <2>2 DEF Known
<1>5. CASE Known(k)
  BY <1>5, KnownStays
<1>. QED  BY <1>1, <1>3, <1>4, <1>5

\* Every step keeps what has been prepared known to the cache.
LEMMA KnownStep ==
    ASSUME TypeOK, FrameOK, KnownOK, [Next]_vars
    PROVE  KnownOK'
<1>1. CASE UNCHANGED vars
  BY <1>1 DEF KnownOK, Known, In, vars, tableVars, poolVars
<1>2. ASSUME NEW w \in Workers, Handler(w) \/ Executor(w) \/ CopyCell(w)
      PROVE  KnownOK'
  <2>. DEFINE f == frame[w]
              Hears(v, t, k) == In(v, {"invalidate", "create"}) /\ frame[v].trx = t /\ frame[v].key = k
  <2>1. \A v \in Workers \ {w} : frame'[v] = frame[v]
    BY <1>2, FramesStay
  <2>2. ASSUME NEW t \in Trxs, NEW k \in Range(items'[t])
        PROVE  Known(k)' \/ \E v \in Workers : Hears(v, t, k)'
    <3>1. CASE k \in Range(items[t])
      <4>1. k \in Keys
        BY <3>1 DEF Range, TypeOK
      <4>2. CASE Known(k)
        BY <1>2, <4>1, <4>2, KnownStays
      <4>3. CASE \E v \in Workers : Hears(v, t, k)
        <5>1. PICK v \in Workers : Hears(v, t, k)
          BY <4>3
        <5>2. CASE v = w
          <6>1. In(w, {"invalidate", "create"}) /\ f.trx = t /\ f.key = k
            BY <5>1, <5>2
          <6>2. \/ Known(k)'
                \/ In(w, {"invalidate", "create"})' /\ frame'[w].trx = f.trx /\ frame'[w].key = k
            BY <1>2, <4>1, <6>1, HearsStep
          <6>. QED  BY <6>1, <6>2
        <5>3. CASE v # w
          BY <2>1, <5>1, <5>3 DEF In
        <5>. QED  BY <5>2, <5>3
      <4>. QED  BY <3>1, <4>2, <4>3 DEF KnownOK
    <3>2. CASE k \notin Range(items[t])
      <4>1. Prepare(w)
        BY <1>2, <2>2, <3>2, ItemsStep
      <4>2. t = f.trx
        BY <2>2, <3>2, <4>1, Prepares
      <4>3. PICK n \in f.todo :
               /\ Range(items'[t]) = Range(items[t]) \cup {n}
               /\ frame'[w] = [f EXCEPT !.at = "invalidate", !.key = n, !.todo = @ \ {n}]
        BY <4>1, <4>2, Prepares
      <4>4. n = k
        BY <2>2, <3>2, <4>3
      <4>5. Hears(w, t, k)'
        BY <4>2, <4>3, <4>4, FrameType DEF Frame, In
      <4>. QED  BY <4>5
    <3>. QED  BY <3>1, <3>2
  <2>3. ASSUME NEW v \in Workers, In(v, {"pop", "mark"})'
        PROVE  Known(frame[v].key)'
    <3>1. CASE v # w
      <4>1. frame[v].key \in Keys /\ In(v, {"pop", "mark"}) /\ frame'[v] = frame[v]
        BY <2>1, <2>3, <3>1 DEF In, FrameOK, FrameFits, Fits, Preparing
      <4>. QED  BY <1>2, <4>1, KnownStays DEF KnownOK
    <3>2. CASE v = w
      <4>1. InvalidateFind(w) \/ InvalidateCreate(w)
        BY <1>2, <2>3, <3>2, Moves DEF In, Handler, Executor
      <4>2. frame'[w].key = f.key
        BY <4>1, FrameType DEF InvalidateFind, InvalidateCreate, Goto, Continue, Frame, TypeOK
      <4>3. In(w, {"invalidate", "create"}) /\ ~In(w, {"invalidate", "create"})'
        BY <2>3, <3>2, <4>1 DEF In, InvalidateFind, InvalidateCreate, At
      <4>4. f.key \in Keys
        BY <4>3 DEF FrameOK, FrameFits, Fits, In, Preparing
      <4>5. \A k \in Keys : f.key = k => Known(k)'
        BY <1>2, <4>3, HearsStep
      <4>. QED  BY <3>2, <4>2, <4>4, <4>5 DEF Known
    <3>. QED  BY <3>1, <3>2
  <2>. QED  BY <2>2, <2>3 DEF KnownOK
<1>. QED
  BY <1>1, <1>2 DEF Next

-----------------------------------------------------------------------------
(* Entries and their owners *)

\* Where a worker has an entry from: it had it, or the map, an address it
\* remembers, or the pool gave it.
LEMMA EntryStep ==
    ASSUME TypeOK, FrameOK, NEW w \in Workers, Handler(w) \/ Executor(w) \/ CopyCell(w),
           frame'[w].entry \in Entries, frame'[w].key \in Keys
    PROVE  LET e == frame'[w].entry
               k == frame'[w].key
           IN  \/ frame[w].entry = e /\ frame[w].key = k
               \/ entries[k] = e
               \/ addr_cache[w][k] = e
               \/ AddrPop(w) /\ unused_entries # <<>> /\ e = Head(unused_entries) /\ k = frame[w].key
<1>. DEFINE f == frame[w]
            Kept == frame'[w].entry = f.entry /\ frame'[w].key = f.key
            Lost == frame'[w].entry = Null
<1>1. f \in Frame /\ frame \in [Workers -> Frame] /\ \A g : Continue(w, g) => frame'[w] = g
  BY FrameType DEF TypeOK, Continue
<1>2. ~Lost
  BY Ranges
<1>3. CASE \/ InvalidateFind(w) \/ InvalidateCreate(w) \/ BeginCommit(w) \/ CommitTest(w) \/ CommitSet(w)
           \/ UpdateHeader(w) \/ UpdateBody(w) \/ AddrFind(w) \/ AddrSet(w) \/ CopyCell(w)
  BY <1>1, <1>3 DEF Frame, Goto, InvalidateFind, InvalidateCreate, BeginCommit, CommitTest, CommitSet,
                    UpdateHeader, UpdateBody, AddrFind, AddrSet, CopyCell
<1>4. ASSUME Prepare(w)
      PROVE  Lost
  <2>1. f.entry = Null
    BY <1>4 DEF Prepare, At, FrameOK, FrameFits, Fits
  <2>. QED  BY <1>1, <1>4, <2>1 DEF Prepare, Frame
<1>5. ASSUME InvalidatePop(w) \/ InvalidateFlag(w)
      PROVE  Lost
  BY <1>1, <1>5 DEF InvalidatePop, InvalidateFlag, Forget, Frame
<1>6. ASSUME BeginPut(w) \/ CommitDone(w) \/ ReadBody(w)
      PROVE  Lost
  <2>3. Idle.entry = Null
    BY DEF Idle
  <2>2. \/ frame'[w] = Idle
        \/ \E t \in queue : frame'[w] = [Idle EXCEPT !.at = "put", !.trx = t, !.todo = WriteSet[t]]
    <3>1. CASE BeginPut(w)
      BY <1>1, <3>1, Zenon DEF BeginPut
    <3>2. CASE CommitDone(w)
      BY <1>1, <3>2, Zenon DEF CommitDone
    <3>3. CASE ReadBody(w)
      BY <1>1, <3>3, Zenon DEF ReadBody, LeaveRead
    <3>. QED  BY <1>6, <3>1, <3>2, <3>3, Zenon
  <2>5. CASE frame'[w] = Idle
    BY <2>3, <2>5, Zenon
  <2>6. ASSUME NEW t \in queue, frame'[w] = [Idle EXCEPT !.at = "put", !.trx = t, !.todo = WriteSet[t]]
        PROVE  Lost
    BY <2>6 DEF Idle
  <2>. QED  BY <2>2, <2>5, <2>6, Zenon
<1>7. ASSUME ReadInvalid(w) \/ ReadGarbage(w)
      PROVE  Lost
  <2>1. frame'[w] = [Idle EXCEPT !.at = "get", !.key = f.key]
    BY <1>1, <1>7, Zenon DEF ReadInvalid, ReadGarbage, AskAgain, LeaveRead
  <2>2. \A k : [Idle EXCEPT !.at = "get", !.key = k].entry = Null
    BY DEF Idle
  <2>. QED  BY <2>1, <2>2, Zenon
<1>8. ASSUME BeginGet(w)
      PROVE  Lost \/ addr_cache[w][frame'[w].key] = frame'[w].entry
  <2>1. PICK k \in Keys :
           \/ frame'[w] = [Idle EXCEPT !.at = "get", !.key = k]
           \/ frame'[w] = [Idle EXCEPT !.at = "read", !.key = k, !.entry = addr_cache[w][k]]
    BY <1>1, <1>8, Zenon DEF BeginGet
  <2>. QED  BY <2>1 DEF Idle
<1>9. ASSUME InvalidateAt(w)
      PROVE  frame'[w].entry = entries[f.key] /\ frame'[w].key = f.key
  BY <1>1, <1>9 DEF InvalidateAt, Frame
<1>10. ASSUME UpdateAt(w)
       PROVE  frame'[w].entry = entries[frame'[w].key]
  BY <1>1, <1>10 DEF UpdateAt, Frame
<1>11. ASSUME UpdateValid(w)
       PROVE  Lost \/ Kept
  BY <1>1, <1>11 DEF UpdateValid, Forget, Frame
<1>12. CASE AddrPop(w)
  <2>1. CASE unused_entries = <<>>
    BY <1>1, <1>12, <2>1 DEF AddrPop, Goto, Frame
  <2>2. CASE unused_entries # <<>>
    BY <1>1, <1>12, <2>2 DEF AddrPop, Frame
  <2>. QED  BY <2>1, <2>2
<1>13. ASSUME AddrAt(w)
       PROVE  Lost \/ Kept
  <2>1. frame'[w] = Idle \/ frame'[w] = [f EXCEPT !.at = "crashed"]
    BY <1>1, <1>13, Zenon DEF AddrAt, Goto
  <2>. QED  BY <1>1, <2>1 DEF Idle, Frame
<1>. QED
  BY <1>2, <1>3, <1>4, <1>5, <1>6, <1>7, <1>8, <1>9, <1>10, <1>11, <1>12, <1>13 DEF Handler, Executor

\* A client remembers an address only from the map.
LEMMA AddressStep ==
    ASSUME TypeOK, FrameOK, NEW w \in Workers, Handler(w) \/ Executor(w) \/ CopyCell(w),
           NEW v \in Workers, NEW k \in Keys
    PROVE  \/ addr_cache'[v][k] = addr_cache[v][k]
           \/ v = w /\ AddrAt(w) /\ entries[k] \in Entries /\ addr_cache'[v][k] = entries[k]
<1>1. CASE Handler(w) \/ CopyCell(w)
  BY <1>1 DEF Handler, BeginPut, BeginGet, ReadInvalid, ReadBody, ReadGarbage, AskAgain, LeaveRead,
              CopyCell, clientVars
<1>2. CASE \/ Prepare(w) \/ InvalidateFind(w) \/ InvalidateAt(w) \/ InvalidateFlag(w)
           \/ BeginCommit(w) \/ CommitTest(w) \/ CommitSet(w) \/ UpdateAt(w) \/ CommitDone(w)
           \/ UpdateHeader(w) \/ UpdateBody(w) \/ UpdateValid(w) \/ AddrFind(w)
           \/ InvalidateCreate(w) \/ InvalidatePop(w) \/ AddrPop(w) \/ AddrSet(w)
  BY <1>2 DEF Prepare, InvalidateFind, InvalidateAt, InvalidateFlag, BeginCommit, CommitTest, CommitSet,
              UpdateAt, CommitDone, UpdateHeader, UpdateBody, UpdateValid, AddrFind, InvalidateCreate,
              InvalidatePop, AddrPop, AddrSet, clientVars
<1>3. CASE AddrAt(w)
  <2>. DEFINE n == frame[w].key
  <2>1. \/ addr_cache' = addr_cache
        \/ /\ entries[n] \notin {Absent, Null}
           /\ addr_cache' = [addr_cache EXCEPT ![w][n] = entries[n]]
    BY <1>3, Zenon DEF AddrAt
  <2>2. addr_cache \in [Workers -> [Keys -> Entries \cup {Null}]]
    BY DEF TypeOK
  <2>3. n \in Keys /\ entries[n] \in Entries \cup {Null, Absent}
    BY <1>3 DEF AddrAt, At, FrameOK, FrameFits, Fits, Getting, TypeOK
  <2>. HIDE DEF n
  <2>. QED  BY <1>3, <2>1, <2>2, <2>3
<1>. QED  BY <1>1, <1>2, <1>3 DEF Executor

\* An entry of the pool is at one place in it; the pool without its first
\* entry has the others.
LEMMA PoolTail ==
    ASSUME TypeOK, PoolOK, unused_entries # <<>>
    PROVE  /\ Unused(Head(unused_entries))
           /\ \A i \in DOMAIN Tail(unused_entries) :
                 i + 1 \in DOMAIN unused_entries /\ Tail(unused_entries)[i] = unused_entries[i + 1]
           /\ \A i \in DOMAIN Tail(unused_entries) : Tail(unused_entries)[i] # Head(unused_entries)
<1>1. unused_entries \in Seq(Entries)
  BY DEF TypeOK
<1>2. /\ 1 \in DOMAIN unused_entries /\ unused_entries[1] = Head(unused_entries)
      /\ \A i \in DOMAIN Tail(unused_entries) :
            /\ i + 1 \in DOMAIN unused_entries /\ i + 1 # 1
            /\ Tail(unused_entries)[i] = unused_entries[i + 1]
  BY <1>1
<1>. QED  BY <1>2 DEF PoolOK, Unused

\* No step gives an entry to another key, unless it takes it from the pool.
LEMMA OwnersStep ==
    ASSUME TypeOK, FrameOK, NEW w \in Workers, Handler(w) \/ Executor(w) \/ CopyCell(w),
           NEW e \in Entries
    PROVE  \/ Owners(e)' \subseteq Owners(e)
           \/ /\ InvalidatePop(w) \/ AddrPop(w)
              /\ unused_entries # <<>> /\ e = Head(unused_entries)
              /\ unused_entries' = Tail(unused_entries)
              /\ Owners(e)' \subseteq Owners(e) \cup {frame[w].key}
<1>. DEFINE Pops == /\ InvalidatePop(w) \/ AddrPop(w)
                    /\ unused_entries # <<>> /\ e = Head(unused_entries)
                    /\ unused_entries' = Tail(unused_entries)
<1>1. ASSUME NEW k \in Keys, k \in Owners(e)'
      PROVE  k \in Owners(e) \/ (Pops /\ k = frame[w].key)
  <2>1. CASE entries'[k] = e
    <3>1. entries \in [Keys -> Entries \cup {Null, Absent}] /\ e # Null
      BY Ranges DEF TypeOK
    <3>2. \/ entries' = entries
          \/ \E n \in Keys : entries' = [entries EXCEPT ![n] = IF @ = Absent THEN Null ELSE @]
          \/ /\ InvalidatePop(w) /\ unused_entries # <<>> /\ unused_entries' = Tail(unused_entries)
             /\ entries' = [entries EXCEPT ![frame[w].key] = Head(unused_entries)]
          \/ entries' = [entries EXCEPT ![frame[w].key] = frame[w].entry]
      BY EntriesStep
    <3>3. entries[k] = e \/ (Pops /\ k = frame[w].key) \/ (k = frame[w].key /\ e = frame[w].entry)
      BY <2>1, <3>1, <3>2
    <3>. QED  BY <3>3 DEF Owners
  <2>2. ASSUME NEW v \in Workers, addr_cache'[v][k] = e
        PROVE  k \in Owners(e)
    BY <2>2, AddressStep DEF Owners
  <2>3. ASSUME NEW v \in Workers, frame'[v].entry = e, frame'[v].key = k
        PROVE  k \in Owners(e) \/ (Pops /\ k = frame[w].key)
    <3>1. CASE v # w
      BY <2>3, <3>1, FramesStay DEF Owners
    <3>2. CASE v = w
      <4>1. ASSUME AddrPop(w), unused_entries # <<>>, e = Head(unused_entries)
            PROVE  Pops
        BY <4>1 DEF AddrPop, Popped
      <4>. QED  BY <2>3, <3>2, <4>1, EntryStep DEF Owners
    <3>. QED  BY <3>1, <3>2
  <2>. QED  BY <1>1, <2>1, <2>2, <2>3 DEF Owners
<1>. QED  BY <1>1 DEF Owners

\* In the initial states every entry is in the pool once, and serves no key.
LEMMA PoolInit ==
    ASSUME Init
    PROVE  PoolOK
<1>1. \A e \in Entries : Owners(e) = {}
  BY Ranges DEF Init, Owners, Idle
<1>. QED  BY <1>1 DEF Init, PoolOK, OneKeyPerEntry

\* Every step keeps the entries with the keys they serve.
LEMMA PoolStep ==
    ASSUME TypeOK, FrameOK, PoolOK, [Next]_vars
    PROVE  PoolOK'
<1>1. CASE UNCHANGED vars
  BY <1>1 DEF PoolOK, OneKeyPerEntry, Owners, vars, poolVars, clientVars
<1>2. ASSUME NEW w \in Workers, Handler(w) \/ Executor(w) \/ CopyCell(w)
      PROVE  PoolOK'
  <2>1. unused_entries' = unused_entries \/ (unused_entries # <<>> /\ unused_entries' = Tail(unused_entries))
    BY <1>2, EntriesStep
  <2>2. \A i, j \in DOMAIN unused_entries' : unused_entries'[i] = unused_entries'[j] => i = j
    <3>1. CASE unused_entries' = unused_entries
      BY <3>1 DEF PoolOK
    <3>2. CASE unused_entries # <<>> /\ unused_entries' = Tail(unused_entries)
      <4>1. \A i \in DOMAIN unused_entries' :
               /\ i \in Nat /\ i + 1 \in DOMAIN unused_entries
               /\ unused_entries'[i] = unused_entries[i + 1]
        BY <3>2, PoolTail DEF TypeOK
      <4>. QED  BY <4>1 DEF PoolOK
    <3>. QED  BY <2>1, <3>1, <3>2
  <2>3. ASSUME NEW e \in Entries
        PROVE  /\ \A k1, k2 \in Owners(e)' : k1 = k2
               /\ Unused(e)' => Owners(e)' = {}
    <3>1. /\ \A k1, k2 \in Owners(e) : k1 = k2
          /\ Unused(e) => Owners(e) = {}
      BY DEF PoolOK, OneKeyPerEntry, Unused
    <3>2. Unused(e)' => Unused(e)
      BY <2>1, PoolTail DEF Unused
    <3>3. CASE Owners(e)' \subseteq Owners(e)
      BY <3>1, <3>2, <3>3
    <3>4. CASE /\ unused_entries # <<>> /\ e = Head(unused_entries)
               /\ unused_entries' = Tail(unused_entries)
               /\ Owners(e)' \subseteq Owners(e) \cup {frame[w].key}
      <4>1. Unused(e) /\ ~Unused(e)'
        BY <3>4, PoolTail DEF Unused
      <4>. QED  BY <3>1, <3>4, <4>1
    <3>. QED  BY <1>2, <3>3, <3>4, OwnersStep
  <2>. QED  BY <2>2, <2>3 DEF PoolOK, OneKeyPerEntry, Unused
<1>. QED
  BY <1>1, <1>2 DEF Next

-----------------------------------------------------------------------------
(* The cells of the entries *)

\* A worker that updates an entry has an entry, an item that fits into it, and
\* a key.
LEMMA Updates ==
    ASSUME TypeOK, FrameOK, NEW w \in Workers, In(w, Updating)
    PROVE  LET f == frame[w]
           IN  /\ f.entry \in Entries /\ f.key \in Keys /\ f.item \in Versions /\ f.item = f.trx
               /\ Length[f.item] \in 1..MaxLength /\ Length[f.item] + 1 \in Cells
               /\ mem[f.entry] \in Memory
               /\ f.at = "body" => f.cell \in Cells /\ f.cell \in 1..(Length[f.item] + 1)
<1>1. Fits(frame[w]) /\ frame[w] \in Frame
  BY FrameType DEF FrameOK, FrameFits
<1>2. /\ frame[w].entry \in Entries /\ frame[w].key \in Keys /\ frame[w].item = frame[w].trx
      /\ frame[w].item \in Versions
      /\ frame[w].at = "body" => frame[w].cell \in 1..(Length[frame[w].item] + 1)
  BY <1>1, FrameType DEF Fits, In, Updating
<1>3. Length[frame[w].item] \in 1..MaxLength /\ MaxLength \in Nat
  BY <1>2, Lengths
<1>4. Length[frame[w].item] + 1 \in Cells /\ \A c \in 1..(Length[frame[w].item] + 1) : c \in Cells
  BY <1>3 DEF Cells
<1>. QED  BY <1>2, <1>3, <1>4 DEF TypeOK

\* What a step does to the cells and to the mutexes.
LEMMA CellsStep ==
    ASSUME TypeOK, FrameOK, NEW w \in Workers, Handler(w) \/ Executor(w) \/ CopyCell(w)
    PROVE  LET f == frame[w]
           IN  \/ /\ ~UpdateHeader(w) /\ ~UpdateBody(w) /\ ~UpdateValid(w)
                  /\ mtx' = mtx
                  /\ \A e \in Entries : mem'[e].header = mem[e].header /\ mem'[e].body = mem[e].body
               \/ /\ UpdateHeader(w)
                  /\ mtx[f.entry] = NoWorker
                  /\ mtx' = [mtx EXCEPT ![f.entry] = w]
                  /\ mem'[f.entry].header = Length[f.item]
                  /\ \A e \in Entries : mem'[e].body = mem[e].body
                  /\ \A e \in Entries \ {f.entry} : mem'[e].header = mem[e].header
                  /\ frame'[w] = [f EXCEPT !.at = "body", !.cell = 1]
               \/ /\ UpdateBody(w)
                  /\ mtx' = mtx
                  /\ \A e \in Entries : mem'[e].header = mem[e].header
                  /\ \A e \in Entries \ {f.entry} : mem'[e].body = mem[e].body
                  /\ mem'[f.entry].body = [mem[f.entry].body EXCEPT ![f.cell] =
                        IF f.cell = Length[f.item] + 1 THEN IS_ARRIVED ELSE [key |-> f.key, trx |-> f.item]]
                  /\ frame'[w] = IF f.cell = Length[f.item] + 1 THEN [f EXCEPT !.at = "valid", !.cell = 0]
                                 ELSE [f EXCEPT !.cell = @ + 1]
               \/ /\ UpdateValid(w)
                  /\ mtx' = [mtx EXCEPT ![f.entry] = NoWorker]
                  /\ \A e \in Entries : mem'[e].header = mem[e].header /\ mem'[e].body = mem[e].body
<1>. DEFINE f == frame[w]
            Same == /\ mtx' = mtx
                    /\ \A e \in Entries : mem'[e].header = mem[e].header /\ mem'[e].body = mem[e].body
<1>1. f \in Frame /\ frame \in [Workers -> Frame] /\ \A g : Continue(w, g) => frame'[w] = g
  BY FrameType DEF TypeOK, Continue
<1>2. mem \in [Entries -> Memory]
  BY DEF TypeOK
<1>3. ASSUME Handler(w) \/ CopyCell(w)
      PROVE  Same
  BY <1>3 DEF Handler, BeginPut, BeginGet, ReadInvalid, ReadBody, ReadGarbage, AskAgain, LeaveRead,
              CopyCell, memVars
<1>4. ASSUME \/ Prepare(w) \/ InvalidateFind(w) \/ InvalidateAt(w)
             \/ BeginCommit(w) \/ CommitTest(w) \/ CommitSet(w) \/ UpdateAt(w) \/ CommitDone(w)
             \/ AddrFind(w) \/ InvalidateCreate(w) \/ InvalidatePop(w) \/ AddrPop(w) \/ AddrSet(w)
             \/ AddrAt(w)
      PROVE  Same
  BY <1>4 DEF Prepare, InvalidateFind, InvalidateAt, BeginCommit, CommitTest, CommitSet, UpdateAt,
              CommitDone, AddrFind, InvalidateCreate, InvalidatePop, AddrPop, AddrSet, AddrAt, memVars
<1>5. ASSUME InvalidateFlag(w)
      PROVE  Same
  <2>1. mtx' = mtx /\ mem' = [mem EXCEPT ![f.entry] = [mem[f.entry] EXCEPT !.invalid = TRUE]]
    BY <1>2, <1>5 DEF InvalidateFlag
  <2>. QED  BY <1>2, <2>1 DEF Memory
<1>6. CASE UpdateHeader(w)
  <2>1. In(w, Updating)
    BY <1>6 DEF UpdateHeader, At, In, Updating
  <2>2. f.entry \in Entries /\ mem[f.entry] \in Memory
    BY <2>1, Updates
  <2>. DEFINE m == [[mem[f.entry] EXCEPT !.invalid = @ /\ copy = "main"] EXCEPT !.header = Length[f.item]]
  <2>3. mem' = [mem EXCEPT ![f.entry] = m]
    BY <1>2, <1>6, <2>2 DEF UpdateHeader, BodySize
  <2>4. m.header = Length[f.item] /\ m.body = mem[f.entry].body
    BY <2>2 DEF Memory
  <2>5. /\ mtx[f.entry] = NoWorker /\ mtx' = [mtx EXCEPT ![f.entry] = w]
        /\ frame'[w] = [f EXCEPT !.at = "body", !.cell = 1]
    BY <1>1, <1>6 DEF UpdateHeader, LockGuard
  <2>. HIDE DEF m
  <2>. QED  BY <1>2, <1>6, <2>2, <2>3, <2>4, <2>5
<1>7. CASE UpdateBody(w)
  <2>. DEFINE x == IF f.cell = Length[f.item] + 1 THEN IS_ARRIVED ELSE [key |-> f.key, trx |-> f.item]
              m == [mem[f.entry] EXCEPT !.body = [mem[f.entry].body EXCEPT ![f.cell] = x]]
  <2>1. In(w, Updating)
    BY <1>7 DEF UpdateBody, At, In, Updating
  <2>2. f.entry \in Entries /\ mem[f.entry] \in Memory
    BY <2>1, Updates
  <2>3. mem' = [mem EXCEPT ![f.entry] = m]
    BY <1>2, <1>7, <2>2 DEF UpdateBody, BehindBody
  <2>4. m.header = mem[f.entry].header /\ m.body = [mem[f.entry].body EXCEPT ![f.cell] = x]
    BY <2>2 DEF Memory
  <2>5. /\ mtx' = mtx
        /\ frame'[w] = IF f.cell = Length[f.item] + 1 THEN [f EXCEPT !.at = "valid", !.cell = 0]
                       ELSE [f EXCEPT !.cell = @ + 1]
    BY <1>1, <1>7 DEF UpdateBody, BehindBody
  <2>. HIDE DEF m, x
  <2>6. /\ \A e \in Entries : mem'[e].header = mem[e].header
        /\ \A e \in Entries \ {f.entry} : mem'[e].body = mem[e].body
        /\ mem'[f.entry].body = [mem[f.entry].body EXCEPT ![f.cell] = x]
    BY <1>2, <2>2, <2>3, <2>4
  <2>. QED  BY <1>7, <2>5, <2>6 DEF x
<1>8. CASE UpdateValid(w)
  <2>1. mem' = [mem EXCEPT ![f.entry] = [mem[f.entry] EXCEPT !.invalid = FALSE]]
        /\ mtx' = [mtx EXCEPT ![f.entry] = NoWorker]
    BY <1>2, <1>8 DEF UpdateValid
  <2>2. \A e \in Entries : mem'[e].header = mem[e].header /\ mem'[e].body = mem[e].body
    BY <1>2, <2>1 DEF Memory
  <2>. QED  BY <1>8, <2>1, <2>2
<1>9. CASE Same /\ ~UpdateHeader(w) /\ ~UpdateBody(w) /\ ~UpdateValid(w)
  BY <1>9
<1>. QED
  BY <1>3, <1>4, <1>5, <1>6, <1>7, <1>8, <1>9 DEF Handler, Executor

\* The flag behind a body differs from an empty cell.
LEMMA Flags == IS_ARRIVED # Zero /\ Zero \notin Item
  BY CacheAssumption DEF IS_ARRIVED, Zero, Item

\* In the initial states no mutex is held and no cell is written.
LEMMA MutexInit ==
    ASSUME Init
    PROVE  MutexOK /\ EntryWhole
<1>1. \A e \in Entries : mtx[e] = NoWorker /\ mem[e].header = 0
  BY DEF Init, Cleared
<1>2. \A w \in Workers : frame[w].at = "idle"
  BY DEF Init, Idle
<1>. QED  BY <1>1, <1>2, CacheAssumption DEF MutexOK, EntryWhole, In

\* Who holds a mutex after a step that neither takes nor gives one back.
LEMMA HoldersStay ==
    ASSUME TypeOK, FrameOK, NEW w \in Workers, Handler(w) \/ Executor(w) \/ CopyCell(w),
           ~UpdateHeader(w) /\ ~UpdateBody(w) /\ ~UpdateValid(w), NEW v \in Workers
    PROVE  /\ In(v, {"body", "valid"})' <=> In(v, {"body", "valid"})
           /\ In(v, {"body", "valid"}) => frame'[v] = frame[v]
<1>1. CASE v # w
  BY <1>1, FramesStay DEF In
<1>2. ~In(w, {"body", "valid"}) /\ ~In(w, {"body", "valid"})'
  BY Moves DEF In, Handler, Executor
<1>. QED  BY <1>1, <1>2

\* Every step keeps mutexes with those who update, and what they have written
\* where they wrote it.
LEMMA MutexStep ==
    ASSUME TypeOK, FrameOK, MutexOK, [Next]_vars
    PROVE  MutexOK'
<1>. DEFINE Holds(e, v) == mtx[e] = v <=> In(v, {"body", "valid"}) /\ frame[v].entry = e
            Written(v) ==
                LET g == frame[v]
                    m == mem[g.entry]
                IN  /\ In(v, {"body", "valid"}) =>
                          /\ m.header = Length[g.item]
                          /\ \A c \in 1..Length[g.item] :
                                g.at = "valid" \/ c < g.cell => m.body[c] = [key |-> g.key, trx |-> g.item]
                    /\ g.at = "valid" => m.body[Length[g.item] + 1] # Zero
<1>1. CASE UNCHANGED vars
  BY <1>1 DEF MutexOK, In, vars, memVars
<1>2. ASSUME NEW w \in Workers, Handler(w) \/ Executor(w) \/ CopyCell(w)
      PROVE  MutexOK'
  <2>. DEFINE f == frame[w]
              e == f.entry
  <2>1. \A v \in Workers \ {w} : frame'[v] = frame[v]
    BY <1>2, FramesStay
  <2>2. /\ \A n \in Entries, v \in Workers : Holds(n, v)
        /\ \A v \in Workers : Written(v)
    BY DEF MutexOK
  <2>3. \A v \in Workers : In(v, {"body", "valid"}) => frame[v].entry \in Entries
    BY Updates DEF In, Updating
  <2>4. mtx \in [Entries -> Workers \cup {NoWorker}] /\ NoWorker \notin Workers /\ f \in Frame
    BY FrameType, CacheAssumption DEF TypeOK
  <2>. SUFFICES /\ \A n \in Entries, v \in Workers : Holds(n, v)'
                /\ \A v \in Workers : Written(v)'
    BY DEF MutexOK
  <2>5. ASSUME NEW v \in Workers, frame'[v] = frame[v], Written(v),
               In(v, {"body", "valid"}) => /\ mem'[frame[v].entry].header = mem[frame[v].entry].header
                                           /\ mem'[frame[v].entry].body = mem[frame[v].entry].body
        PROVE  Written(v)'
    BY <2>5 DEF In
  <2>6. CASE /\ ~UpdateHeader(w) /\ ~UpdateBody(w) /\ ~UpdateValid(w)
             /\ mtx' = mtx
             /\ \A n \in Entries : mem'[n].header = mem[n].header /\ mem'[n].body = mem[n].body
    <3>1. \A v \in Workers : /\ In(v, {"body", "valid"})' <=> In(v, {"body", "valid"})
                             /\ In(v, {"body", "valid"}) => frame'[v] = frame[v]
      BY <1>2, <2>6, HoldersStay
    <3>2. \A n \in Entries, v \in Workers : Holds(n, v)'
      BY <2>2, <2>6, <3>1
    <3>3. ASSUME NEW v \in Workers
          PROVE  Written(v)'
      <4>1. CASE In(v, {"body", "valid"})
        BY <2>2, <2>3, <2>5, <2>6, <3>1, <4>1
      <4>2. CASE ~In(v, {"body", "valid"})
        BY <3>1, <4>2 DEF In
      <4>. QED  BY <4>1, <4>2
    <3>. QED  BY <3>2, <3>3
  <2>7. CASE /\ UpdateHeader(w)
             /\ mtx[e] = NoWorker
             /\ mtx' = [mtx EXCEPT ![e] = w]
             /\ mem'[e].header = Length[f.item]
             /\ \A n \in Entries : mem'[n].body = mem[n].body
             /\ \A n \in Entries \ {e} : mem'[n].header = mem[n].header
             /\ frame'[w] = [f EXCEPT !.at = "body", !.cell = 1]
    <3>1. e \in Entries /\ ~In(w, {"body", "valid"})
      BY <2>7, Updates DEF UpdateHeader, At, In, Updating
    <3>2. /\ frame'[w].at = "body" /\ frame'[w].entry = e /\ frame'[w].cell = 1
          /\ frame'[w].item = f.item /\ frame'[w].key = f.key
      BY <2>4, <2>7 DEF Frame
    <3>3. ASSUME NEW n \in Entries, NEW v \in Workers
         PROVE  Holds(n, v)'
      <4>1. Holds(n, v) /\ Holds(e, v)
        BY <2>2, <3>1
      <4>2. CASE v = w
        BY <2>4, <2>7, <3>1, <3>2, <4>1, <4>2 DEF In
      <4>3. CASE v # w
        BY <2>1, <2>4, <2>7, <3>1, <4>1, <4>3 DEF In
      <4>. QED  BY <4>2, <4>3
    <3>4. \A v \in Workers \ {w} : In(v, {"body", "valid"}) => frame[v].entry # e
      BY <2>2, <2>4, <2>7, <3>1
    <3>5. ASSUME NEW v \in Workers \ {w}
          PROVE  Written(v)'
      <4>1. CASE In(v, {"body", "valid"})
        <5>1. frame'[v] = frame[v] /\ Written(v)
          BY <2>1, <2>2
        <5>2. frame[v].entry \in Entries \ {e}
          BY <2>3, <3>4, <4>1
        <5>3. /\ mem'[frame[v].entry].header = mem[frame[v].entry].header
              /\ mem'[frame[v].entry].body = mem[frame[v].entry].body
          BY <2>7, <5>2
        <5>. HIDE DEF Written
        <5>. QED  BY <2>5, <5>1, <5>3
      <4>2. CASE ~In(v, {"body", "valid"})
        BY <2>1, <4>2 DEF In
      <4>. QED  BY <4>1, <4>2
    <3>6. Written(w)'
      BY <2>7, <3>2 DEF In
    <3>. HIDE DEF Holds, Written
    <3>. QED  BY <3>3, <3>5, <3>6
  <2>8. CASE /\ UpdateBody(w)
             /\ mtx' = mtx
             /\ \A n \in Entries : mem'[n].header = mem[n].header
             /\ \A n \in Entries \ {e} : mem'[n].body = mem[n].body
             /\ mem'[e].body = [mem[e].body EXCEPT ![f.cell] =
                   IF f.cell = Length[f.item] + 1 THEN IS_ARRIVED ELSE [key |-> f.key, trx |-> f.item]]
             /\ frame'[w] = IF f.cell = Length[f.item] + 1 THEN [f EXCEPT !.at = "valid", !.cell = 0]
                            ELSE [f EXCEPT !.cell = @ + 1]
    <3>1. /\ e \in Entries /\ f.at = "body" /\ f.cell \in Cells /\ f.cell \in 1..(Length[f.item] + 1)
          /\ Length[f.item] \in Nat /\ Length[f.item] + 1 \in Cells
          /\ mem[e].body \in [Cells -> Item \cup {Zero, IS_ARRIVED}]
      <4>1. f.at = "body" /\ In(w, Updating)
        BY <2>8 DEF UpdateBody, At, In, Updating
      <4>. QED  BY <4>1, Updates, MemoryTypes
    <3>2. \A c \in 1..Length[f.item] : c \in Cells
      BY <3>1, Updates, Lengths DEF Cells, In, Updating
    <3>3. /\ frame'[w].at \in {"body", "valid"} /\ frame'[w].entry = e
          /\ frame'[w].item = f.item /\ frame'[w].key = f.key
          /\ f.cell = Length[f.item] + 1 => frame'[w].at = "valid"
          /\ f.cell # Length[f.item] + 1 => frame'[w].at = "body" /\ frame'[w].cell = f.cell + 1
      BY <2>4, <2>8, <3>1 DEF Frame
    <3>4. mtx[e] = w /\ Written(w)
      BY <2>2, <3>1 DEF In
    <3>5. ASSUME NEW n \in Entries, NEW v \in Workers
         PROVE  Holds(n, v)'
      <4>1. Holds(n, v) /\ Holds(e, v)
        BY <2>2, <3>1
      <4>2. CASE v = w
        BY <2>4, <2>8, <3>1, <3>3, <4>1, <4>2 DEF In
      <4>3. CASE v # w
        BY <2>1, <2>4, <2>8, <3>1, <4>1, <4>3 DEF In
      <4>. QED  BY <4>2, <4>3
    <3>6. \A v \in Workers \ {w} : In(v, {"body", "valid"}) => frame[v].entry # e
      BY <2>2, <2>4, <3>1, <3>4
    <3>7. \A v \in Workers \ {w} : Written(v)'
      BY <2>1, <2>2, <2>3, <2>5, <2>8, <3>6
    <3>8. Written(w)'
      <4>1. CASE f.cell = Length[f.item] + 1
        BY <2>8, <3>1, <3>2, <3>3, <3>4, <4>1, Flags DEF In
      <4>2. CASE f.cell # Length[f.item] + 1
        BY <2>8, <3>1, <3>2, <3>3, <3>4, <4>2 DEF In
      <4>. QED  BY <4>1, <4>2
    <3>. QED  BY <3>5, <3>7, <3>8
  <2>9. CASE /\ UpdateValid(w)
             /\ mtx' = [mtx EXCEPT ![e] = NoWorker]
             /\ \A n \in Entries : mem'[n].header = mem[n].header /\ mem'[n].body = mem[n].body
    <3>1. /\ e \in Entries /\ f.at = "valid" /\ frame'[w].at \in {"addr_set", "test"}
      BY <2>9, Updates, Moves DEF UpdateValid, At, In, Updating
    <3>2. \A n \in Entries, v \in Workers : Holds(n, v)'
      BY <2>1, <2>2, <2>4, <2>9, <3>1 DEF In
    <3>3. \A v \in Workers \ {w} : Written(v)'
      BY <2>1, <2>2, <2>3, <2>5, <2>9
    <3>4. Written(w)'
      BY <3>1 DEF In
    <3>. QED  BY <3>2, <3>3, <3>4
  <2>. QED  BY <1>2, <2>6, <2>7, <2>8, <2>9, CellsStep
<1>. QED
  BY <1>1, <1>2 DEF Next

\* Every step leaves what lies in an entry that nobody updates whole.
LEMMA WholeStep ==
    ASSUME TypeOK, FrameOK, MutexOK, EntryWhole, [Next]_vars
    PROVE  EntryWhole'
<1>1. CASE UNCHANGED vars
  BY <1>1 DEF EntryWhole, HoldsWhole, vars, memVars
<1>2. ASSUME NEW w \in Workers, Handler(w) \/ Executor(w) \/ CopyCell(w), NEW e \in Entries,
             mtx'[e] = NoWorker
      PROVE  mem'[e].header = 0 \/ \E i \in Item : HoldsWhole(e, i)'
  <2>. DEFINE f == frame[w]
  <2>1. CASE mtx[e] = NoWorker /\ mem'[e].header = mem[e].header /\ mem'[e].body = mem[e].body
    BY <2>1 DEF EntryWhole, HoldsWhole
  <2>2. CASE UpdateValid(w) /\ e = f.entry /\ mem'[e].header = mem[e].header /\ mem'[e].body = mem[e].body
    <3>1. f.at = "valid" /\ f.key \in Keys /\ f.item \in Versions /\ Length[f.item] \in Nat
      BY <2>2, Updates DEF UpdateValid, At, In, Updating
    <3>2. /\ mem[e].header = Length[f.item] /\ mem[e].body[Length[f.item] + 1] # Zero
          /\ \A c \in 1..Length[f.item] : mem[e].body[c] = [key |-> f.key, trx |-> f.item]
      BY <2>2, <3>1 DEF MutexOK, In
    <3>3. PICK i \in Item : i = [key |-> f.key, trx |-> f.item]
      BY <3>1 DEF Item
    <3>4. i.trx = f.item
      BY <3>3
    <3>5. HoldsWhole(e, i)
      BY <3>2, <3>3, <3>4 DEF HoldsWhole
    <3>6. HoldsWhole(e, i)'
      BY <2>2, <3>5 DEF HoldsWhole
    <3>. QED  BY <3>6
  <2>3. w # NoWorker /\ mtx \in [Entries -> Workers \cup {NoWorker}]
    BY CacheAssumption DEF TypeOK
  <2>4. CASE UpdateHeader(w) /\ mtx[f.entry] = NoWorker /\ mtx' = [mtx EXCEPT ![f.entry] = w]
             /\ (\A n \in Entries : mem'[n].body = mem[n].body)
             /\ (\A n \in Entries \ {f.entry} : mem'[n].header = mem[n].header)
    BY <1>2, <2>1, <2>3, <2>4
  <2>5. CASE UpdateBody(w) /\ mtx' = mtx
             /\ (\A n \in Entries : mem'[n].header = mem[n].header)
             /\ (\A n \in Entries \ {f.entry} : mem'[n].body = mem[n].body)
    <3>1. f.entry \in Entries /\ mtx[f.entry] = w
      BY <2>5, Updates DEF UpdateBody, At, In, Updating, MutexOK
    <3>. QED  BY <1>2, <2>1, <2>3, <2>5, <3>1
  <2>6. CASE UpdateValid(w) /\ mtx' = [mtx EXCEPT ![f.entry] = NoWorker]
             /\ (\A n \in Entries : mem'[n].header = mem[n].header /\ mem'[n].body = mem[n].body)
    BY <1>2, <2>1, <2>2, <2>3, <2>6
  <2>. QED  BY <1>2, <2>1, <2>4, <2>5, <2>6, CellsStep
<1>. QED
  BY <1>1, <1>2 DEF Next, EntryWhole

\* In the initial states no cell holds an item.
LEMMA CellsInit ==
    ASSUME Init
    PROVE  MemOK /\ BufferOK /\ ReadsPrepared
<1>1. \A e \in Entries, c \in Cells : mem[e].body[c] = Zero
  BY DEF Init, Cleared
<1>2. \A w \in Workers, c \in Cells : read_buf[w].body[c] = Zero
  BY DEF Init, Cleared
<1>3. \A w \in Workers, k \in Keys : ret[w][k] = {}
  BY DEF Init
<1>. QED  BY <1>1, <1>2, <1>3, Flags DEF MemOK, BufferOK, ReadsPrepared

\* Every step leaves in an entry only items of its key that were prepared.
LEMMA MemStep ==
    ASSUME TypeOK, FrameOK, RunOK, PoolOK, MemOK, [Next]_vars
    PROVE  MemOK'
<1>1. CASE UNCHANGED vars
  BY <1>1 DEF MemOK, Prepared, Owners, Unused, vars, tableVars, poolVars, memVars, clientVars
<1>2. ASSUME NEW w \in Workers, Handler(w) \/ Executor(w) \/ CopyCell(w),
             NEW e \in Entries, NEW c \in Cells, NEW i \in Item, i = mem'[e].body[c]
      PROVE  Prepared(i.trx)' /\ Owners(e)' \subseteq {i.key} /\ ~Unused(e)'
  <2>. DEFINE f == frame[w]
  <2>1. i.trx \in Versions /\ i.key \in Keys
    BY DEF Item
  <2>2. [Next]_vars
    OBVIOUS
  <2>3. Unused(e)' => Unused(e)
    BY <1>2, EntriesStep, PoolTail DEF Unused
  <2>4. CASE mem'[e].body[c] = mem[e].body[c]
    <3>1. Prepared(i.trx) /\ Owners(e) \subseteq {i.key} /\ ~Unused(e)
      BY <1>2, <2>4 DEF MemOK
    <3>2. Prepared(i.trx)'
      BY <2>1, <3>1, PreparedStays
    <3>3. unused_entries # <<>> => e # Head(unused_entries)
      BY <3>1, PoolTail
    <3>4. Owners(e)' \subseteq Owners(e)
      BY <1>2, <3>3, OwnersStep
    <3>. QED  BY <2>3, <3>1, <3>2, <3>4
  <2>5. CASE UpdateBody(w) /\ e = f.entry /\ mem'[e].body = [mem[e].body EXCEPT ![f.cell] =
                IF f.cell = Length[f.item] + 1 THEN IS_ARRIVED ELSE [key |-> f.key, trx |-> f.item]]
    <3>1. In(w, Updating) /\ f.at = "body"
      BY <2>5 DEF UpdateBody, At, In, Updating
    <3>2. f.item \in Versions /\ f.item = f.trx /\ f.key \in Keys
          /\ mem[e].body \in [Cells -> Item \cup {Zero, IS_ARRIVED}]
      BY <2>5, <3>1, Updates, MemoryTypes
    <3>3. IS_ARRIVED \notin Item
      BY CacheAssumption DEF IS_ARRIVED, Item
    <3>4. CASE c = f.cell
      <4>1. i = [key |-> f.key, trx |-> f.item]
        BY <1>2, <2>5, <3>2, <3>3, <3>4
      <4>2. i.trx = f.trx /\ i.key = f.key
        BY <3>2, <4>1
      <4>3. Prepared(i.trx)
        BY <3>1, <4>2 DEF RunOK, In
      <4>4. Prepared(i.trx)'
        BY <2>1, <4>3, PreparedStays
      <4>5. i.key \in Owners(e)
        BY <2>1, <2>5, <4>2 DEF Owners
      <4>6. Owners(e) \subseteq {i.key} /\ ~Unused(e)
        BY <4>5 DEF PoolOK, OneKeyPerEntry, Unused
      <4>7. unused_entries # <<>> => e # Head(unused_entries)
        BY <4>6, PoolTail
      <4>8. Owners(e)' \subseteq Owners(e)
        BY <1>2, <4>7, OwnersStep
      <4>. QED  BY <2>3, <4>4, <4>6, <4>8
    <3>5. CASE c # f.cell
      BY <2>4, <2>5, <3>2, <3>5
    <3>. QED  BY <3>4, <3>5
  <2>. QED  BY <1>2, <2>4, <2>5, CellsStep
<1>3. CASE \E w \in Workers : Handler(w) \/ Executor(w) \/ CopyCell(w)
  BY <1>2, <1>3 DEF MemOK
<1>. QED
  BY <1>1, <1>3 DEF Next

\* How the buffers change.
LEMMA BufferChange ==
    ASSUME TypeOK, FrameOK, NEW w \in Workers, Handler(w) \/ Executor(w) \/ CopyCell(w)
    PROVE  \/ read_buf' = read_buf /\ ~CopyCell(w)
           \/ /\ read_buf' = [read_buf EXCEPT ![w] = Cleared]
              /\ ReadInvalid(w) \/ ReadBody(w) \/ ReadGarbage(w)
           \/ /\ CopyCell(w)
              /\ read_buf' = [read_buf EXCEPT ![w] = Copied(@, mem[frame[w].entry], frame[w].cell)]
              /\ frame'[w].key = frame[w].key /\ frame'[w].at = "read" /\ frame[w].at = "read"
              /\ frame[w].entry \in Entries /\ frame[w].key \in Keys
<1>. DEFINE f == frame[w]
<1>1. CASE ReadInvalid(w) \/ ReadBody(w) \/ ReadGarbage(w)
  BY <1>1 DEF ReadInvalid, ReadBody, ReadGarbage, AskAgain, LeaveRead
<1>2. CASE CopyCell(w)
  <2>1. f.at = "read" /\ f \in Frame /\ frame'[w] = [f EXCEPT !.cell = @ + 1]
    BY <1>2, FrameType DEF CopyCell, At, Continue, TypeOK
  <2>2. frame'[w].at = "read" /\ frame'[w].key = f.key
    BY <2>1 DEF Frame
  <2>3. f.entry \in Entries /\ f.key \in Keys
    BY <2>1 DEF FrameOK, FrameFits, Fits, Getting
  <2>. QED  BY <1>2, <2>1, <2>2, <2>3 DEF CopyCell
<1>3. CASE BeginPut(w) \/ BeginGet(w)
  BY <1>3, Moves DEF BeginPut, BeginGet, clientVars
<1>4. CASE Executor(w)
  <2>1. read_buf' = read_buf
    BY <1>4 DEF Executor, Prepare, InvalidateFind, InvalidateAt, InvalidateFlag,
       BeginCommit, CommitTest, CommitSet, UpdateAt, CommitDone, UpdateHeader, UpdateBody, UpdateValid,
       AddrFind, InvalidateCreate, InvalidatePop, AddrPop, AddrSet, AddrAt, clientVars
  <2>2. ~CopyCell(w)
    BY <1>4, Moves DEF Executor
  <2>. QED  BY <2>1, <2>2
<1>. QED  BY <1>1, <1>2, <1>3, <1>4 DEF Handler

\* Every step leaves in a buffer only items of the key that is read.
LEMMA BufferStep ==
    ASSUME TypeOK, FrameOK, RunOK, MemOK, BufferOK, [Next]_vars
    PROVE  BufferOK'
<1>1. CASE UNCHANGED vars
  BY <1>1 DEF BufferOK, Prepared, At, vars, tableVars, clientVars
<1>2. ASSUME NEW w \in Workers, Handler(w) \/ Executor(w) \/ CopyCell(w),
             NEW v \in Workers, NEW c \in Cells, NEW i \in Item, i = read_buf'[v].body[c]
      PROVE  At(v, "read")' /\ Prepared(i.trx)' /\ i.key = frame'[v].key
  <2>. DEFINE f == frame[w]
  <2>1. i.trx \in Versions
    BY DEF Item
  <2>2. Prepared(i.trx) => Prepared(i.trx)'
    BY <2>1, PreparedStays
  <2>3. read_buf[v] \in Memory /\ mem \in [Entries -> Memory]
    BY DEF TypeOK
  <2>4. ASSUME read_buf'[v].body[c] = read_buf[v].body[c],
               frame'[v].at = frame[v].at, frame'[v].key = frame[v].key
        PROVE  At(v, "read")' /\ Prepared(i.trx)' /\ i.key = frame'[v].key
    BY <1>2, <2>2, <2>4 DEF BufferOK, At
  <2>5. CASE read_buf'[v] = Cleared
    BY <1>2, <2>5, Flags DEF Cleared
  <2>6. CASE v # w
    <3>1. frame'[v] = frame[v]
      BY <1>2, <2>6, FramesStay
    <3>2. read_buf'[v] = read_buf[v]
      BY <1>2, <2>6, BufferChange DEF TypeOK
    <3>. QED  BY <2>4, <3>1, <3>2
  <2>7. CASE v = w /\ read_buf' = read_buf /\ ~CopyCell(w)
    <3>1. f.at = "read" /\ i.key = f.key /\ Prepared(i.trx)
      BY <1>2, <2>7 DEF BufferOK, At
    <3>2. ReadInvalid(w) \/ ReadBody(w) \/ ReadGarbage(w)
      BY <1>2, <2>7, <3>1, Moves DEF Handler, Executor
    <3>3. read_buf'[w] = Cleared
      BY <3>2 DEF ReadInvalid, ReadBody, ReadGarbage, AskAgain, LeaveRead, TypeOK
    <3>. QED  BY <2>5, <2>7, <3>3
  <2>8. CASE /\ v = w
             /\ read_buf' = [read_buf EXCEPT ![w] = Cleared]
    BY <2>5, <2>8 DEF TypeOK
  <2>9. CASE /\ v = w
             /\ read_buf' = [read_buf EXCEPT ![w] = Copied(@, mem[f.entry], f.cell)]
             /\ frame'[w].key = f.key /\ frame'[w].at = "read" /\ f.at = "read"
             /\ f.entry \in Entries /\ f.key \in Keys
    <3>. DEFINE e == f.entry
    <3>1. read_buf'[w] = Copied(read_buf[w], mem[e], f.cell)
      BY <2>9 DEF TypeOK
    <3>2. CASE f.cell \in {0, 1}
      <4>1. read_buf'[w].body = read_buf[w].body
        BY <2>3, <2>9, <3>1, <3>2 DEF Copied, Memory
      <4>. QED  BY <2>4, <2>9, <4>1
    <3>3. CASE f.cell \notin {0, 1}
      <4>1. read_buf'[w].body = [read_buf[w].body EXCEPT ![f.cell - 1] = mem[e].body[f.cell - 1]]
        BY <2>3, <2>9, <3>1, <3>3 DEF Copied, Memory
      <4>2. read_buf[w].body \in [Cells -> Item \cup {Zero, IS_ARRIVED}]
        BY <2>3, <2>9, MemoryTypes
      <4>3. CASE c = f.cell - 1
        <5>1. i = mem[e].body[c]
          BY <1>2, <2>9, <4>1, <4>2, <4>3
        <5>2. Prepared(i.trx) /\ Owners(e) \subseteq {i.key}
          BY <2>9, <5>1 DEF MemOK
        <5>3. f.key \in Owners(e)
          BY <2>9 DEF Owners
        <5>. QED  BY <2>2, <2>9, <5>2, <5>3 DEF At
      <4>4. CASE c # f.cell - 1
        BY <2>4, <2>9, <4>1, <4>2, <4>4
      <4>. QED  BY <4>3, <4>4
    <3>. QED  BY <3>2, <3>3
  <2>. QED  BY <1>2, <2>6, <2>7, <2>8, <2>9, BufferChange
<1>3. CASE \E w \in Workers : Handler(w) \/ Executor(w) \/ CopyCell(w)
  BY <1>2, <1>3 DEF BufferOK
<1>. QED
  BY <1>1, <1>3 DEF Next

\* Every step returns only bytes of the key that was read, and prepared.
LEMMA ReadsStep ==
    ASSUME TypeOK, FrameOK, RunOK, BufferOK, ReadsPrepared, [Next]_vars
    PROVE  ReadsPrepared'
<1>1. CASE UNCHANGED vars
  BY <1>1 DEF ReadsPrepared, Prepared, vars, tableVars, clientVars
<1>2. ASSUME NEW w \in Workers, Handler(w) \/ Executor(w) \/ CopyCell(w),
             NEW v \in Workers, NEW k \in Keys, NEW i \in ret'[v][k], i \in Item
      PROVE  i.key = k /\ Prepared(i.trx)'
  <2>1. i.trx \in Versions
    BY <1>2 DEF Item
  <2>2. Prepared(i.trx) => Prepared(i.trx)'
    BY <2>1, PreparedStays
  <2>3. CASE i \in ret[v][k]
    BY <1>2, <2>2, <2>3 DEF ReadsPrepared
  <2>4. CASE i \notin ret[v][k]
    <3>1. ReadBody(w)
      <4>1. ret' # ret
        BY <1>2, <2>4
      <4>2. CASE BeginPut(w) \/ BeginGet(w) \/ ReadInvalid(w) \/ ReadGarbage(w) \/ CopyCell(w)
        BY <4>1, <4>2 DEF BeginPut, BeginGet, ReadInvalid, ReadGarbage, AskAgain, CopyCell, clientVars
      <4>3. CASE Executor(w)
        BY <4>1, <4>3 DEF Executor, Prepare, InvalidateFind, InvalidateAt, InvalidateFlag,
           BeginCommit, CommitTest, CommitSet, UpdateAt, CommitDone, UpdateHeader, UpdateBody, UpdateValid,
           AddrFind, InvalidateCreate, InvalidatePop, AddrPop, AddrSet, AddrAt, clientVars
      <4>. QED  BY <1>2, <4>2, <4>3 DEF Handler
    <3>2. ret' = [ret EXCEPT ![w][frame[w].key] = Unpacked(w)]
      BY <3>1 DEF ReadBody
    <3>3. v = w /\ k = frame[w].key /\ i \in Unpacked(w)
      BY <1>2, <2>4, <3>2 DEF TypeOK
    <3>4. read_buf[w].header \in 0..MaxLength /\ MaxLength \in Nat
      BY MemoryTypes, Lengths DEF TypeOK
    <3>5. PICK c \in Cells : i = read_buf[w].body[c]
      BY <3>3, <3>4 DEF Unpacked, Cells
    <3>. QED  BY <1>2, <2>2, <3>3, <3>5 DEF BufferOK
  <2>. QED  BY <2>3, <2>4
<1>3. CASE \E w \in Workers : Handler(w) \/ Executor(w) \/ CopyCell(w)
  BY <1>2, <1>3 DEF ReadsPrepared
<1>. QED
  BY <1>1, <1>3 DEF Next

-----------------------------------------------------------------------------
(* The cache, with or without a load *)

\* Every behaviour keeps the invariant of the cache.
THEOREM CacheInvariance == Spec => []CacheInv
<1>1. Init => CacheInv
  BY TypeInit, FrameInit, RunInit, KnownInit, PoolInit, MutexInit, CellsInit DEF CacheInv
<1>2. CacheInv /\ [Next]_vars => CacheInv'
  BY TypeStep, FrameStep, RunStep, KnownStep, PoolStep, MutexStep, WholeStep, MemStep, BufferStep,
     ReadsStep DEF CacheInv
<1>. QED
  BY <1>1, <1>2, PTL DEF Spec

\* Every variable stays in its type.
THEOREM Types == Spec => []TypeOK
<1>1. CacheInv => TypeOK
  BY DEF CacheInv
<1>. QED  BY <1>1, CacheInvariance, PTL

\* An entry serves one key for good, and none while it is in the pool.
THEOREM EntryServesOneKey == Spec => []OneKeyPerEntry
<1>1. CacheInv => OneKeyPerEntry
  BY DEF CacheInv, PoolOK
<1>. QED  BY <1>1, CacheInvariance, PTL

\* What lies in an entry that nobody updates is one item, whole.
THEOREM EntriesWhole == Spec => []EntryWhole
<1>1. CacheInv => EntryWhole
  BY DEF CacheInv
<1>. QED  BY <1>1, CacheInvariance, PTL

\* Reads return only bytes of the key asked for, of prepared versions.
THEOREM ReadsArePrepared == Spec => []ReadsPrepared
<1>1. CacheInv => ReadsPrepared
  BY DEF CacheInv
<1>. QED  BY <1>1, CacheInvariance, PTL

-----------------------------------------------------------------------------
(* A load that comes first *)

\* Which copy runs, and whether a load comes first, is settled at the start.
LEMMA RigidStays ==
    ASSUME [Next]_vars
    PROVE  loaded' = loaded /\ copy' = copy
<1>1. CASE UNCHANGED vars
  BY <1>1 DEF vars, rigidVars
<1>2. ASSUME NEW w \in Workers, Handler(w)
      PROVE  loaded' = loaded /\ copy' = copy
  BY <1>2 DEF Handler, BeginPut, BeginGet, ReadInvalid, ReadBody, ReadGarbage, AskAgain, LeaveRead, rigidVars
<1>3. ASSUME NEW w \in Workers, Executor(w)
      PROVE  loaded' = loaded /\ copy' = copy
  BY <1>3 DEF Executor, Prepare, InvalidateFind, InvalidateAt, InvalidateFlag,
     BeginCommit, CommitTest, CommitSet, UpdateAt, CommitDone, UpdateHeader, UpdateBody, UpdateValid,
     AddrFind, InvalidateCreate, InvalidatePop, AddrPop, AddrSet, AddrAt, rigidVars
<1>4. ASSUME NEW w \in Workers, CopyCell(w)
      PROVE  loaded' = loaded /\ copy' = copy
  BY <1>4 DEF CopyCell, rigidVars
<1>. QED  BY <1>1, <1>2, <1>3, <1>4 DEF Next

\* The loaders are transactions.
LEMMA LoadersAreTrxs == Loaders \subseteq Trxs /\ 0 \notin Loaders
  BY CacheAssumption

\* The load ends once.
LEMMA OverStays ==
    ASSUME TypeOK, FrameOK, NEW w \in Workers, Handler(w) \/ Executor(w) \/ CopyCell(w), LoadOver
    PROVE  LoadOver'
<1>1. ASSUME NEW t \in Loaders
      PROVE  t \notin queue' /\ \A v \in Workers : frame'[v].trx # t
  <2>1. t \notin queue /\ t # 0 /\ \A v \in Workers : frame[v].trx # t
    BY LoadersAreTrxs DEF LoadOver
  <2>2. \A v \in Workers \ {w} : frame'[v] = frame[v]
    BY FramesStay
  <2>3. CASE BeginPut(w)
    <3>1. PICK u \in queue : frame'[w] = [Idle EXCEPT !.at = "put", !.trx = u, !.todo = WriteSet[u]]
                             /\ queue' = queue \ {u}
      BY <2>3, TrxStep
    <3>2. frame'[w].trx = u
      BY <3>1 DEF Idle
    <3>. QED  BY <2>1, <2>2, <3>1, <3>2
  <2>4. CASE ~BeginPut(w)
    <3>1. queue' = queue /\ frame'[w].trx \in {frame[w].trx, 0}
      BY <2>4, TrxStep
    <3>. QED  BY <2>1, <2>2, <3>1
  <2>. QED  BY <2>3, <2>4
<1>. QED  BY <1>1 DEF LoadOver

\* A worker that is about a key is about one of its transaction's.
LEMMA KeyOfTrx ==
    ASSUME TypeOK, FrameOK, RunOK, NEW w \in Workers,
           In(w, {"invalidate", "create", "pop", "mark", "flag"})
    PROVE  /\ frame[w].trx \in Trxs /\ frame[w].key \in Keys
           /\ frame[w].key \in Range(items[frame[w].trx])
           /\ frame[w].key \in WriteSet[frame[w].trx]
<1>1. frame[w].trx \in Trxs /\ frame[w].key \in Keys
  BY DEF FrameOK, FrameFits, Fits, In, Preparing
<1>. QED  BY <1>1 DEF RunOK, In, Preparing

\* No two loaders have a key in common.
LEMMA OneLoader ==
    ASSUME TypeOK, RunOK, LoadsOnce, NEW v \in Workers, NEW w \in Workers, NEW k,
           frame[v].trx \in Loaders, k \in WriteSet[frame[v].trx],
           frame[w].trx \in Loaders, k \in WriteSet[frame[w].trx]
    PROVE  v = w
<1>1. frame[v].trx = frame[w].trx /\ frame[v].trx # 0
  BY LoadersAreTrxs DEF LoadsOnce
<1>. QED  BY <1>1 DEF RunOK

\* As long as a key waits for its entry the pool has one.
LEMMA PoolLeft ==
    ASSUME TypeOK, LoadsOnce, PoolCount, NEW k \in Keys, entries[k] = Null
    PROVE  unused_entries # <<>>
<1>1. Filled \subseteq Keys \ {k}
  BY Ranges DEF Filled
<1>2. /\ IsFiniteSet(Keys) /\ IsFiniteSet(Keys \ {k})
      /\ Cardinality(Keys \ {k}) = Cardinality(Keys) - 1 /\ Cardinality(Keys) \in Nat
  BY FS_RemoveElement, FS_CardinalityType DEF LoadsOnce
<1>3. Cardinality(Filled) <= Cardinality(Keys) - 1 /\ Cardinality(Filled) \in Nat
  BY <1>1, <1>2, FS_Subset, FS_CardinalityType
<1>4. Cardinality(Filled) < ENTRY_NUM
  BY <1>2, <1>3, CacheAssumption DEF LoadsOnce
<1>5. unused_entries = <<>> => Len(unused_entries) = 0
  OBVIOUS
<1>. QED  BY <1>3, <1>4, <1>5, CacheAssumption DEF PoolCount

\* What holds of a cache with a load first.
LoadedInv == LoadFirst /\ LoadedOK /\ EntriesOK /\ PoolCount

\* With a load first only a loader that prepares a key changes the map: it
\* creates a null pointer, then it pops an entry into it.
LEMMA LoadedEntries ==
    ASSUME CacheInv, LoadsOnce, LoadedInv, NEW w \in Workers, Handler(w) \/ Executor(w) \/ CopyCell(w)
    PROVE  LET k == frame[w].key
               t == frame[w].trx
               e == Head(unused_entries)
           IN  \/ /\ entries' = entries /\ unused_entries' = unused_entries
                  /\ ~InvalidateCreate(w) /\ ~InvalidatePop(w)
               \/ /\ InvalidateCreate(w) /\ t \in Loaders /\ k \in Keys /\ entries[k] = Absent
                  /\ entries' = [entries EXCEPT ![k] = Null]
                  /\ unused_entries' = unused_entries
               \/ /\ InvalidatePop(w) /\ t \in Loaders /\ k \in Keys /\ entries[k] = Null
                  /\ unused_entries # <<>> /\ e \in Entries
                  /\ entries' = [entries EXCEPT ![k] = e]
                  /\ unused_entries' = Tail(unused_entries)
<1>. DEFINE f == frame[w]
            k == f.key
<1>. USE DEF CacheInv, LoadedInv
<1>1. ASSUME InvalidateCreate(w) \/ InvalidatePop(w)
      PROVE  f.trx \in Loaders /\ k \in Keys
  <2>1. f.at \in {"create", "pop"}
    BY <1>1 DEF InvalidateCreate, InvalidatePop, At
  <2>2. f.trx \in Loaders
    BY <2>1 DEF LoadFirst, LoadedOK, At, In
  <2>3. k \in Keys
    BY <2>1, KeyOfTrx DEF In
  <2>. QED  BY <2>2, <2>3
<1>2. CASE InvalidateCreate(w)
  <2>1. entries[k] = Absent
    BY <1>1, <1>2 DEF InvalidateCreate, At, In, EntriesOK, Known
  <2>2. entries' = [entries EXCEPT ![k] = Null] /\ unused_entries' = unused_entries
    BY <1>1, <1>2, <2>1 DEF InvalidateCreate
  <2>. QED  BY <1>1, <1>2, <2>1, <2>2
<1>3. CASE InvalidatePop(w)
  <2>1. entries[k] = Null
    BY <1>1, <1>3 DEF InvalidatePop, At, EntriesOK
  <2>2. unused_entries # <<>>
    <3>1. TypeOK /\ PoolCount
      BY DEF CacheInv, LoadedInv
    <3>. QED  BY <1>1, <1>3, <2>1, <3>1, PoolLeft
  <2>3. Head(unused_entries) \in Entries
    BY <2>2 DEF TypeOK
  <2>. QED  BY <1>1, <1>3, <2>1, <2>2, <2>3 DEF InvalidatePop, Assigned, Popped
<1>4. ~AddrPop(w) /\ ~AddrSet(w)
  <2>1. ASSUME AddrPop(w) \/ AddrSet(w)
        PROVE  FALSE
    <3>1. f.at \in {"addr_pop", "addr_set"}
      BY <2>1 DEF AddrPop, AddrSet, At
    <3>2. f.trx = 0
      BY <3>1 DEF FrameOK, FrameFits, Fits, Getting
    <3>3. LoadOver
      BY <3>1, <3>2, LoadersAreTrxs DEF LoadFirst, At
    <3>. QED  BY <3>1, <3>3 DEF LoadedOK, In
  <2>. QED  BY <2>1
<1>5. CASE ~InvalidateCreate(w) /\ ~InvalidatePop(w)
  BY <1>4, <1>5, EntriesStep
<1>. QED  BY <1>2, <1>3, <1>5

\* A worker is done with a transaction when the loop of commit is.
LEMMA TrxEnds ==
    ASSUME TypeOK, FrameOK, NEW w \in Workers, Handler(w) \/ Executor(w) \/ CopyCell(w),
           frame[w].trx # 0, frame'[w].trx # frame[w].trx
    PROVE  CommitDone(w)
<1>1. frame[w].at \notin Getting \cup {"idle"}
  BY DEF FrameOK, FrameFits, Fits, Idle
<1>2. ~BeginPut(w) /\ ~BeginGet(w) /\ ~AddrAt(w) /\ ~CopyCell(w) /\ ~ReadInvalid(w) /\ ~ReadBody(w)
      /\ ~ReadGarbage(w)
  BY <1>1, Moves DEF Getting
<1>3. frame'[w].at \in {"idle", "get", "read"}
  BY <1>2, TrxStep
<1>. QED  BY <1>2, <1>3, Moves, Zenon DEF Handler, Executor

\* A load comes first: until it is over only loaders are at work, and every
\* loader that is done has prepared its keys.
LEMMA LoadFirstStep ==
    ASSUME TypeOK, FrameOK, RunOK, loaded, LoadFirst, [Next]_vars
    PROVE  LoadFirst'
<1>1. CASE UNCHANGED vars
  BY <1>1 DEF vars, rigidVars, tableVars, clientVars, LoadFirst, LoadOver, At, Prepared
<1>2. ASSUME NEW w \in Workers, Handler(w) \/ Executor(w) \/ CopyCell(w)
      PROVE  LoadFirst'
  <2>. DEFINE f == frame[w]
              g == frame'[w]
  <2>1. \A v \in Workers \ {w} : frame'[v] = frame[v]
    BY <1>2, FramesStay
  <2>2. LoadOver => LoadOver'
    BY <1>2, OverStays
  <2>3. /\ f.trx \in Versions /\ (At(w, "idle") => f.trx = 0)
        /\ (f.at \in Getting => f.trx = 0)
    BY FrameType, IdleType DEF FrameOK, FrameFits, Fits, At, Idle
  <2>4. CASE BeginPut(w)
    <3>1. PICK t \in queue : g = [Idle EXCEPT !.at = "put", !.trx = t, !.todo = WriteSet[t]]
                             /\ queue' = queue \ {t}
      BY <1>2, <2>4, TrxStep
    <3>2. g.trx = t /\ t \in Trxs
      BY <3>1 DEF Idle, TypeOK
    <3>3. queue' \subseteq queue /\ queue' = queue \ {t} /\ t \notin queue'
      BY <3>1
    <3>4. t \in Loaders \/ LoadOver
      <4>1. PICK u \in queue : (u \in Loaders \/ LoadOver) /\ queue' = queue \ {u}
        BY <2>4 DEF BeginPut
      <4>. QED  BY <3>1, <4>1
    <3>5. items' = items /\ addr_cache' = addr_cache
      BY <2>4 DEF BeginPut, tableVars, clientVars
    <3>6. f.trx = 0
      BY <2>3, <2>4 DEF BeginPut
    <3>7. \A v \in Workers : At(v, "idle")' \/ frame'[v].trx \in Loaders \/ LoadOver'
      BY <2>1, <2>2, <3>2, <3>4 DEF LoadFirst, At
    <3>8. \A u \in Loaders : u \in queue' \/ (\E v \in Workers : frame'[v].trx = u) \/ Prepared(u)'
      <4>1. ASSUME NEW u \in Loaders
            PROVE  u \in queue' \/ (\E v \in Workers : frame'[v].trx = u) \/ Prepared(u)'
        <5>1. CASE u \in queue
          BY <3>1, <3>2, <5>1
        <5>2. ASSUME NEW v \in Workers, frame[v].trx = u
              PROVE  \E x \in Workers : frame'[x].trx = u
          BY <2>1, <3>6, <5>2, LoadersAreTrxs
        <5>3. CASE Prepared(u)
          BY <3>5, <5>3 DEF Prepared
        <5>. QED  BY <5>1, <5>2, <5>3 DEF LoadFirst
      <4>. QED  BY <4>1
    <3>9. \A u \in queue' : items'[u] = <<>>
      BY <3>3, <3>5 DEF LoadFirst
    <3>10. \A v \in Workers, k \in Keys : addr_cache'[v][k] = Null \/ LoadOver'
      BY <2>2, <3>5 DEF LoadFirst
    <3>. QED  BY <3>7, <3>8, <3>9, <3>10 DEF LoadFirst
  <2>5. CASE ~BeginPut(w)
    <3>1. queue' = queue /\ g.trx \in {f.trx, 0}
      BY <1>2, <2>5, TrxStep
    <3>2. At(w, "idle")' \/ g.trx \in Loaders \/ LoadOver'
      <4>1. CASE LoadOver
        BY <2>2, <4>1
      <4>2. CASE At(w, "idle")
        <5>1. BeginGet(w)
          BY <1>2, <2>5, <4>2, Moves DEF At, Handler, Executor
        <5>. QED  BY <2>2, <5>1 DEF BeginGet
      <4>3. CASE f.trx \in Loaders
        <5>1. CASE g.trx = f.trx
          BY <4>3, <5>1
        <5>2. CASE g.trx # f.trx
          <6>1. CommitDone(w)
            BY <1>2, <4>3, <5>2, TrxEnds, LoadersAreTrxs
          <6>. QED  BY <6>1, Moves DEF At
        <5>. QED  BY <5>1, <5>2
      <4>. QED  BY <4>1, <4>2, <4>3 DEF LoadFirst
    <3>3. \A v \in Workers : At(v, "idle")' \/ frame'[v].trx \in Loaders \/ LoadOver'
      BY <2>1, <2>2, <3>2 DEF LoadFirst, At
    <3>4. \A v \in Workers, k \in Keys : addr_cache'[v][k] = Null \/ LoadOver'
      <4>1. ASSUME NEW v \in Workers, NEW k \in Keys
            PROVE  addr_cache'[v][k] = Null \/ LoadOver'
        <5>1. CASE addr_cache'[v][k] = addr_cache[v][k]
          BY <2>2, <5>1 DEF LoadFirst
        <5>2. CASE AddrAt(w)
          <6>1. f.at = "addr_at"
            BY <5>2 DEF AddrAt, At
          <6>2. f.trx \notin Loaders
            BY <2>3, <6>1, LoadersAreTrxs DEF Getting
          <6>. QED  BY <2>2, <6>1, <6>2 DEF LoadFirst, At
        <5>. QED  BY <1>2, <5>1, <5>2, AddressStep
      <4>. QED  BY <4>1
    <3>5. \A u \in queue' : items'[u] = <<>>
      <4>1. CASE Prepare(w)
        <5>1. \A u \in Trxs \ {f.trx} : items'[u] = items[u]
          BY <4>1, Prepares
        <5>2. f.trx \notin queue /\ queue \subseteq Trxs
          BY DEF RunOK, TypeOK
        <5>. QED  BY <3>1, <5>1, <5>2 DEF LoadFirst
      <4>2. CASE items' = items
        BY <3>1, <4>2 DEF LoadFirst
      <4>. QED  BY <1>2, <4>1, <4>2, ItemsStep
    <3>6. \A u \in Loaders : u \in queue' \/ (\E v \in Workers : frame'[v].trx = u) \/ Prepared(u)'
      <4>1. ASSUME NEW u \in Loaders
            PROVE  u \in queue' \/ (\E v \in Workers : frame'[v].trx = u) \/ Prepared(u)'
        <5>. u \in Versions /\ u # 0
          BY LoadersAreTrxs DEF Versions
        <5>0. Prepared(u) => Prepared(u)'
          BY PreparedStays
        <5>1. CASE u \in queue
          BY <3>1, <5>1
        <5>2. ASSUME NEW v \in Workers, frame[v].trx = u
              PROVE  (\E x \in Workers : frame'[x].trx = u) \/ Prepared(u)'
          <6>1. CASE frame'[v].trx = u
            BY <6>1
          <6>2. CASE frame'[v].trx # u
            <7>1. v = w
              BY <2>1, <5>2, <6>2
            <7>2. CommitDone(w)
              BY <1>2, <5>2, <6>2, <7>1, TrxEnds
            <7>3. Prepared(u)
              BY <5>2, <7>1, <7>2, Moves DEF RunOK, In, Committing
            <7>. QED  BY <5>0, <7>3
          <6>. QED  BY <6>1, <6>2
        <5>. QED  BY <5>0, <5>1, <5>2 DEF LoadFirst
      <4>. QED  BY <4>1
    <3>. QED  BY <3>3, <3>4, <3>5, <3>6 DEF LoadFirst
  <2>. QED  BY <2>4, <2>5
<1>. QED  BY <1>1, <1>2 DEF Next

\* Every step of a worker keeps the invariant of the cache.
LEMMA CacheStep ==
    ASSUME CacheInv, [Next]_vars
    PROVE  CacheInv'
  BY TypeStep, FrameStep, RunStep, KnownStep, PoolStep, MutexStep, WholeStep, MemStep, BufferStep,
     ReadsStep DEF CacheInv

\* What has been prepared stays so, and only the worker of a transaction
\* prepares for it.
LEMMA ItemsGrow ==
    ASSUME TypeOK, FrameOK, RunOK, NEW w \in Workers, Handler(w) \/ Executor(w) \/ CopyCell(w)
    PROVE  /\ \A t \in Trxs : Range(items[t]) \subseteq Range(items'[t])
           /\ \A t \in Trxs : t = frame[w].trx \/ items'[t] = items[t]
           /\ ~Prepare(w) => items' = items
<1>1. CASE Prepare(w)
  <2>1. \A t \in Trxs \ {frame[w].trx} : items'[t] = items[t]
    BY <1>1, Prepares
  <2>2. Range(items[frame[w].trx]) \subseteq Range(items'[frame[w].trx])
    BY <1>1, Prepares
  <2>. QED  BY <1>1, <2>1, <2>2
<1>2. CASE ~Prepare(w)
  <2>1. items' = items
    BY <1>2, ItemsStep
  <2>. QED  BY <1>2, <2>1
<1>. QED  BY <1>1, <1>2

\* After the load the map and the pool stay as they are.
LEMMA OverEntries ==
    ASSUME CacheInv, LoadsOnce, LoadedInv, LoadOver,
           NEW w \in Workers, Handler(w) \/ Executor(w) \/ CopyCell(w)
    PROVE  entries' = entries /\ unused_entries' = unused_entries
<1>1. frame[w].trx \notin Loaders
  BY DEF LoadOver
<1>. QED  BY <1>1, LoadedEntries

\* A null pointer is met by nobody but the loader that is about to replace it.
LEMMA NullWaits ==
    ASSUME CacheInv, LoadsOnce, LoadedInv, NEW k \in Keys, entries[k] = Null,
           NEW w \in Workers, ~At(w, "pop"),
           LoadOver \/ (frame[w].trx \in Loaders /\ k \in WriteSet[frame[w].trx])
    PROVE  FALSE
<1>1. PICK v \in Workers : At(v, "pop") /\ frame[v].key = k
  BY DEF LoadedInv, EntriesOK
<1>2. ~LoadOver
  BY <1>1 DEF LoadedInv, LoadedOK, In, At
<1>3. TypeOK /\ FrameOK /\ RunOK
  BY DEF CacheInv
<1>4. frame[v].trx \in Loaders
  BY <1>1, <1>2 DEF LoadedInv, LoadFirst, At
<1>5. k \in WriteSet[frame[v].trx]
  BY <1>1, <1>3, KeyOfTrx DEF At, In
<1>6. v = w
  BY <1>2, <1>3, <1>4, <1>5, OneLoader
<1>. QED  BY <1>1, <1>6

\* No two loaders get an entry for the same key, and no loader twice.
LEMMA EntriesOKStep ==
    ASSUME CacheInv, LoadsOnce, loaded, LoadedInv,
           NEW w \in Workers, Handler(w) \/ Executor(w) \/ CopyCell(w)
    PROVE  EntriesOK'
<1>. DEFINE f == frame[w]
            g == frame'[w]
<1>1. TypeOK /\ FrameOK /\ RunOK /\ LoadFirst /\ EntriesOK
  BY DEF CacheInv, LoadedInv
<1>2. \A v \in Workers \ {w} : frame'[v] = frame[v]
  BY <1>1, FramesStay
<1>3. f \in Frame /\ frame \in [Workers -> Frame] /\ \A h : Continue(w, h) => frame'[w] = h
  BY <1>1, FrameType DEF TypeOK, Continue
<1>4. \A k \in Keys : Known(k)' => \E t \in Loaders : k \in Range(items'[t])
  <2>1. ASSUME NEW k \in Keys, Known(k)'
        PROVE  \E t \in Loaders : k \in Range(items[t])
    <3>1. CASE Known(k)
      BY <1>1, <3>1 DEF EntriesOK
    <3>2. CASE ~Known(k)
      <4>1. InvalidateCreate(w) /\ f.trx \in Loaders /\ k = f.key
        <5>1. entries \in [Keys -> Entries \cup {Null, Absent}] /\ entries[k] = Absent /\ entries'[k] # Absent
          BY <1>1, <2>1, <3>2 DEF TypeOK, Known
        <5>2. ~(InvalidatePop(w) /\ entries[f.key] = Null /\ f.key = k)
          BY <5>1, Ranges
        <5>. QED  BY <5>1, <5>2, LoadedEntries
      <4>. QED  BY <1>1, <4>1, KeyOfTrx, Moves DEF In
    <3>. QED  BY <3>1, <3>2
  <2>. QED  BY <1>1, <2>1, ItemsGrow, LoadersAreTrxs
<1>5. ASSUME NEW v \in Workers \ {w}, frame[v].trx \in Loaders
      PROVE  /\ In(v, Preparing)' => frame'[v].todo \cap Range(items'[frame'[v].trx]) = {}
             /\ In(v, {"invalidate", "create"})' => entries'[frame'[v].key] = Absent
             /\ At(v, "pop")' => entries'[frame'[v].key] = Null
  <2>. DEFINE k == frame[v].key
  <2>1. frame'[v] = frame[v] /\ frame[v].trx \in Trxs /\ frame[v].trx # 0 /\ frame[v].trx # f.trx
    BY <1>1, <1>2, <1>5, LoadersAreTrxs DEF RunOK
  <2>2. items'[frame[v].trx] = items[frame[v].trx]
    BY <1>1, <2>1, ItemsGrow
  <2>3. ASSUME In(v, {"invalidate", "create", "pop"})
        PROVE  k \in Keys /\ entries'[k] = entries[k]
    <3>1. k \in Keys /\ k \in WriteSet[frame[v].trx]
      BY <1>1, <2>3, KeyOfTrx DEF In
    <3>2. (InvalidateCreate(w) \/ InvalidatePop(w)) /\ f.trx \in Loaders => f.key # k
      <4>1. ASSUME InvalidateCreate(w) \/ InvalidatePop(w), f.trx \in Loaders, f.key = k
            PROVE  FALSE
        <5>1. k \in WriteSet[f.trx]
          BY <1>1, <4>1, KeyOfTrx, Moves DEF In
        <5>. QED  BY <1>1, <1>5, <3>1, <4>1, <5>1, OneLoader
      <4>. QED  BY <4>1
    <3>. QED  BY <1>1, <3>1, <3>2, LoadedEntries DEF TypeOK
  <2>. QED  BY <1>1, <1>5, <2>1, <2>2, <2>3 DEF EntriesOK, In, At, Known
<1>6. ASSUME g.trx \in Loaders, In(w, Preparing)'
      PROVE  g.todo \cap Range(items'[g.trx]) = {}
  <2>1. CASE BeginPut(w)
    <3>1. PICK t \in queue : g = [Idle EXCEPT !.at = "put", !.trx = t, !.todo = WriteSet[t]]
      BY <1>1, <2>1, TrxStep
    <3>2. g.trx = t /\ t \in Trxs /\ items'[t] = items[t] /\ items[t] = <<>>
      BY <1>1, <2>1, <3>1 DEF Idle, TypeOK, BeginPut, tableVars, LoadFirst
    <3>. QED  BY <3>2 DEF Range
  <2>2. CASE Prepare(w)
    <3>1. PICK k \in f.todo : /\ Range(items'[f.trx]) = Range(items[f.trx]) \cup {k}
                              /\ g = [f EXCEPT !.at = "invalidate", !.key = k, !.todo = @ \ {k}]
      BY <1>1, <2>2, Prepares
    <3>2. g.trx = f.trx /\ g.todo = f.todo \ {k}
      BY <1>3, <3>1 DEF Frame
    <3>3. f.todo \cap Range(items[f.trx]) = {}
      BY <1>1, <1>6, <2>2, <3>2, Moves DEF EntriesOK, In, Preparing
    <3>. QED  BY <3>1, <3>2, <3>3
  <2>3. CASE ~BeginPut(w) /\ ~Prepare(w)
    <3>1. g.trx = f.trx
      BY <1>1, <1>6, <2>3, TrxStep DEF In
    <3>2. items' = items
      BY <1>1, <2>3, ItemsGrow
    <3>3. f.at \in Preparing
      BY <1>1, <1>6, <2>3, Moves DEF In, Preparing, Handler, Executor
    <3>4. g.todo = f.todo
      <4>1. InvalidateFind(w) \/ InvalidateCreate(w) \/ InvalidatePop(w) \/ InvalidateAt(w)
            \/ InvalidateFlag(w) \/ BeginCommit(w)
        BY <1>1, <2>3, <3>3, Moves DEF Preparing, Handler, Executor
      <4>. QED  BY <1>3, <4>1 DEF Frame, InvalidateFind, InvalidateCreate, InvalidatePop, InvalidateAt,
                InvalidateFlag, BeginCommit, Goto, Forget
    <3>. QED  BY <1>1, <1>6, <3>1, <3>2, <3>3, <3>4 DEF EntriesOK, In
  <2>. QED  BY <2>1, <2>2, <2>3
<1>7. ASSUME g.trx \in Loaders, In(w, {"invalidate", "create"})'
      PROVE  entries'[g.key] = Absent
  <2>1. Prepare(w) \/ InvalidateFind(w)
    BY <1>1, <1>7, Moves DEF In, Handler, Executor
  <2>2. entries' = entries
    BY <2>1 DEF Prepare, InvalidateFind, poolVars
  <2>3. CASE Prepare(w)
    <3>1. PICK k \in f.todo : g = [f EXCEPT !.at = "invalidate", !.key = k, !.todo = @ \ {k}] /\ k \in Keys
      BY <1>1, <2>3, Prepares
    <3>2. g.trx = f.trx /\ g.key = k /\ f.at = "put"
      BY <1>1, <1>3, <2>3, <3>1, Moves DEF Frame
    <3>3. k \in WriteSet[f.trx] /\ k \notin Range(items[f.trx])
      BY <1>1, <1>7, <3>1, <3>2 DEF RunOK, EntriesOK, In, Preparing
    <3>4. ASSUME Known(k)
          PROVE  FALSE
      <4>1. PICK t \in Loaders : k \in Range(items[t])
        BY <1>1, <3>1, <3>4 DEF EntriesOK
      <4>2. k \in WriteSet[t]
        BY <1>1, <4>1, LoadersAreTrxs DEF RunOK
      <4>3. t = f.trx
        BY <1>7, <3>2, <3>3, <4>2 DEF LoadsOnce
      <4>. QED  BY <3>3, <4>1, <4>3
    <3>. QED  BY <2>2, <3>2, <3>4 DEF Known
  <2>4. CASE InvalidateFind(w)
    <3>1. g.trx = f.trx /\ g.key = f.key /\ f.at = "invalidate"
      BY <1>1, <1>3, <2>4, Moves DEF Frame, InvalidateFind, Goto
    <3>. QED  BY <1>1, <1>7, <2>2, <3>1 DEF EntriesOK, In, Known
  <2>. QED  BY <2>1, <2>3, <2>4
<1>8. ASSUME g.trx \in Loaders, At(w, "pop")'
      PROVE  entries'[g.key] = Null
  <2>1. InvalidateCreate(w)
    BY <1>1, <1>8, Moves DEF At, Handler, Executor
  <2>2. g.key = f.key
    BY <1>3, <2>1 DEF Frame, InvalidateCreate, Goto
  <2>. QED  BY <1>1, <2>1, <2>2, LoadedEntries, Moves DEF TypeOK
<1>9. ASSUME NEW k \in Keys, entries'[k] = Null
      PROVE  \E v \in Workers : At(v, "pop")' /\ frame'[v].key = k
  <2>1. CASE entries[k] = Null
    <3>1. PICK v \in Workers : At(v, "pop") /\ frame[v].key = k
      BY <1>1, <2>1 DEF EntriesOK
    <3>2. v # w
      <4>1. ASSUME v = w
            PROVE  FALSE
        <5>1. InvalidatePop(w)
          BY <1>1, <3>1, <4>1, Moves DEF At, Handler, Executor
        <5>2. entries'[k] \in Entries
          <6>1. f.key = k /\ entries[f.key] # Absent
            BY <2>1, <3>1, <4>1, Ranges
          <6>2. /\ entries' = [entries EXCEPT ![f.key] = Head(unused_entries)]
                /\ Head(unused_entries) \in Entries
            BY <5>1, <6>1, LoadedEntries
          <6>. QED  BY <1>1, <6>1, <6>2 DEF TypeOK
        <5>. QED  BY <1>9, <5>2, Ranges
      <4>. QED  BY <4>1
    <3>. QED  BY <1>2, <3>1, <3>2 DEF At
  <2>2. CASE entries[k] # Null
    <3>1. InvalidateCreate(w) /\ f.key = k
      BY <1>1, <1>9, <2>2, LoadedEntries, Ranges DEF TypeOK
    <3>2. g.key = f.key /\ g.at = "pop"
      BY <1>3, <3>1 DEF Frame, InvalidateCreate, Goto
    <3>. QED  BY <3>1, <3>2 DEF At
  <2>. QED  BY <2>1, <2>2
<1>10. ASSUME NEW v \in Workers, frame'[v].trx \in Loaders
       PROVE  /\ In(v, Preparing)' => frame'[v].todo \cap Range(items'[frame'[v].trx]) = {}
              /\ In(v, {"invalidate", "create"})' => ~Known(frame[v].key)'
              /\ At(v, "pop")' => entries'[frame'[v].key] = Null
  <2>1. CASE v = w
    BY <1>6, <1>7, <1>8, <1>10, <2>1 DEF Known
  <2>2. CASE v # w
    BY <1>2, <1>5, <1>10, <2>2 DEF Known
  <2>. QED  BY <2>1, <2>2
<1>. QED  BY <1>4, <1>9, <1>10 DEF EntriesOK

\* An entry leaves the pool only for a key that had none.
LEMMA PoolCountStep ==
    ASSUME CacheInv, LoadsOnce, LoadedInv,
           NEW w \in Workers, Handler(w) \/ Executor(w) \/ CopyCell(w)
    PROVE  PoolCount'
<1>. DEFINE k == frame[w].key
<1>1. TypeOK /\ PoolCount /\ IsFiniteSet(Keys)
  BY DEF CacheInv, LoadedInv, LoadsOnce
<1>2. IsFiniteSet(Filled)
  BY <1>1, FS_Subset DEF Filled
<1>3. CASE entries' = entries /\ unused_entries' = unused_entries
  BY <1>1, <1>3 DEF PoolCount, Filled
<1>4. CASE InvalidateCreate(w) /\ k \in Keys /\ entries[k] = Absent
           /\ entries' = [entries EXCEPT ![k] = Null] /\ unused_entries' = unused_entries
  <2>1. Filled' = Filled
    BY <1>1, <1>4, Ranges DEF Filled, TypeOK, Entries
  <2>. QED  BY <1>1, <1>4, <2>1 DEF PoolCount
<1>5. CASE k \in Keys /\ entries[k] = Null /\ unused_entries # <<>> /\ Head(unused_entries) \in Entries
           /\ entries' = [entries EXCEPT ![k] = Head(unused_entries)]
           /\ unused_entries' = Tail(unused_entries)
  <2>1. Filled' = Filled \cup {k} /\ k \notin Filled
    BY <1>1, <1>5, Ranges DEF Filled, TypeOK, Entries
  <2>2. Cardinality(Filled \cup {k}) = Cardinality(Filled) + 1 /\ Cardinality(Filled) \in Nat
    BY <1>2, <2>1, FS_AddElement, FS_CardinalityType
  <2>3. Len(Tail(unused_entries)) = Len(unused_entries) - 1 /\ Len(unused_entries) \in Nat
    BY <1>1, <1>5 DEF TypeOK
  <2>. QED  BY <1>1, <1>5, <2>1, <2>2, <2>3, CacheAssumption DEF PoolCount
<1>. QED  BY <1>3, <1>4, <1>5, LoadedEntries

\* When the last loader is done every worker is idle.
LEMMA OverBegins ==
    ASSUME CacheInv, loaded, LoadFirst, ~LoadOver, LoadOver',
           NEW w \in Workers, Handler(w) \/ Executor(w) \/ CopyCell(w), NEW v \in Workers
    PROVE  frame'[v].at = "idle"
<1>1. TypeOK /\ FrameOK /\ RunOK
  BY DEF CacheInv
<1>2. \A u \in Workers \ {w} : frame'[u] = frame[u]
  BY <1>1, FramesStay
<1>3. CASE v # w
  <2>1. frame[v].trx \notin Loaders
    BY <1>2, <1>3 DEF LoadOver
  <2>. QED  BY <1>2, <1>3, <2>1 DEF LoadFirst, At
<1>4. CASE v = w
  <2>1. frame'[w].trx \notin Loaders
    BY DEF LoadOver
  <2>2. CASE frame[w].trx \in Loaders
    <3>1. CommitDone(w)
      BY <1>1, <2>1, <2>2, TrxEnds, LoadersAreTrxs
    <3>. QED  BY <1>1, <1>4, <3>1, Moves
  <2>3. CASE frame[w].at = "idle"
    <3>1. BeginPut(w)
      <4>1. BeginPut(w) \/ BeginGet(w)
        BY <1>1, <2>3, Moves DEF Handler, Executor
      <4>. QED  BY <4>1 DEF BeginGet
    <3>2. PICK t \in queue : /\ t \in Loaders
                             /\ Continue(w, [Idle EXCEPT !.at = "put", !.trx = t, !.todo = WriteSet[t]])
      BY <3>1 DEF BeginPut
    <3>3. frame'[w] = [Idle EXCEPT !.at = "put", !.trx = t, !.todo = WriteSet[t]]
      BY <1>1, <3>2 DEF Continue, TypeOK
    <3>4. frame'[w].trx = t
      BY <3>3 DEF Idle
    <3>. QED  BY <2>1, <3>2, <3>4
  <2>. QED  BY <2>2, <2>3 DEF LoadFirst, At
<1>. QED  BY <1>3, <1>4

\* A worker that reads has the entry that the map has for its key.
LEMMA ReadEntryStep ==
    ASSUME CacheInv, LoadsOnce, loaded, LoadedInv, AddressesCurrent,
           NEW w \in Workers, Handler(w) \/ Executor(w) \/ CopyCell(w),
           NEW v \in Workers, frame'[v].at = "read"
    PROVE  LoadOver /\ frame'[v].entry = entries'[frame'[v].key]
<1>1. TypeOK /\ FrameOK /\ RunOK /\ LoadFirst /\ LoadedOK
  BY DEF CacheInv, LoadedInv
<1>2. ASSUME frame[v].at = "read"
      PROVE  LoadOver /\ frame[v].entry = entries[frame[v].key]
  <2>1. frame[v].trx = 0
    BY <1>1, <1>2 DEF FrameOK, FrameFits, Fits, Getting
  <2>. QED  BY <1>1, <1>2, <2>1, LoadersAreTrxs DEF LoadFirst, LoadedOK, At
<1>3. CASE v # w
  BY <1>1, <1>2, <1>3, FramesStay, OverEntries
<1>4. CASE v = w
  <2>1. BeginGet(w) \/ CopyCell(w)
    BY <1>1, <1>4, Moves DEF Handler, Executor
  <2>2. CASE CopyCell(w)
    <3>1. frame[w].at = "read" /\ frame'[w] = [frame[w] EXCEPT !.cell = @ + 1] /\ frame[w] \in Frame
      BY <1>1, <2>2, FrameType DEF CopyCell, Continue, At, TypeOK
    <3>2. frame'[w].entry = frame[w].entry /\ frame'[w].key = frame[w].key
      BY <3>1 DEF Frame
    <3>. QED  BY <1>2, <1>4, <3>1, <3>2, OverEntries
  <2>3. CASE BeginGet(w)
    <3>1. LoadOver
      BY <2>3 DEF BeginGet
    <3>2. PICK k \in Keys :
             IF addr_cache[w][k] = Null THEN frame'[w] = [Idle EXCEPT !.at = "get", !.key = k]
             ELSE frame'[w] = [Idle EXCEPT !.at = "read", !.key = k, !.entry = addr_cache[w][k]]
      BY <1>1, <2>3 DEF BeginGet, Continue, TypeOK
    <3>3. addr_cache[w][k] # Null /\ frame'[w].key = k /\ frame'[w].entry = addr_cache[w][k]
      BY <1>4, <3>2 DEF Idle
    <3>4. addr_cache[w][k] = entries[k]
      BY <3>3 DEF AddressesCurrent
    <3>. QED  BY <1>4, <3>1, <3>3, <3>4, OverEntries
  <2>. QED  BY <2>1, <2>2, <2>3
<1>. QED  BY <1>3, <1>4

\* After the load every key is known, and nobody gives an entry to one.
LEMMA LoadedOKStep ==
    ASSUME CacheInv, CacheInv', LoadsOnce, loaded, LoadedInv, LoadFirst', AddressesCurrent,
           NEW w \in Workers, Handler(w) \/ Executor(w) \/ CopyCell(w)
    PROVE  LoadedOK'
<1>. DEFINE f == frame[w]
            g == frame'[w]
<1>1. TypeOK /\ FrameOK /\ RunOK /\ LoadFirst /\ LoadedOK
  BY DEF CacheInv, LoadedInv
<1>2. \A v \in Workers \ {w} : frame'[v] = frame[v]
  BY <1>1, FramesStay
<1>3. \A v \in Workers : At(v, "read")' => frame'[v].entry = entries'[frame'[v].key]
  BY ReadEntryStep DEF At
<1>4. ASSUME LoadOver, LoadOver'
      PROVE  /\ \A k \in Keys : Known(k)'
             /\ \A v \in Workers : ~In(v, {"create", "pop", "addr_pop", "addr_set"})'
             /\ \A v \in Workers : In(v, Updating)' => frame'[v].trx # 0
  <2>1. \A k \in Keys : Known(k) /\ Known(k)'
    BY <1>1, <1>4, KnownStays DEF LoadedOK
  <2>2. f.at \notin {"create", "pop", "addr_pop", "addr_set"} /\ (f.at \in Updating => f.trx # 0)
    BY <1>1, <1>4 DEF LoadedOK, In
  <2>3. g.at \notin {"create", "pop", "addr_pop", "addr_set"}
    <3>1. ASSUME g.at \in {"create", "pop", "addr_pop", "addr_set"}
          PROVE  FALSE
      <4>1. InvalidateFind(w) \/ AddrFind(w) \/ UpdateValid(w)
        BY <1>1, <2>2, <3>1, Moves DEF Handler, Executor
      <4>2. CASE InvalidateFind(w)
        <5>1. Known(f.key)
          BY <1>1, <2>1, <4>2, KeyOfTrx DEF InvalidateFind, At, In
        <5>2. g = [f EXCEPT !.at = "mark"] /\ f \in Frame
          BY <1>1, <4>2, <5>1, FrameType DEF InvalidateFind, Goto, Continue, TypeOK
        <5>. QED  BY <3>1, <5>2 DEF Frame
      <4>3. CASE AddrFind(w)
        <5>1. Known(f.key)
          <6>1. f.key \in Keys
            BY <1>1, <4>3 DEF AddrFind, At, FrameOK, FrameFits, Fits, Getting
          <6>. QED  BY <2>1, <6>1
        <5>2. g = [f EXCEPT !.at = "addr_at"] /\ f \in Frame
          BY <1>1, <4>3, <5>1, FrameType DEF AddrFind, Goto, Continue, TypeOK
        <5>. QED  BY <3>1, <5>2 DEF Frame
      <4>4. CASE UpdateValid(w)
        <5>1. f.at = "valid"
          BY <1>1, <4>4, Moves
        <5>2. f.item # 0
          BY <1>1, <2>2, <5>1 DEF FrameOK, FrameFits, Fits, Updating
        <5>3. g = [Forget(f) EXCEPT !.at = "test", !.i = @ + 1] /\ f \in Frame
          BY <1>1, <4>4, <5>2, FrameType DEF UpdateValid, Continue, TypeOK
        <5>4. g.at = "test"
          BY <5>3 DEF Frame, Forget
        <5>. QED  BY <3>1, <5>4
      <4>. QED  BY <4>1, <4>2, <4>3, <4>4
    <3>. QED  BY <3>1
  <2>4. g.at \in Updating => g.trx # 0
    <3>1. ASSUME g.at \in Updating
          PROVE  g.trx # 0
      <4>1. UpdateAt(w) \/ UpdateHeader(w) \/ UpdateBody(w)
        BY <1>1, <2>2, <3>1, Moves DEF Handler, Executor, Updating
      <4>2. g.trx = f.trx
        BY <1>1, <3>1, <4>1, TrxStep, Moves DEF Updating
      <4>3. f.at = "update" => f.trx # 0
        BY <1>1, CacheAssumption DEF FrameOK, FrameFits, Fits, Committing
      <4>. QED  BY <1>1, <2>2, <4>1, <4>2, <4>3, Moves DEF Updating
    <3>. QED  BY <3>1
  <2>. QED  BY <1>1, <1>2, <1>4, <2>1, <2>3, <2>4 DEF LoadedOK, In
<1>5. ASSUME ~LoadOver, LoadOver'
      PROVE  /\ \A k \in Keys : Known(k)'
             /\ \A v \in Workers : ~In(v, {"create", "pop", "addr_pop", "addr_set"})'
             /\ \A v \in Workers : In(v, Updating)' => frame'[v].trx # 0
  <2>1. \A v \in Workers : frame'[v].at = "idle"
    BY <1>1, <1>5, OverBegins
  <2>2. ASSUME NEW k \in Keys
        PROVE  Known(k)'
    <3>1. PICK t \in Loaders : k \in WriteSet[t]
      BY DEF LoadsOnce
    <3>2. Prepared(t)'
      BY <1>5 DEF LoadFirst, LoadOver
    <3>3. t \in Trxs /\ k \in Range(items'[t])
      BY <3>1, <3>2, LoadersAreTrxs DEF Prepared
    <3>. QED  BY <2>1, <3>3 DEF CacheInv, KnownOK, In
  <2>. QED  BY <2>1, <2>2 DEF In, Updating
<1>. QED  BY <1>1, <1>3, <1>4, <1>5, OverStays DEF LoadedOK

\* The addresses that clients remember stay those of the map.
LEMMA AddressesStep ==
    ASSUME CacheInv, LoadsOnce, loaded, LoadedInv, AddressesCurrent,
           NEW w \in Workers, Handler(w) \/ Executor(w) \/ CopyCell(w),
           NEW v \in Workers, NEW k \in Keys
    PROVE  addr_cache'[v][k] \in {Null, entries'[k]}
<1>1. TypeOK /\ FrameOK /\ LoadFirst
  BY DEF CacheInv, LoadedInv
<1>2. CASE addr_cache'[v][k] = addr_cache[v][k]
  <2>1. CASE addr_cache[v][k] # Null
    BY <1>1, <1>2, <2>1, OverEntries DEF LoadFirst, AddressesCurrent
  <2>. QED  BY <1>2, <2>1
<1>3. CASE AddrAt(w) /\ addr_cache'[v][k] = entries[k]
  BY <1>3 DEF AddrAt, poolVars
<1>. QED  BY <1>1, <1>2, <1>3, AddressStep

\* After a load no executor meets a null pointer or a key without an entry.
LEMMA NoCrashStep ==
    ASSUME CacheInv, LoadsOnce, loaded, LoadedInv, ~Crashed,
           NEW w \in Workers, Handler(w) \/ Executor(w) \/ CopyCell(w)
    PROVE  ~Crashed'
<1>. DEFINE f == frame[w]
            g == frame'[w]
<1>1. TypeOK /\ FrameOK /\ RunOK /\ KnownOK /\ LoadFirst /\ LoadedOK
  BY DEF CacheInv, LoadedInv
<1>2. \A v \in Workers \ {w} : frame'[v] = frame[v]
  BY <1>1, FramesStay
<1>3. f \in Frame /\ frame \in [Workers -> Frame] /\ \A h : Continue(w, h) => frame'[w] = h
  BY <1>1, FrameType DEF TypeOK, Continue
<1>4. LoadOver \/ f.trx \in Loaders \/ f.at = "idle"
  BY <1>1 DEF LoadFirst, At
<1>5. ASSUME g.at = "crashed"
      PROVE  FALSE
  <2>1. InvalidateAt(w) \/ UpdateAt(w) \/ AddrAt(w)
    BY <1>1, <1>5, Moves DEF Handler, Executor
  <2>2. CASE InvalidateAt(w)
    <3>1. f.at = "mark" /\ f.key \in Keys /\ f.key \in WriteSet[f.trx]
      BY <1>1, <2>2, KeyOfTrx, Moves DEF In
    <3>2. g.at = OrCrash(entries[f.key], "flag")
      BY <1>3, <2>2 DEF InvalidateAt, Frame
    <3>3. entries[f.key] = Null
      BY <1>5, <3>2 DEF OrCrash
    <3>. QED  BY <1>4, <3>1, <3>3, NullWaits DEF At
  <2>3. CASE UpdateAt(w)
    <3>1. f.at = "update" /\ f.trx \in Trxs
      BY <1>1, <2>3, Moves DEF FrameOK, FrameFits, Fits, Committing
    <3>2. LoopKey(f) \in Keys /\ LoopKey(f) \in WriteSet[f.trx]
      BY <1>1, <3>1, LoopKnown DEF RunOK, In
    <3>3. g.at = OrCrash(entries[LoopKey(f)], "lock")
      BY <1>3, <2>3 DEF UpdateAt, Frame
    <3>4. entries[LoopKey(f)] = Null
      BY <1>5, <3>3 DEF OrCrash
    <3>. QED  BY <1>4, <3>1, <3>2, <3>4, NullWaits DEF At
  <2>4. CASE AddrAt(w)
    <3>1. f.at = "addr_at" /\ f.key \in Keys /\ f.trx = 0
      BY <1>1, <2>4, Moves DEF FrameOK, FrameFits, Fits, Getting
    <3>2. LoadOver
      BY <1>4, <3>1, LoadersAreTrxs
    <3>3. entries[f.key] = Absent \/ entries[f.key] = Null
      <4>1. g = Idle \/ entries[f.key] \in {Absent, Null}
        BY <1>3, <2>4, Zenon DEF AddrAt
      <4>. QED  BY <1>5, <4>1 DEF Idle
    <3>4. Known(f.key)
      BY <1>1, <3>1, <3>2 DEF LoadedOK
    <3>. QED  BY <3>1, <3>2, <3>3, <3>4, NullWaits DEF At, Known
  <2>. QED  BY <2>1, <2>2, <2>3, <2>4
<1>. QED  BY <1>2, <1>5 DEF Crashed, At

\* Every behaviour keeps what a load leaves behind, if the load puts every key
\* once and there are entries enough.
THEOREM LoadInvariance ==
    ASSUME LoadsOnce
    PROVE  Spec => [](CacheInv /\ LoadInv)
<1>1. Init => CacheInv
  BY TypeInit, FrameInit, RunInit, KnownInit, PoolInit, MutexInit, CellsInit DEF CacheInv
<1>2. ASSUME Init
      PROVE  LoadInv
  <2>1. /\ \A w \in Workers : frame[w] = Idle
        /\ \A w \in Workers, k \in Keys : addr_cache[w][k] = Null
        /\ \A t \in Trxs : items[t] = <<>>
        /\ \A k \in Keys : entries[k] = Absent
        /\ unused_entries = [e \in Entries |-> e]
        /\ queue \subseteq Trxs
        /\ loaded => queue = Trxs
    BY <1>2 DEF Init
  <2>2. \A w \in Workers : frame[w].at = "idle" /\ frame[w].trx = 0
    BY <2>1 DEF Idle
  <2>3. AddressesCurrent /\ NoCrash
    BY <2>1, <2>2 DEF AddressesCurrent, NoCrash, Crashed, At
  <2>4. ASSUME loaded
        PROVE  LoadFirst /\ LoadedOK /\ EntriesOK /\ PoolCount
    <3>1. Loaders \subseteq queue
      BY <2>1, <2>4, LoadersAreTrxs
    <3>2. LoadFirst
      BY <2>1, <2>2, <3>1 DEF LoadFirst, At
    <3>3. LoadedOK
      <4>1. LoadOver => Keys = {}
        BY <3>1 DEF LoadOver, LoadsOnce
      <4>. QED  BY <2>2, <4>1 DEF LoadedOK, At, In, Updating
    <3>4. EntriesOK
      BY <2>1, <2>2, Ranges, LoadersAreTrxs DEF EntriesOK, Known
    <3>5. PoolCount
      <4>1. Filled = {}
        BY <2>1, Ranges DEF Filled
      <4>2. Len(unused_entries) = ENTRY_NUM
        BY <2>1, CacheAssumption DEF Entries
      <4>. QED  BY <4>1, <4>2, FS_EmptySet, CacheAssumption DEF PoolCount
    <3>. QED  BY <3>2, <3>3, <3>4, <3>5
  <2>. QED  BY <2>3, <2>4 DEF LoadInv
<1>3. ASSUME CacheInv, LoadInv, [Next]_vars
      PROVE  CacheInv' /\ LoadInv'
  <2>1. CacheInv'
    BY <1>3, CacheStep
  <2>2. loaded' = loaded
    BY <1>3, RigidStays
  <2>3. CASE ~loaded
    BY <2>1, <2>2, <2>3 DEF LoadInv, AddressesCurrent, NoCrash
  <2>4. CASE UNCHANGED vars
    BY <1>3, <2>1, <2>4 DEF vars, rigidVars, tableVars, poolVars, clientVars, LoadInv, AddressesCurrent,
       NoCrash, Crashed, LoadFirst, LoadedOK, EntriesOK, PoolCount, Filled, LoadOver, Known, Prepared, At, In
  <2>5. ASSUME loaded, ~Crashed, NEW w \in Workers, Handler(w) \/ Executor(w) \/ CopyCell(w)
        PROVE  LoadInv'
    <3>1. TypeOK /\ FrameOK /\ RunOK /\ LoadFirst /\ LoadedInv /\ AddressesCurrent
      BY <1>3, <2>5 DEF CacheInv, LoadInv, LoadedInv
    <3>2. LoadFirst'
      BY <1>3, <2>5, <3>1, LoadFirstStep
    <3>3. LoadedOK'
      BY <1>3, <2>1, <2>5, <3>1, <3>2, LoadedOKStep
    <3>4. EntriesOK'
      BY <1>3, <2>5, <3>1, EntriesOKStep
    <3>5. PoolCount'
      BY <1>3, <2>5, <3>1, PoolCountStep
    <3>6. AddressesCurrent'
      BY <1>3, <2>2, <2>5, <3>1, AddressesStep DEF AddressesCurrent
    <3>7. ~Crashed'
      BY <1>3, <2>5, <3>1, NoCrashStep
    <3>. QED  BY <3>2, <3>3, <3>4, <3>5, <3>6, <3>7 DEF LoadInv, NoCrash
  <2>. QED  BY <1>3, <2>1, <2>3, <2>4, <2>5 DEF Next
<1>. QED
  BY <1>1, <1>2, <1>3, PTL DEF Spec

\* After a load no executor gives a key another entry than the one whose
\* address clients remember.
THEOREM AddressesStayCurrent ==
    ASSUME LoadsOnce
    PROVE  Spec => []AddressesCurrent
<1>1. CacheInv /\ LoadInv => AddressesCurrent
  BY DEF LoadInv
<1>. QED  BY <1>1, LoadInvariance, PTL

\* After a load that puts every key once and finds entries enough no executor
\* meets a null pointer or a key without an entry.  (A body that does not fit
\* into its entry is another matter, and not modelled.)
THEOREM NobodyCrashes ==
    ASSUME LoadsOnce
    PROVE  Spec => []NoCrash
<1>1. CacheInv /\ LoadInv => NoCrash
  BY DEF LoadInv
<1>. QED  BY <1>1, LoadInvariance, PTL

-----------------------------------------------------------------------------
(* Reads after a load of items that no later put exceeds *)

\* After the load whoever updates an entry does so for a transaction.
LEMMA UpdaterTrx ==
    ASSUME CacheInv, LoadedInv, NEW w \in Workers, In(w, Updating)
    PROVE  frame[w].trx \in Trxs /\ frame[w].item = frame[w].trx
<1>1. TypeOK /\ FrameOK /\ LoadFirst /\ LoadedOK
  BY DEF CacheInv, LoadedInv
<1>2. frame[w].at # "idle" /\ frame[w].item = frame[w].trx /\ frame[w].trx \in Versions
  BY <1>1, FrameType DEF FrameOK, FrameFits, Fits, In, Updating
<1>3. frame[w].trx # 0
  BY <1>1, <1>2, LoadersAreTrxs DEF LoadFirst, LoadedOK, At
<1>. QED  BY <1>2, <1>3 DEF Versions

\* A key that has an entry keeps it.
LEMMA EntryStays ==
    ASSUME CacheInv, LoadsOnce, LoadedInv, NEW w \in Workers, Handler(w) \/ Executor(w) \/ CopyCell(w),
           NEW k \in Keys, entries[k] \in Entries
    PROVE  entries'[k] = entries[k]
<1>1. entries \in [Keys -> Entries \cup {Null, Absent}] /\ entries[k] # Null /\ entries[k] # Absent
  BY Ranges DEF CacheInv, TypeOK
<1>. QED  BY <1>1, LoadedEntries

\* A worker that updates an entry puts a key of its transaction.
LEMMA UpdaterKey ==
    ASSUME CacheInv, LoadedInv, UpdatingOK, NEW w \in Workers, In(w, Updating)
    PROVE  frame[w].key \in WriteSet[frame[w].trx]
<1>1. TypeOK /\ RunOK /\ frame[w].trx \in Trxs /\ InLoop(frame[w]) /\ frame[w].key = LoopKey(frame[w])
      /\ frame[w].i # 0 /\ frame[w].i \in Nat
  BY UpdaterTrx, FrameType DEF CacheInv, UpdatingOK
<1>2. LoopKey(frame[w]) \in Range(items[frame[w].trx])
  BY <1>1 DEF LoopKey, InLoop, Range, TypeOK
<1>. QED  BY <1>1, <1>2 DEF RunOK

\* An item that has arrived in the entry of its key is overwritten by such as
\* are no longer, and nothing clears a cell.
LEMMA ArrivedStays ==
    ASSUME CacheInv, LoadsOnce, LoadsLongest, LoadedInv, UpdatingOK,
           NEW w \in Workers, Handler(w) \/ Executor(w) \/ CopyCell(w), NEW k \in Keys, Arrived(k)
    PROVE  Arrived(k)'
<1>. DEFINE f == frame[w]
            e == entries[k]
<1>1. TypeOK /\ FrameOK /\ e \in Entries /\ entries'[k] = e
  BY EntryStays DEF CacheInv, Arrived
<1>2. ASSUME NEW t \in Loaders, k \in WriteSet[t]
      PROVE  /\ mem'[e].header \in 1..Length[t]
             /\ \A c \in 1..(Length[t] + 1) : mem'[e].body[c] # Zero
  <2>1. /\ mem[e].header \in 1..Length[t]
        /\ \A c \in 1..(Length[t] + 1) : mem[e].body[c] # Zero
        /\ mem[e] \in Memory
    BY <1>1, <1>2 DEF Arrived, TypeOK
  <2>2. CASE mem'[e].header = mem[e].header /\ mem'[e].body = mem[e].body
    BY <2>1, <2>2
  <2>3. CASE UpdateHeader(w) /\ f.entry = e
    <3>1. In(w, Updating)
      BY <1>1, <2>3, Moves DEF In, Updating
    <3>2. f.key \in Keys /\ f.entry = entries[f.key] /\ f.item = f.trx /\ f.trx \in Trxs
          /\ f.key \in WriteSet[f.trx] /\ Length[f.item] \in 1..MaxLength
      BY <1>1, <3>1, Updates, UpdaterTrx, UpdaterKey DEF UpdatingOK
    <3>3. f.key = k
      BY <1>1, <2>3, <3>2 DEF CacheInv, PoolOK, OneKeyPerEntry, Owners
    <3>4. Length[f.item] <= Length[t] /\ Length[t] \in Nat
      BY <1>2, <3>2, <3>3, Lengths, LoadersAreTrxs DEF LoadsLongest, Versions
    <3>5. mem'[e].header = Length[f.item] /\ mem'[e].body = mem[e].body
      BY <1>1, <2>3, CellsStep, Moves
    <3>6. Length[f.item] \in 1..Length[t]
      BY <3>2, <3>4, Lengths
    <3>. QED  BY <2>1, <3>5, <3>6
  <2>4. CASE UpdateBody(w) /\ f.entry = e
    <3>1. In(w, Updating)
      BY <1>1, <2>4, Moves DEF In, Updating
    <3>2. [key |-> f.key, trx |-> f.item] \in Item
      BY <1>1, <3>1, Updates DEF Item
    <3>3. mem'[e].header = mem[e].header
          /\ mem'[e].body = [mem[e].body EXCEPT ![f.cell] =
                IF f.cell = Length[f.item] + 1 THEN IS_ARRIVED ELSE [key |-> f.key, trx |-> f.item]]
      BY <1>1, <2>4, CellsStep, Moves
    <3>4. mem[e].body \in [Cells -> Item \cup {Zero, IS_ARRIVED}] /\ 1..(Length[t] + 1) \subseteq Cells
      BY <2>1, Ranges, LoadersAreTrxs DEF Memory
    <3>. QED  BY <2>1, <3>2, <3>3, <3>4, Flags
  <2>5. CASE f.entry # e \/ ~(UpdateHeader(w) \/ UpdateBody(w))
    BY <1>1, <2>2, <2>5, CellsStep
  <2>. QED  BY <2>3, <2>4, <2>5
<1>. QED  BY <1>1, <1>2 DEF Arrived

\* How the loop of commit goes on: with its update, or with the next key.
LEMMA LoopStep ==
    ASSUME CacheInv, LoadedInv, NEW w \in Workers, Handler(w) \/ Executor(w) \/ CopyCell(w),
           In(w, {"set", "update"} \cup Updating), frame'[w].at # "crashed"
    PROVE  LET f == frame[w]
               g == frame'[w]
           IN  /\ items' = items /\ g.trx = f.trx
               /\ \/ g.at \in {"update"} \cup Updating /\ g.i = f.i /\ ~UpdateValid(w)
                  \/ UpdateValid(w) /\ f.at = "valid" /\ g.at = "test" /\ g.i = f.i + 1
<1>. DEFINE f == frame[w]
            g == frame'[w]
<1>1. TypeOK /\ FrameOK /\ RunOK
  BY DEF CacheInv
<1>2. f \in Frame /\ frame \in [Workers -> Frame] /\ \A h : Continue(w, h) => frame'[w] = h
  BY <1>1, FrameType DEF TypeOK, Continue
<1>3. CommitSet(w) \/ UpdateAt(w) \/ UpdateHeader(w) \/ UpdateBody(w) \/ UpdateValid(w)
  BY <1>1, Moves DEF In, Updating, Handler, Executor
<1>4. items' = items
  BY <1>3 DEF CommitSet, UpdateAt, UpdateHeader, UpdateBody, UpdateValid, tableVars
<1>5. CASE CommitSet(w) \/ UpdateAt(w) \/ UpdateHeader(w) \/ UpdateBody(w)
  <2>1. g.trx = f.trx /\ g.i = f.i
    BY <1>2, <1>5 DEF Frame, Goto, CommitSet, UpdateAt, UpdateHeader, UpdateBody
  <2>2. g.at \in {"update"} \cup Updating /\ ~UpdateValid(w)
    BY <1>1, <1>5, Moves DEF Updating
  <2>. QED  BY <1>4, <2>1, <2>2
<1>6. CASE UpdateValid(w)
  <2>1. f.at = "valid"
    BY <1>1, <1>6, Moves
  <2>2. f.item # 0
    BY <2>1, UpdaterTrx, CacheAssumption DEF In, Updating
  <2>3. g = [Forget(f) EXCEPT !.at = "test", !.i = @ + 1]
    BY <1>2, <1>6, <2>2 DEF UpdateValid
  <2>4. g.at = "test" /\ g.trx = f.trx /\ g.i = f.i + 1
    BY <1>2, <2>3 DEF Frame, Forget
  <2>. QED  BY <1>4, <1>6, <2>1, <2>4
<1>. QED  BY <1>3, <1>5, <1>6

\* When an update ends the loaded item has arrived: it is the loader's own, or
\* the load was over.
LEMMA UpdateArrives ==
    ASSUME CacheInv, LoadsOnce, LoadedInv, UpdatingOK, ArrivalOK, NEW w \in Workers, At(w, "valid")
    PROVE  /\ frame[w].key \in Keys /\ frame[w].key = LoopKey(frame[w])
           /\ Arrived(frame[w].key)
<1>. DEFINE f == frame[w]
            m == mem[f.entry]
<1>1. In(w, Updating) /\ TypeOK /\ FrameOK /\ MutexOK
  BY DEF At, In, Updating, CacheInv
<1>2. f.item \in Trxs /\ f.item = f.trx /\ f.key \in WriteSet[f.trx]
  BY <1>1, UpdaterTrx, UpdaterKey
<1>3. f.key \in Keys /\ f.entry \in Entries /\ f.key = LoopKey(f) /\ f.entry = entries[f.key]
  BY <1>1, Updates DEF UpdatingOK
<1>4. CASE f.trx \in Loaders
  <2>1. ASSUME NEW t \in Loaders, f.key \in WriteSet[t]
        PROVE  t = f.item
    BY <1>2, <1>4, <2>1 DEF LoadsOnce
  <2>2. /\ m.header = Length[f.item] /\ m.body[Length[f.item] + 1] # Zero
        /\ \A c \in 1..Length[f.item] : m.body[c] = [key |-> f.key, trx |-> f.item]
    BY <1>1 DEF MutexOK, At, In
  <2>3. [key |-> f.key, trx |-> f.item] # Zero
    <3>1. f.item \in Versions
      BY <1>2 DEF Versions
    <3>2. [key |-> f.key, trx |-> f.item] \in Item
      BY <1>3, <3>1 DEF Item
    <3>. QED  BY <3>2, Flags
  <2>4. Length[f.item] \in Nat \ {0}
    BY <1>2, Lengths DEF Versions
  <2>5. m.header \in 1..Length[f.item]
    BY <2>2, <2>4
  <2>6. \A c \in 1..(Length[f.item] + 1) : m.body[c] # Zero
    BY <2>2, <2>3, <2>4
  <2>. QED  BY <1>3, <2>1, <2>5, <2>6 DEF Arrived
<1>5. CASE f.trx \notin Loaders
  <2>1. LoadOver
    BY <1>5 DEF LoadedInv, LoadFirst, At
  <2>2. PICK t \in Loaders : f.key \in WriteSet[t]
    BY <1>3 DEF LoadsOnce
  <2>3. Arrived(f.key)
    BY <2>1, <2>2 DEF ArrivalOK, LoadOver
  <2>. QED  BY <1>3, <2>3
<1>. QED  BY <1>4, <1>5

\* A worker that updates an entry has its key's.
LEMMA UpdatingOKStep ==
    ASSUME CacheInv, LoadsOnce, loaded, LoadedInv, UpdatingOK,
           NEW w \in Workers, Handler(w) \/ Executor(w) \/ CopyCell(w), NEW v \in Workers, In(v, Updating)'
    PROVE  /\ InLoop(frame[v])'
           /\ frame'[v].key = LoopKey(frame[v])'
           /\ frame'[v].entry = entries'[frame'[v].key]
           /\ frame'[v].i # 0
<1>. DEFINE f == frame[w]
            g == frame'[w]
<1>1. TypeOK /\ FrameOK /\ RunOK /\ KnownOK /\ LoadFirst /\ LoadedOK
  BY DEF CacheInv, LoadedInv
<1>2. f \in Frame /\ frame \in [Workers -> Frame] /\ \A h : Continue(w, h) => frame'[w] = h
  BY <1>1, FrameType DEF TypeOK, Continue
<1>3. CASE v # w
  <2>1. frame'[v] = frame[v] /\ In(v, Updating)
    BY <1>1, <1>3, FramesStay DEF In
  <2>2. frame[v].trx \in Trxs /\ frame[v].trx # f.trx
    BY <1>1, <1>3, <2>1, UpdaterTrx, Ranges DEF RunOK
  <2>3. items'[frame[v].trx] = items[frame[v].trx]
    BY <1>1, <2>2, ItemsGrow
  <2>4. frame[v].key \in Keys /\ frame[v].entry \in Entries
    BY <1>1, <2>1, Updates
  <2>. QED  BY <2>1, <2>3, <2>4, EntryStays DEF UpdatingOK, InLoop, LoopKey
<1>4. CASE v = w /\ UpdateAt(w)
  <2>. DEFINE k == LoopKey(f)
  <2>1. f.at = "update" /\ InLoop(f) /\ f.i # 0
    BY <1>1, <1>4, Moves DEF FrameOK, FrameFits, In, Committing
  <2>2. items' = items /\ entries' = entries
    BY <1>4 DEF UpdateAt, tableVars, poolVars
  <2>3. g.trx = f.trx /\ g.i = f.i /\ g.key = k /\ g.entry = entries[k]
    <3>1. g = [f EXCEPT !.at = OrCrash(entries[k], "lock"), !.key = k, !.entry = entries[k], !.item = f.trx]
      BY <1>2, <1>4 DEF UpdateAt
    <3>. QED  BY <1>2, <3>1 DEF Frame
  <2>. QED  BY <1>4, <2>1, <2>2, <2>3 DEF InLoop, LoopKey
<1>5. CASE v = w /\ (UpdateHeader(w) \/ UpdateBody(w))
  <2>1. In(w, Updating) /\ items' = items
    BY <1>1, <1>5, Moves DEF In, Updating, UpdateHeader, UpdateBody, tableVars
  <2>2. g.trx = f.trx /\ g.i = f.i /\ g.key = f.key /\ g.entry = f.entry
    BY <1>2, <1>5 DEF Frame, UpdateHeader, UpdateBody
  <2>3. f.key \in Keys /\ f.entry \in Entries
    BY <1>1, <2>1, Updates
  <2>. QED  BY <1>5, <2>1, <2>2, <2>3, EntryStays DEF UpdatingOK, InLoop, LoopKey
<1>6. CASE v = w /\ AddrPop(w)
  <2>1. f.at = "addr_pop" /\ f.trx = 0
    BY <1>1, <1>6, Moves DEF FrameOK, FrameFits, Fits, Getting
  <2>. QED  BY <1>1, <2>1, LoadersAreTrxs DEF LoadFirst, LoadedOK, At, In
<1>7. v # w \/ UpdateAt(w) \/ UpdateHeader(w) \/ UpdateBody(w) \/ AddrPop(w)
  BY <1>1, Moves DEF In, Updating, Handler, Executor
<1>. QED  BY <1>3, <1>4, <1>5, <1>6, <1>7

\* What a loader has passed in the loop of commit has arrived.
LEMMA PassedStep ==
    ASSUME CacheInv, LoadsOnce, LoadsLongest, loaded, LoadedInv, UpdatingOK, ArrivalOK, ~Crashed',
           NEW w \in Workers, Handler(w) \/ Executor(w) \/ CopyCell(w),
           NEW v \in Workers, frame'[v].trx \in Loaders, In(v, Committing \cup Updating)',
           NEW j \in DOMAIN items'[frame'[v].trx], j < frame'[v].i
    PROVE  Arrived(items[frame[v].trx][j])'
<1>. DEFINE f == frame[w]
            g == frame'[w]
            Passed(u, n) == Arrived(items[frame[u].trx][n])
<1>1. TypeOK /\ FrameOK /\ RunOK /\ LoadFirst /\ LoadedOK
  BY DEF CacheInv, LoadedInv
<1>2. f \in Frame /\ frame \in [Workers -> Frame] /\ \A h : Continue(w, h) => frame'[w] = h
  BY <1>1, FrameType DEF TypeOK, Continue
<1>3. frame'[v].trx = frame[v].trx /\ frame[v].trx \in Trxs
  <2>1. CASE v = w
    <3>1. ~BeginPut(w)
      BY <1>1, <2>1, Moves DEF In, Committing, Updating
    <3>. QED  BY <1>1, <2>1, <3>1, TrxStep, LoadersAreTrxs DEF In
  <2>2. CASE v # w
    BY <1>1, <2>2, FramesStay, LoadersAreTrxs
  <2>. QED  BY <2>1, <2>2
<1>4. items'[frame[v].trx] = items[frame[v].trx]
  <2>1. CASE v = w
    <3>1. ~Prepare(w)
      BY <1>1, <2>1, Moves DEF In, Committing, Updating
    <3>. QED  BY <1>1, <3>1, ItemsGrow
  <2>2. CASE v # w
    <3>1. frame[v].trx # f.trx
      BY <1>1, <1>3, <2>2, Ranges DEF RunOK
    <3>. QED  BY <1>1, <1>3, <3>1, ItemsGrow
  <2>. QED  BY <2>1, <2>2
<1>. DEFINE s == items[frame[v].trx]
<1>5. s \in Seq(Keys) /\ j \in 1..Len(s) /\ s[j] \in Keys
  BY <1>1, <1>3, <1>4 DEF TypeOK
<1>6. SUFFICES Arrived(s[j])
  <2>1. ASSUME NEW k \in Keys, Arrived(k)
        PROVE  Arrived(k)'
    BY <2>1, ArrivedStays
  <2>2. PICK k \in Keys : k = s[j]
    BY <1>5
  <2>3. Arrived(k)'
    BY <1>6, <2>1, <2>2
  <2>. QED  BY <1>3, <1>4, <2>2, <2>3
<1>7. ASSUME In(v, Committing \cup Updating), j < frame[v].i
      PROVE  Arrived(s[j])
  BY <1>3, <1>5, <1>7 DEF ArrivalOK
<1>8. CASE v # w
  BY <1>1, <1>7, <1>8, FramesStay DEF In
<1>9. CASE v = w
  <2>1. CASE BeginCommit(w)
    <3>1. g.i = 1
      BY <1>2, <2>1 DEF BeginCommit, Frame
    <3>. QED  BY <1>5, <1>9, <3>1
  <2>2. CASE CommitTest(w)
    <3>1. f.at = "test" /\ InLoop(f) /\ f.i # 0
      BY <1>1, <2>2, Moves DEF CommitTest, FrameOK, FrameFits, In, Committing
    <3>2. CASE latest_commit[LoopKey(f)] < f.trx
      <4>1. g.i = f.i
        BY <1>2, <2>2, <3>2 DEF CommitTest, Frame
      <4>. QED  BY <1>7, <1>9, <3>1, <4>1 DEF In, Committing
    <3>3. CASE ~(latest_commit[LoopKey(f)] < f.trx)
      <4>1. g.i = f.i + 1
        BY <1>2, <2>2, <3>3 DEF CommitTest, Frame
      <4>2. CASE j # f.i
        BY <1>2, <1>5, <1>7, <1>9, <3>1, <4>1, <4>2 DEF In, Committing, Frame
      <4>3. CASE j = f.i
        <5>. DEFINE k == LoopKey(f)
        <5>0. k = s[j]
          BY <1>9, <4>3 DEF LoopKey
        <5>1. k = s[j] /\ k \in Keys /\ k \in Range(s)
          BY <1>5, <5>0 DEF Range
        <5>2. latest_commit[k] # 0
          <6>1. latest_commit[k] \in Nat /\ f.trx \in Nat \ {0}
            BY <1>1, <1>3, <1>9, <5>1, Ranges DEF TypeOK
          <6>. QED  BY <3>3, <6>1
        <5>3. ASSUME NEW u \in Workers, In(u, {"update"} \cup Updating), LoopKey(frame[u]) = k
              PROVE  FALSE
          <6>1. f.trx \in Loaders /\ ~LoadOver
            BY <1>3, <1>9 DEF LoadOver
          <6>2. frame[u].trx \in Loaders
            BY <1>1, <5>3, <6>1 DEF LoadFirst, At, In, Updating
          <6>3. InLoop(frame[u]) /\ frame[u].i # 0 /\ frame[u].i \in Nat
            BY <1>1, <5>3, FrameType DEF UpdatingOK, In, FrameOK, FrameFits, Committing
          <6>4. LoopKey(frame[u]) \in Range(items[frame[u].trx])
            BY <1>1, <6>2, <6>3, LoadersAreTrxs DEF LoopKey, InLoop, Range, TypeOK
          <6>5. k \in WriteSet[frame[u].trx] /\ k \in WriteSet[f.trx]
            BY <1>1, <1>3, <1>9, <5>1, <5>3, <6>2, <6>4, LoadersAreTrxs DEF RunOK
          <6>6. u = w
            BY <1>1, <6>1, <6>2, <6>5, OneLoader
          <6>. QED  BY <3>1, <5>3, <6>6 DEF In, Updating
        <5>4. Arrived(k)
          BY <5>1, <5>2, <5>3 DEF ArrivalOK
        <5>. QED  BY <5>1, <5>4
      <4>. QED  BY <4>2, <4>3
    <3>. QED  BY <3>2, <3>3
  <2>3. CASE In(w, {"set", "update"} \cup Updating)
    <3>1. g.at # "crashed"
      BY DEF Crashed, At
    <3>2. f.at \in Committing \cup Updating
      BY <2>3 DEF In, Committing
    <3>3. CASE g.i = f.i
      BY <1>7, <1>9, <3>2, <3>3 DEF In
    <3>4. CASE UpdateValid(w) /\ f.at = "valid" /\ g.i = f.i + 1
      <4>1. CASE j # f.i
        BY <1>2, <1>5, <1>7, <1>9, <3>2, <3>4, <4>1 DEF In, Frame
      <4>2. CASE j = f.i
        <5>1. Arrived(f.key) /\ f.key = LoopKey(f)
          BY <3>4, UpdateArrives DEF At
        <5>2. f.key = s[j]
          BY <1>9, <4>2, <5>1 DEF LoopKey
        <5>. QED  BY <5>1, <5>2
      <4>. QED  BY <4>1, <4>2
    <3>. QED  BY <2>3, <3>1, <3>3, <3>4, LoopStep
  <2>4. BeginCommit(w) \/ CommitTest(w) \/ In(w, {"set", "update"} \cup Updating)
    <3>1. f.at # "addr_pop"
      BY <1>1, <1>3, <1>9, Ranges DEF FrameOK, FrameFits, Fits, Getting
    <3>. QED  BY <1>1, <1>9, <3>1, Moves DEF In, Committing, Updating, Handler, Executor
  <2>. QED  BY <2>1, <2>2, <2>3, <2>4
<1>. QED  BY <1>8, <1>9

\* What a loader that is done has loaded has arrived.
LEMMA LoadArrives ==
    ASSUME CacheInv, LoadsOnce, LoadsLongest, loaded, LoadedInv, UpdatingOK, ArrivalOK,
           NEW w \in Workers, Handler(w) \/ Executor(w) \/ CopyCell(w), NEW t \in Loaders
    PROVE  \/ t \in queue'
           \/ \E v \in Workers : frame'[v].trx = t
           \/ \A k \in WriteSet[t] : Arrived(k)'
<1>. DEFINE f == frame[w]
            g == frame'[w]
<1>1. TypeOK /\ FrameOK /\ RunOK /\ t \in Trxs /\ t # 0 /\ WriteSet[t] \subseteq Keys
  BY LoadersAreTrxs, CacheAssumption DEF CacheInv
<1>2. \A v \in Workers \ {w} : frame'[v] = frame[v]
  BY <1>1, FramesStay
<1>3. ASSUME \A k \in WriteSet[t] : Arrived(k)
      PROVE  \A k \in WriteSet[t] : Arrived(k)'
  <2>1. \A k \in Keys : Arrived(k) => Arrived(k)'
    BY ArrivedStays
  <2>. QED  BY <1>1, <1>3, <2>1
<1>4. CASE t \in queue
  <2>1. CASE BeginPut(w)
    <3>1. PICK u \in queue : g = [Idle EXCEPT !.at = "put", !.trx = u, !.todo = WriteSet[u]]
                             /\ queue' = queue \ {u}
      BY <1>1, <2>1, TrxStep
    <3>2. g.trx = u
      BY <3>1 DEF Idle
    <3>. QED  BY <1>4, <3>1, <3>2
  <2>2. CASE ~BeginPut(w)
    BY <1>1, <1>4, <2>2, TrxStep
  <2>. QED  BY <2>1, <2>2
<1>5. ASSUME NEW v \in Workers, frame[v].trx = t
      PROVE  (\E u \in Workers : frame'[u].trx = t) \/ \A k \in WriteSet[t] : Arrived(k)
  <2>1. CASE frame'[v].trx = t
    BY <2>1
  <2>2. CASE frame'[v].trx # t
    <3>1. v = w
      BY <1>2, <1>5, <2>2
    <3>2. CommitDone(w)
      BY <1>1, <1>5, <2>2, <3>1, TrxEnds
    <3>3. f.at = "test" /\ f.trx = t /\ f.i \in Nat /\ ~InLoop(f)
      BY <1>1, <1>5, <3>1, <3>2, FrameType, Moves DEF CommitDone
    <3>4. Range(items[t]) = WriteSet[t] /\ items[t] \in Seq(Keys)
      BY <1>1, <3>3 DEF RunOK, In, Committing, Prepared, TypeOK
    <3>5. \A j \in DOMAIN items[t] : Arrived(items[t][j])
      <4>1. \A j \in DOMAIN items[t] : j < f.i
        BY <3>3, <3>4 DEF InLoop
      <4>. QED  BY <3>3, <4>1 DEF ArrivalOK, In, Committing
    <3>6. \A k \in WriteSet[t] : \E j \in DOMAIN items[t] : items[t][j] = k
      BY <3>4 DEF Range
    <3>. QED  BY <3>5, <3>6
  <2>. QED  BY <2>1, <2>2
<1>. QED  BY <1>3, <1>4, <1>5 DEF ArrivalOK

\* A key with a latest commit has an item in its entry, or is about to.
LEMMA LatestArrives ==
    ASSUME CacheInv, LoadsOnce, LoadsLongest, loaded, LoadedInv, UpdatingOK, ArrivalOK, ~Crashed',
           NEW w \in Workers, Handler(w) \/ Executor(w) \/ CopyCell(w), NEW k \in Keys
    PROVE  \/ latest_commit'[k] = 0
           \/ Arrived(k)'
           \/ \E v \in Workers : In(v, {"update"} \cup Updating)' /\ LoopKey(frame[v])' = k
<1>. DEFINE f == frame[w]
            g == frame'[w]
<1>1. TypeOK /\ FrameOK /\ RunOK
  BY DEF CacheInv
<1>2. \A v \in Workers \ {w} : frame'[v] = frame[v]
  BY <1>1, FramesStay
<1>3. g.at # "crashed"
  BY DEF Crashed, At
<1>4. Arrived(k) => Arrived(k)'
  BY ArrivedStays
<1>5. ASSUME In(w, {"set", "update"} \cup Updating), LoopKey(f) = k
      PROVE  Arrived(k) \/ (In(w, {"update"} \cup Updating)' /\ LoopKey(frame[w])' = k)
  <2>1. CASE g.at \in {"update"} \cup Updating /\ g.i = f.i
    <3>1. items' = items /\ g.trx = f.trx
      BY <1>3, <1>5, LoopStep
    <3>. QED  BY <1>5, <2>1, <3>1 DEF LoopKey, In
  <2>2. CASE UpdateValid(w) /\ f.at = "valid"
    BY <1>5, <2>2, UpdateArrives DEF At
  <2>. QED  BY <1>3, <1>5, <2>1, <2>2, LoopStep
<1>6. CASE latest_commit[k] # 0
  <2>1. ASSUME NEW v \in Workers, In(v, {"update"} \cup Updating), LoopKey(frame[v]) = k, v # w
        PROVE  In(v, {"update"} \cup Updating)' /\ LoopKey(frame[v])' = k
    <3>1. frame'[v] = frame[v]
      BY <1>2, <2>1
    <3>2. frame[v].trx \in Trxs
      <4>1. CASE In(v, Updating)
        BY <4>1, UpdaterTrx
      <4>2. CASE frame[v].at = "update"
        BY <1>1, <4>2 DEF FrameOK, FrameFits, Fits, Committing
      <4>. QED  BY <2>1, <4>1, <4>2 DEF In
    <3>3. items'[frame[v].trx] = items[frame[v].trx]
      <4>1. frame[v].trx # f.trx
        BY <1>1, <2>1, <3>2, Ranges DEF RunOK
      <4>. QED  BY <1>1, <3>2, <4>1, ItemsGrow
    <3>. QED  BY <2>1, <3>1, <3>3 DEF In, LoopKey
  <2>2. Arrived(k) \/ \E v \in Workers : In(v, {"update"} \cup Updating) /\ LoopKey(frame[v]) = k
    BY <1>6 DEF ArrivalOK
  <2>3. In(w, {"update"} \cup Updating) => In(w, {"set", "update"} \cup Updating)
    BY DEF In
  <2>. QED  BY <1>4, <1>5, <2>1, <2>2, <2>3
<1>7. CASE latest_commit[k] = 0 /\ latest_commit'[k] # 0
  <2>1. CommitSet(w) /\ LoopKey(f) = k
    <3>1. ASSUME latest_commit' # latest_commit
          PROVE  CommitSet(w)
      BY <3>1 DEF Handler, Executor, BeginPut, BeginGet, ReadInvalid, ReadBody, ReadGarbage, AskAgain,
         LeaveRead, Prepare, InvalidateFind, InvalidateCreate, InvalidatePop, InvalidateAt, InvalidateFlag,
         BeginCommit, CommitTest, UpdateAt, CommitDone, UpdateHeader, UpdateBody, UpdateValid, AddrFind,
         AddrPop, AddrSet, AddrAt, CopyCell, tableVars
    <3>2. CommitSet(w)
      BY <1>7, <3>1
    <3>. QED  BY <1>1, <1>7, <3>2 DEF CommitSet, TypeOK
  <2>2. In(w, {"set", "update"} \cup Updating)
    BY <1>1, <2>1, Moves DEF In
  <2>. QED  BY <1>4, <1>5, <2>1, <2>2
<1>. QED  BY <1>6, <1>7

\* Where a client reads after the load an item has arrived.
LEMMA ReadArrived ==
    ASSUME CacheInv, LoadsOnce, LoadedInv, ArrivalOK, NEW w \in Workers, At(w, "read")
    PROVE  LET m == mem[frame[w].entry]
           IN  /\ frame[w].key \in Keys /\ frame[w].entry \in Entries
               /\ \E t \in Loaders : frame[w].key \in WriteSet[t]
               /\ \A t \in Loaders :
                     frame[w].key \in WriteSet[t] =>
                         /\ m.header \in 1..Length[t]
                         /\ \A c \in 1..(Length[t] + 1) : m.body[c] # Zero
<1>1. TypeOK /\ FrameOK /\ LoadFirst /\ LoadedOK
  BY DEF CacheInv, LoadedInv
<1>2. frame[w].key \in Keys /\ frame[w].trx = 0 /\ frame[w].entry \in Entries
  BY <1>1 DEF FrameOK, FrameFits, Fits, At, Getting
<1>3. LoadOver /\ frame[w].entry = entries[frame[w].key]
  BY <1>1, <1>2, LoadersAreTrxs DEF LoadFirst, LoadedOK, At
<1>4. PICK t \in Loaders : frame[w].key \in WriteSet[t]
  BY <1>2 DEF LoadsOnce
<1>5. Arrived(frame[w].key)
  BY <1>3, <1>4 DEF ArrivalOK, LoadOver
<1>. QED  BY <1>2, <1>3, <1>4, <1>5 DEF Arrived

\* A client copies the header and the flag of an item that has arrived.
LEMMA CopiedOKStep ==
    ASSUME CacheInv, LoadsOnce, loaded, LoadedInv, ArrivalOK, CopiedOK,
           NEW w \in Workers, Handler(w) \/ Executor(w) \/ CopyCell(w),
           NEW v \in Workers, At(v, "read")', NEW t \in Loaders, frame'[v].key \in WriteSet[t]
    PROVE  /\ frame'[v].cell > 1 => read_buf'[v].header \in 1..Length[t]
           /\ \A c \in 1..(Length[t] + 1) :
                 frame'[v].cell > c + 1 => read_buf'[v].body[c] # Zero
<1>. DEFINE f == frame[w]
            g == frame'[w]
<1>1. TypeOK /\ FrameOK
  BY DEF CacheInv
<1>2. f \in Frame /\ frame \in [Workers -> Frame] /\ \A h : Continue(w, h) => frame'[w] = h
  BY <1>1, FrameType DEF TypeOK, Continue
<1>3. Length[t] \in 1..MaxLength /\ MaxLength \in Nat
  BY Lengths, LoadersAreTrxs DEF Versions
<1>4. CASE v # w
  <2>1. frame'[v] = frame[v] /\ At(v, "read")
    BY <1>1, <1>4, FramesStay DEF At
  <2>2. read_buf'[v] = read_buf[v]
    <3>1. read_buf \in [Workers -> Memory]
      BY <1>1 DEF TypeOK
    <3>. QED  BY <1>1, <1>4, <3>1, BufferChange
  <2>. QED  BY <2>1, <2>2 DEF CopiedOK
<1>5. CASE v = w /\ BeginGet(w)
  <2>1. PICK k \in Keys : \/ g = [Idle EXCEPT !.at = "get", !.key = k]
                          \/ g = [Idle EXCEPT !.at = "read", !.key = k, !.entry = addr_cache[w][k]]
    BY <1>2, <1>5, Zenon DEF BeginGet
  <2>2. g.cell = 0
    BY <2>1 DEF Idle
  <2>. QED  BY <1>3, <1>5, <2>2
<1>6. CASE v = w /\ CopyCell(w)
  <2>. DEFINE m == mem[f.entry]
              c == f.cell
              b == read_buf[w]
  <2>1. At(w, "read") /\ c \in Nat /\ c <= MaxLength + 2 /\ g.cell = c + 1 /\ g.key = f.key
        /\ read_buf' = [read_buf EXCEPT ![w] = Copied(b, m, c)]
    BY <1>1, <1>2, <1>6 DEF CopyCell, Frame
  <2>2. /\ f.entry \in Entries /\ m.header \in 1..Length[t]
        /\ \A d \in 1..(Length[t] + 1) : m.body[d] # Zero
    BY <1>6, <2>1, ReadArrived
  <2>3. m \in Memory /\ b \in Memory /\ read_buf'[w] = Copied(b, m, c)
    BY <1>1, <2>1, <2>2 DEF TypeOK
  <2>4. c > 1 => b.header \in 1..Length[t]
    BY <1>6, <2>1 DEF CopiedOK
  <2>5. \A d \in 1..(Length[t] + 1) : c > d + 1 => b.body[d] # Zero
    BY <1>6, <2>1 DEF CopiedOK
  <2>6. CASE c = 0
    BY <1>3, <1>6, <2>1, <2>6
  <2>7. CASE c = 1
    <3>1. read_buf'[w] = [b EXCEPT !.header = m.header]
      BY <2>3, <2>7 DEF Copied
    <3>2. read_buf'[w].header = m.header
      BY <2>3, <3>1 DEF Memory
    <3>. QED  BY <1>3, <1>6, <2>1, <2>2, <2>7, <3>2
  <2>8. CASE c > 1
    <3>1. read_buf'[w] = [b EXCEPT !.body[c - 1] = m.body[c - 1]]
      BY <2>1, <2>3, <2>8 DEF Copied
    <3>2. read_buf'[w].header = b.header /\ read_buf'[w].body = [b.body EXCEPT ![c - 1] = m.body[c - 1]]
      BY <2>3, <3>1 DEF Memory
    <3>3. c - 1 \in Cells /\ DOMAIN b.body = Cells
      BY <1>3, <2>1, <2>3, <2>8 DEF Cells, Memory
    <3>4. ASSUME NEW d \in 1..(Length[t] + 1), c + 1 > d + 1
          PROVE  read_buf'[w].body[d] # Zero
      <4>1. d \in Cells /\ d \in Nat
        BY <1>3 DEF Cells
      <4>2. CASE d = c - 1
        BY <2>2, <3>2, <3>3, <4>2
      <4>3. CASE d # c - 1
        <5>1. c > d + 1
          BY <2>1, <3>4, <4>1, <4>3
        <5>2. b.body[d] # Zero
          BY <2>5, <5>1
        <5>. QED  BY <3>2, <3>3, <4>1, <4>3, <5>2
      <4>. QED  BY <4>2, <4>3
    <3>. QED  BY <1>3, <1>6, <2>1, <2>4, <2>8, <3>2, <3>4
  <2>. QED  BY <2>1, <2>6, <2>7, <2>8
<1>. QED
  <2>1. v # w \/ BeginGet(w) \/ CopyCell(w)
    BY <1>1, Moves DEF At, Handler, Executor
  <2>. QED  BY <1>4, <1>5, <1>6, <2>1

\* Every behaviour keeps what is known of the entries and of the copies of
\* readers after a load of items that no later put exceeds.
THEOREM ReadInvariance ==
    ASSUME LoadsOnce, LoadsLongest
    PROVE  Spec => []IInv
<1>1. ASSUME Init
      PROVE  ReadInv
  <2>1. /\ \A w \in Workers : frame[w] = Idle
        /\ latest_commit = [k \in Keys |-> 0]
        /\ loaded => queue = Trxs
    BY <1>1 DEF Init
  <2>2. \A w \in Workers : frame[w].at = "idle" /\ frame[w].trx = 0
    BY <2>1 DEF Idle
  <2>. QED
    BY <2>1, <2>2, LoadersAreTrxs DEF ReadInv, UpdatingOK, ArrivalOK, CopiedOK, In, At, Updating
<1>2. ASSUME CacheInv, LoadInv, (CacheInv /\ LoadInv)', ReadInv, [Next]_vars
      PROVE  ReadInv'
  <2>1. loaded' = loaded
    BY <1>2, RigidStays
  <2>2. CASE ~loaded
    BY <2>1, <2>2 DEF ReadInv
  <2>3. CASE UNCHANGED vars
    <3>1. /\ frame' = frame /\ queue' = queue /\ items' = items /\ entries' = entries /\ mem' = mem
          /\ latest_commit' = latest_commit /\ read_buf' = read_buf
      BY <2>3 DEF vars, rigidVars, tableVars, poolVars, memVars, clientVars
    <3>2. loaded => UpdatingOK /\ ArrivalOK /\ CopiedOK
      BY <1>2 DEF ReadInv
    <3>3. UpdatingOK => UpdatingOK'
      BY <3>1 DEF UpdatingOK, InLoop, LoopKey, In
    <3>6. /\ \A k : Arrived(k)' <=> Arrived(k)
          /\ \A w, L : In(w, L)' <=> In(w, L)
      BY <3>1 DEF Arrived, In
    <3>4. ArrivalOK => ArrivalOK'
      BY <3>1, <3>6 DEF ArrivalOK, LoopKey
    <3>5. CopiedOK => CopiedOK'
      BY <3>1 DEF CopiedOK, At
    <3>. QED  BY <2>1, <3>2, <3>3, <3>4, <3>5 DEF ReadInv
  <2>4. ASSUME loaded, NEW w \in Workers, Handler(w) \/ Executor(w) \/ CopyCell(w)
        PROVE  ReadInv'
    <3>1. TypeOK /\ FrameOK /\ RunOK /\ LoadedInv /\ AddressesCurrent
          /\ UpdatingOK /\ ArrivalOK /\ CopiedOK /\ ~Crashed'
      BY <1>2, <2>1, <2>4 DEF CacheInv, LoadInv, LoadedInv, NoCrash, ReadInv
    <3>2. UpdatingOK'
      BY <1>2, <2>4, <3>1, UpdatingOKStep DEF UpdatingOK
    <3>3. ArrivalOK'
      <4>1. \A v \in Workers :
               frame'[v].trx \in Loaders /\ In(v, Committing \cup Updating)' =>
                  \A j \in DOMAIN items'[frame'[v].trx] :
                     j < frame'[v].i => Arrived(items[frame[v].trx][j])'
        BY <1>2, <2>4, <3>1, PassedStep
      <4>2. \A t \in Loaders : \/ t \in queue'
                               \/ \E v \in Workers : frame'[v].trx = t
                               \/ \A k \in WriteSet[t] : Arrived(k)'
        BY <1>2, <2>4, <3>1, LoadArrives
      <4>3. \A k \in Keys : latest_commit'[k] = 0 \/ Arrived(k)' \/
               \E v \in Workers : In(v, {"update"} \cup Updating)' /\ LoopKey(frame[v])' = k
        BY <1>2, <2>4, <3>1, LatestArrives
      <4>. QED  BY <4>1, <4>2, <4>3 DEF ArrivalOK
    <3>4. CopiedOK'
      BY <1>2, <2>4, <3>1, CopiedOKStep DEF CopiedOK
    <3>. QED  BY <3>2, <3>3, <3>4 DEF ReadInv
  <2>. QED  BY <1>2, <2>2, <2>3, <2>4 DEF Next
<1>3. CacheInv /\ LoadInv /\ ReadInv => IInv
  BY DEF IInv
<1>. QED
  BY <1>1, <1>2, <1>3, LoadInvariance, PTL DEF Spec

\* A read ends when the adapter has copied the last cell, if not before.
THEOREM EveryReadEnds ==
    ASSUME LoadsOnce, LoadsLongest
    PROVE  Spec => []ReadsEnd
<1>1. IInv => ReadsEnd
  <2>1. ASSUME IInv, loaded, NEW w \in Workers, At(w, "read"), frame[w].cell > MaxLength + 2
        PROVE  HeaderArrived(w) /\ (read_buf[w].invalid \/ BodyArrived(w))
    <3>1. CacheInv /\ LoadInv /\ ArrivalOK /\ CopiedOK /\ LoadedInv
      BY <2>1 DEF IInv, LoadInv, ReadInv, LoadedInv
    <3>2. PICK t \in Loaders : frame[w].key \in WriteSet[t]
      BY <2>1, <3>1, ReadArrived
    <3>3. Length[t] \in 1..MaxLength /\ MaxLength \in Nat /\ frame[w].cell \in Nat
      BY <3>1, Lengths, LoadersAreTrxs, FrameType DEF Versions, CacheInv
    <3>4. read_buf[w].header \in 1..Length[t]
      BY <2>1, <3>1, <3>2, <3>3 DEF CopiedOK
    <3>5. \A c \in 1..(Length[t] + 1) : read_buf[w].body[c] # Zero
      BY <2>1, <3>1, <3>2, <3>3 DEF CopiedOK
    <3>6. read_buf[w].header # 0 /\ read_buf[w].header + 1 \in 1..(Length[t] + 1)
      BY <3>3, <3>4
    <3>. QED  BY <2>1, <3>5, <3>6 DEF HeaderArrived, BodyArrived
  <2>. QED  BY <2>1 DEF ReadsEnd
<1>. QED  BY <1>1, ReadInvariance, PTL
=============================================================================

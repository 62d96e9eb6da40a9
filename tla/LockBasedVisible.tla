-------------------------- MODULE LockBasedVisible --------------------------
(***************************************************************************)
(* LockBased with long locks implements AtomicVisibility, the same promise *)
(* that RAMP-Fast gives.  A transaction is published when its last PUT has *)
(* been answered and put_all begins to release its locks.                  *)
(***************************************************************************)
EXTENDS LockBasedInv

Stamp == [t \in Trxs |-> IF Putting(t) THEN 0 ELSE trx_ts[t]]

\* Shorter read locks promise no view of several keys.
View == [w \in Workers |->
            IF pc[w] = "returned" /\ read_duration = "LONG"
            THEN [k \in ReadSet[trx[w]] |-> ret[w][k].trx]
            ELSE [k \in {} |-> NoTrx]]

Visibility == INSTANCE AtomicVisibility
                WITH Clients <- Workers, stamp <- Stamp, view <- View

\* Every step of workers and executors, one lock and one key at a time, is a
\* step that publishes a transaction with all its keys, or one that reads
\* published transactions whole, or none that a client could notice.
AtomicallyVisible == Visibility!Spec
=============================================================================

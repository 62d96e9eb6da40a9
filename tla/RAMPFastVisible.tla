-------------------------- MODULE RAMPFastVisible ---------------------------
(***************************************************************************)
(* RAMPFast implements AtomicVisibility.  A transaction is published when  *)
(* the last server has stored its version, before any of them commits it;  *)
(* a view is what get_all has left in ret.                                 *)
(***************************************************************************)
EXTENDS RAMPFast

Stamp == [t \in Trxs |-> IF Prepared(t) THEN trx_ts[t] ELSE 0]

View == [w \in Workers |->
            IF pc[w] = "returned" THEN [k \in ReadSet[trx[w]] |-> ret[w][k].trx]
            ELSE [k \in {} |-> NoTrx]]

Visibility == INSTANCE AtomicVisibility
                WITH Clients <- Workers, stamp <- Stamp, view <- View

\* Every step of workers, executors and messages is a step that publishes one
\* transaction on all its servers at once, or one that reads such transactions
\* whole, or none that a client could notice.
AtomicallyVisible == Visibility!Spec
=============================================================================

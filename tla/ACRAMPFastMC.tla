---------------------------- MODULE ACRAMPFastMC ----------------------------
(***************************************************************************)
(* Instances of ACRAMPFast for TLC, over the keys and transactions of      *)
(* RAMPFastMC.                                                             *)
(***************************************************************************)
EXTENDS RAMPFastMC, ACRAMPFast

Reading(w) == pc[w] \in {"round1", "round2", "returned"}

\* What later steps and the properties can still tell apart: what a handler has
\* put into a local variable is hidden once its function no longer uses it.
LiveVars ==
    <<queue, trx_ts, pc, todo, pending_coms, conn, executor, tableVars, cache, addr_cache,
      [w \in Workers |-> IF pc[w] \in {"pop", "exit"} THEN NoTrx ELSE trx[w]],
      [w \in Workers |-> IF pc[w] \in {"prepare", "commit"} THEN access_coms[w] ELSE {}],
      [w \in Workers |-> IF Reading(w) THEN w \in torn ELSE FALSE],
      [w \in Workers |-> IF Reading(w) /\ (pc[w] = "round1" \/ w \notin torn)
                         THEN ret[w] ELSE <<>>],
      [w \in Workers |-> IF pc[w] = "round2" THEN v_latest[w] ELSE <<>>],
      [w \in Workers |-> IF Reading(w) /\ w \notin torn THEN floor[w] ELSE <<>>]>>
=============================================================================

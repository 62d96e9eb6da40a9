---------------------------- MODULE LockBasedMC -----------------------------
(***************************************************************************)
(* Instances of LockBased for TLC: keys 1 and 3 on one server, 2 on the    *)
(* other, so that the order of the keys alternates between the servers.    *)
(***************************************************************************)
EXTENDS LockBasedVisible, TLC

MCServers == {"s1", "s2"}
MCServerOf == [k \in Keys |-> IF k = 2 THEN "s2" ELSE "s1"]

Writes == [writer1 |-> {1, 2}, writer2 |-> {1, 2}, writer3 |-> {2, 3},
           updater |-> {1, 2}, reader |-> {}]
MCReads == [writer1 |-> {}, writer2 |-> {}, writer3 |-> {},
            updater |-> {1, 2}, reader |-> {1, 2}]

MCWriteSet == [t \in Trxs |-> Writes[t] \cap Keys]
MCReadSet == [t \in Trxs |-> MCReads[t] \cap Keys]

WorkerSymmetry == Permutations(Workers)
=============================================================================

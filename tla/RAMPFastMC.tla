----------------------------- MODULE RAMPFastMC -----------------------------
(***************************************************************************)
(* Instances of RAMPFast for TLC.  Keys x and z are on one server and y is *)
(* on the other.  A writer only writes, a reader only reads, an updater is *)
(* the read-modify-write transaction of YCSB: it reads the keys it writes. *)
(***************************************************************************)
EXTENDS RAMPFast, TLC

MCServers == {"s1", "s2"}
MCServerOf == [k \in Keys |-> IF k = "y" THEN "s2" ELSE "s1"]

Writes == [writerX |-> {"x"}, writer1 |-> {"x", "y"}, writer4 |-> {"x", "z"},
           updater |-> {"x", "y"}, updaterZ |-> {"z"}, reader |-> {}]
Reads == [writerX |-> {}, writer1 |-> {}, writer4 |-> {},
          updater |-> {"x", "y"}, updaterZ |-> {"z"}, reader |-> {"x", "y", "z"}]

MCWriteSet == [t \in Trxs |-> Writes[t] \cap Keys]
MCReadSet == [t \in Trxs |-> Reads[t] \cap Keys]

WorkerSymmetry == Permutations(Workers)
=============================================================================

-------------------------- MODULE CommittedItemsMC --------------------------
(***************************************************************************)
(* Instances of CommittedItems for TLC.  Transaction 1 loads all keys; 2    *)
(* and 3 put keys afterwards, or at once if there is no load.              *)
(***************************************************************************)
EXTENDS CommittedItemsInv, TLC

MCWriteSet == [t \in Trxs |-> IF t = 2 THEN {CHOOSE k \in Keys : TRUE} ELSE Keys]

\* Item(key) is short, the loaded items are long, and so is one put of the two.
MCLength == [t \in Trxs \cup {0} |-> IF t \in {0, 2} THEN 1 ELSE 2]

WorkerSymmetry == Permutations(Workers)
=============================================================================

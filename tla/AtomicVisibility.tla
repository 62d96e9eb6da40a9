-------------------------- MODULE AtomicVisibility --------------------------
(***************************************************************************)
(* What every transaction algorithm of the store promises its clients,     *)
(* whatever messages, rounds or locks it takes.  A transaction is          *)
(* published in one step, with all its keys.  A get returns what some set  *)
(* of published transactions leaves behind if they are applied in the      *)
(* order of their timestamps: all writes of each of them, or none.         *)
(*                                                                         *)
(* The set may lack transactions that have been published: neither         *)
(* serialisability nor freshness is promised.                              *)
(***************************************************************************)
EXTENDS Naturals

CONSTANTS
    Keys, Clients, Trxs, NoTrx,
    Timestamps,    \* the positive timestamps
    WriteSet       \* the keys a transaction writes

VARIABLES
    stamp,         \* the timestamps of the published transactions, else 0
    view           \* what the last get of a client returned, by key

vars == <<stamp, view>>

Published == {t \in Trxs : stamp[t] # 0}

NoView == [k \in {} |-> NoTrx]

Init ==
    /\ stamp = [t \in Trxs |-> 0]
    /\ view = [c \in Clients |-> NoView]

\* All writes of t become visible together.
Publish(t) ==
    /\ stamp[t] = 0
    /\ \E n \in Timestamps :
        /\ n = stamp'[t]
        /\ \A u \in Trxs : stamp[u] # n
        /\ stamp' = [stamp EXCEPT ![t] = n]
    /\ UNCHANGED view

Writers(S, k) == {t \in S : k \in WriteSet[t]}

\* v is the last of the transactions of S that wrote k, or none if none did.
IsLast(v, S, k) ==
    IF Writers(S, k) = {} THEN v = NoTrx
    ELSE v \in Writers(S, k) /\ \A t \in Writers(S, k) : stamp[t] <= stamp[v]

\* A get that returns what the client's last one did is a stuttering step.
Read(c) ==
    /\ view'[c] # view[c]
    /\ \E S \in SUBSET Published, K \in SUBSET Keys :
        \E v \in [K -> Trxs \cup {NoTrx}] :
            /\ \A k \in K : IsLast(v[k], S, k)
            /\ view' = [view EXCEPT ![c] = v]
    /\ UNCHANGED stamp

\* The client goes on to its next transaction.
Leave(c) ==
    /\ view[c] # NoView
    /\ view' = [view EXCEPT ![c] = NoView]
    /\ UNCHANGED stamp

Next ==
    \/ \E t \in Trxs : Publish(t)
    \/ \E c \in Clients : Read(c) \/ Leave(c)

Spec == Init /\ [][Next]_vars
=============================================================================

------------------------------ MODULE Channel -------------------------------
(***************************************************************************)
(* What a connection promises to a handler and its executor, whatever      *)
(* transport is below: at most one message is under way, the executor      *)
(* takes each request once and whole, the handler gets the answer to the   *)
(* request it asked last, and nothing follows CLOSE.  The connections of   *)
(* RAMPFast, ACRAMPFast and LockBased are of this kind.                    *)
(***************************************************************************)
CONSTANTS
    Requests, Answers, Close, NoMsg,
    AnswersTo(_)    \* the answers to a request

VARIABLES
    slot,       \* the message under way, or CLOSE for good
    serving,    \* what the executor works at
    got         \* what the handler got, until it sends the next message

vars == <<slot, serving, got>>

Init == slot = NoMsg /\ serving = NoMsg /\ got = NoMsg

\* com->send or send_close of the handler.
Ask ==
    /\ slot = NoMsg
    /\ slot' \in Requests \cup {Close}
    /\ got' = NoMsg
    /\ UNCHANGED serving

Take ==
    /\ serving = NoMsg
    /\ slot \in Requests \cup {Close}
    /\ serving' = slot
    /\ UNCHANGED <<slot, got>>

Reply ==
    /\ serving \in Requests
    /\ slot' \in AnswersTo(serving)
    /\ serving' = NoMsg
    /\ UNCHANGED got

Accept ==
    /\ slot \in Answers
    /\ slot' = NoMsg
    /\ got' = slot
    /\ UNCHANGED serving

Next == Ask \/ Take \/ Reply \/ Accept

Spec == Init /\ [][Next]_vars
=============================================================================

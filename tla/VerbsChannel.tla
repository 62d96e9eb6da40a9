---------------------------- MODULE VerbsChannel ----------------------------
(***************************************************************************)
(* VerbsSocket implements Channel: buffers, cells, work queues and         *)
(* completions are not visible to those who send and receive.              *)
(***************************************************************************)
EXTENDS VerbsSocketInv

Typed(type) == {m \in Message : m.type = type}

\* The handler waits for an answer; the executor has sent it.
Waiting == pc["client"] \in {"header", "body"}
Answered == sent["server"].n = sent["client"].n

Slot ==
    IF sent["client"] = Close THEN Close
    ELSE IF ~Waiting THEN NoMsg
    ELSE IF Answered THEN sent["server"] ELSE sent["client"]

\* A message that an end has read, or bytes that are no message.
Taken(e) == IF body[e] \subseteq {header[e]} THEN header[e] ELSE Zero

Serving == IF pc["server"] \in {"handle", "closed", "deleted"} THEN Taken("server") ELSE NoMsg

Got == IF pc["client"] = "ready" THEN Taken("client") ELSE NoMsg

AnswersTo(m) == {a \in Typed("ANSWER") : a.n = m.n}

Connection == INSTANCE Channel
                WITH Requests <- Typed("REQUEST"), Answers <- Typed("ANSWER"),
                     slot <- Slot, serving <- Serving, got <- Got

\* The three transports hand each request to the executor once and whole, and
\* the answer to that request, no older one, to the handler; whatever the
\* order in which cells, flags and completions come.
OneAtATime == Connection!Spec
=============================================================================

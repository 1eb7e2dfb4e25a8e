--------------------------- MODULE SqlAgentPromise ---------------------------
(***************************************************************************)
(* SqlAgent keeps ThreadPromise while clients wait for each reply.         *)
(*                                                                         *)
(* With one call at work per thread the checkpoint is the whole state of   *)
(* the thread, so its question and what it has spent are read off the      *)
(* checkpoint. The licence is the approval a resumed call carries into its *)
(* first super-step, until the database has run the statement.             *)
(***************************************************************************)
EXTENDS SqlAgent

\* The calls at work on thread t. A decision is at work once it has resumed.
AtWork(t) ==
    {c \in Call : call[c].pc \notin {"idle", "resume", "done"} /\ call[c].thread = t}

Stage(t) ==
    CASE ckpt[t].next = "none" -> "empty"
      [] ckpt[t].next = "end"  -> "settled"
      [] OTHER                 -> "open"

Worker(t) == IF AtWork(t) = {} THEN None ELSE CHOOSE c \in AtWork(t) : TRUE

Licence(t) ==
    IF \E c \in AtWork(t) : call[c].decision = "approve" /\ call[c].pc # "put"
    THEN call[Worker(t)].grant
    ELSE None

Stages    == [t \in Thread |-> Stage(t)]
Workers   == [t \in Thread |-> Worker(t)]
Questions == [t \in Thread |-> ckpt[t].vals.question]
Spent     == [t \in Thread |-> ckpt[t].vals.generated]
Licences  == [t \in Thread |-> Licence(t)]

Promise == INSTANCE ThreadPromise WITH
    Item <- Pending, Budget <- MaxSqlRetries + 1,
    stage <- Stages, worker <- Workers, question <- Questions,
    spent <- Spent, licence <- Licences, executed <- ran

\* The agent keeps the promise: one question per thread and time within its
\* budget, and a flagged statement runs only as the one that a human approved
\* for the question under way, once.
KeepsPromise == Promise!Spec
=============================================================================

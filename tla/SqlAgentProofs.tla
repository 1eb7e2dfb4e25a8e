--------------------------- MODULE SqlAgentProofs ---------------------------
(***************************************************************************)
(* Proofs about SqlAgent, for every set of threads and calls, every        *)
(* validator, every retry limit and every setting, with or without         *)
(* overlapping calls.                                                      *)
(*                                                                         *)
(* The argument: the node a call or a checkpoint stands at says what its   *)
(* channels may hold (NodeInv), and the decision a call carries says what  *)
(* it may still run (ApprovalInv). Every super-step ends in Advance,       *)
(* Return or Leave, so each of the three gets a lemma, and a node only has *)
(* to show that the channels it hands over fit the node it hands them to.  *)
(* What a question costs in all (TallyInv), progress, the origin of replies*)
(* and the first question of a thread have an argument of their own, each  *)
(* built the same way.                                                     *)
(***************************************************************************)
EXTENDS SqlAgent, TLAPS

BeforeSql == {"guardrails_in", "load_schema", "understand", "generate_sql"}
UntilRows == BeforeSql \cup {"validate", "execute"}
WithRows  == {"analyze", "generate_response", "guardrails_out", "finalize"}

\* What the channels hold when node n is about to run.
NodeInv(n, v) ==
    /\ v.generated <= MaxSqlRetries + 1
    /\ v.generated <= v.attempts
    /\ n \in Node => v.question \in Call
    /\ n \in BeforeSql => v.generated <= MaxSqlRetries
    /\ n \in UntilRows => ~v.approved /\ v.rows = None
    /\ n = "validate" => v.sql \in Output
    /\ n = "execute" => v.sql \in Statement
    /\ n \in WithRows => v.sql \in Statement /\ v.rows = v.sql
    /\ n = "fail" => v.blocked \/ v.lastError # "none"

\* The node a call stands at: the executor's parts are one node.
NodeOf(pc) == IF pc \in {"estimate", "run", "put"} THEN "execute" ELSE pc

\* What a call may still run, and what it has run.
ApprovalInv(c) ==
    /\ call[c].pc = "idle" =>
         call[c].decision = "none" /\ call[c].grant = None /\ ran[c] = <<>>
    /\ call[c].decision = "approve" => call[c].grant # None
    /\ call[c].decision = "approve" /\ call[c].pc # "put" => ran[c] = <<>>
    /\ call[c].pc = "run" /\ call[c].flagged => call[c].decision = "approve"
    /\ Len(ran[c]) <= IF call[c].grant = None THEN 0 ELSE 1

\* What a call that has returned hands back, and where an active one runs.
CallInv(c) ==
    /\ Active(c) => call[c].thread \in Thread
    /\ call[c].pc = "resume" => ckpt[call[c].thread].next # "none"
    /\ call[c].pc # "done" => call[c].outcome = "none"

\* The types of the variables of the system, without the two that only count.
StateOK ==
    /\ ckpt \in [Thread -> Checkpoint]
    /\ call \in [Call -> Run]
    /\ cache \in SUBSET Statement
    /\ ran \in [Call -> Seq(Pending)]

IInv ==
    /\ StateOK
    /\ \A t \in Thread : NodeInv(ckpt[t].next, ckpt[t].vals)
    /\ \A c \in Call : /\ NodeInv(NodeOf(call[c].pc), call[c].vals)
                       /\ ApprovalInv(c)
                       /\ CallInv(c)
                       /\ Coherent(c)
-----------------------------------------------------------------------------
(***************************************************************************)
(* The three ways a super-step can end.                                    *)
(***************************************************************************)

\* The parts of a running call: its node, its thread and its channels.
LEMMA Running ==
  ASSUME IInv, NEW c \in Call, call[c].pc \in Node \cup {"estimate", "run", "put"}
  PROVE  /\ call[c].thread \in Thread
         /\ call[c].vals \in Channels
         /\ NodeInv(NodeOf(call[c].pc), call[c].vals)
         /\ ApprovalInv(c)
         /\ call[c].outcome = "none"
  BY DEF IInv, StateOK, Run, CallInv, Active, Node

\* A call that a step leaves alone keeps its part of the invariant.
LEMMA OtherCall ==
  ASSUME IInv, NEW d \in Call, call'[d] = call[d], ran'[d] = ran[d],
         \A t \in Thread : ckpt[t].next # "none" => ckpt'[t].next # "none"
  PROVE  /\ NodeInv(NodeOf(call[d].pc), call[d].vals)'
         /\ ApprovalInv(d)'
         /\ CallInv(d)'
         /\ Coherent(d)'
<1>1. NodeInv(NodeOf(call[d].pc), call[d].vals)' /\ ApprovalInv(d)' /\ Coherent(d)'
  BY DEF IInv, NodeInv, NodeOf, ApprovalInv, Coherent
<1>2. CallInv(d)'
  BY DEF IInv, CallInv, Active
<1>. QED
  BY <1>1, <1>2

\* Handing channels that fit node n to node n keeps the invariant.
LEMMA AdvanceInv ==
  ASSUME IInv, NEW c \in Call, NEW n \in Node, NEW v \in Channels,
         call[c].pc \in Node \cup {"estimate", "run", "put"},
         NodeInv(n, v), Advance(c, v, n),
         cache' \in SUBSET Statement,
         ran' \in [Call -> Seq(Pending)],
         \A d \in Call \ {c} : ran'[d] = ran[d],
         Len(ran'[c]) <= IF call[c].grant = None THEN 0 ELSE 1
  PROVE  IInv'
<1>1. call[c].thread \in Thread /\ call[c].outcome = "none"
  BY Running
<1>2. /\ call' = [call EXCEPT ![c] = [call[c] EXCEPT !.pc = n, !.vals = v, !.decision = "none",
                                                   !.flagged = FALSE]]
      /\ ckpt' = [ckpt EXCEPT ![call[c].thread] = [next |-> n, vals |-> v]]
  BY DEF Advance
<1>3. StateOK'
  <2>1. call[c] \in Run
    BY DEF IInv, StateOK
  <2>2. [call[c] EXCEPT !.pc = n, !.vals = v, !.decision = "none",
                                                   !.flagged = FALSE] \in Run
    BY <2>1 DEF Run, Decision
  <2>3. [next |-> n, vals |-> v] \in Checkpoint
    BY DEF Checkpoint
  <2>. QED
    BY <1>1, <1>2, <2>2, <2>3 DEF IInv, StateOK
<1>4. \A t \in Thread : NodeInv(ckpt[t].next, ckpt[t].vals)'
  BY <1>1, <1>2 DEF IInv, StateOK, NodeInv
<1>5. ASSUME NEW d \in Call
      PROVE  /\ NodeInv(NodeOf(call[d].pc), call[d].vals)'
             /\ ApprovalInv(d)'
             /\ CallInv(d)'
             /\ Coherent(d)'
  <2>1. CASE d = c
    <3>1. call'[c] = [call[c] EXCEPT !.pc = n, !.vals = v, !.decision = "none",
                                                   !.flagged = FALSE]
      BY <1>2 DEF IInv, StateOK
    <3>2. NodeOf(n) = n
      BY DEF Node, NodeOf
    <3>3. /\ call'[c].pc = n /\ call'[c].vals = v /\ call'[c].decision = "none"
          /\ call'[c].thread = call[c].thread /\ call'[c].grant = call[c].grant
          /\ call'[c].outcome = "none"
      BY <1>1, <3>1 DEF IInv, StateOK, Run
    <3>4. NodeInv(NodeOf(call[d].pc), call[d].vals)'
      BY <2>1, <3>2, <3>3 DEF NodeInv, NodeOf
    <3>5. ApprovalInv(d)'
      BY <2>1, <3>3 DEF ApprovalInv, Node
    <3>6. CallInv(d)' /\ Coherent(d)'
      BY <1>1, <2>1, <3>3 DEF CallInv, Coherent, Active, Node
    <3>. QED
      BY <3>4, <3>5, <3>6
  <2>2. CASE d # c
    <3>1. call'[d] = call[d] /\ ran'[d] = ran[d]
      BY <1>2, <2>2 DEF IInv, StateOK
    <3>2. \A u \in Thread : ckpt[u].next # "none" => ckpt'[u].next # "none"
      BY <1>1, <1>2 DEF IInv, StateOK, Node
    <3>. QED
      BY <3>1, <3>2, OtherCall
  <2>. QED
    BY <2>1, <2>2
<1>. QED
  BY <1>3, <1>4, <1>5 DEF IInv

\* Returning a result that fits the question keeps the invariant.
LEMMA ReturnInv ==
  ASSUME IInv, NEW c \in Call, NEW v \in Channels, NEW how \in Outcome,
         call[c].pc \in Node \cup {"estimate", "run", "put"},
         NodeInv("end", v), Return(c, v, how),
         how \in {"answered", "failed"} =>
           /\ v.result # None
           /\ v.result.question = v.question
           /\ how = "answered" => /\ v.result.error = "none"
                                  /\ v.result.rows \in Statement
                                  /\ v.result.rows = v.result.sql
           /\ how = "failed" => v.result.error # "none",
         UNCHANGED <<cache, ran>>
  PROVE  IInv'
<1> DEFINE r == [call[c] EXCEPT !.pc = "done", !.vals = v, !.decision = "none",
                                !.outcome = how, !.reply = v.result]
<1>1. call[c].thread \in Thread /\ call[c] \in Run /\ r \in Run
  <2>1. call[c].thread \in Thread /\ call[c] \in Run
    BY Running DEF IInv, StateOK
  <2>2. v.result \in Result \cup {None}
    BY DEF Channels
  <2>. QED
    BY <2>1, <2>2 DEF Run, Decision
<1>2. /\ call' = [call EXCEPT ![c] = r]
      /\ ckpt' = [ckpt EXCEPT ![call[c].thread] = [next |-> "end", vals |-> v]]
  BY DEF Return
<1>3. StateOK'
  <2>1. [next |-> "end", vals |-> v] \in Checkpoint
    BY DEF Checkpoint
  <2>. QED
    BY <1>1, <1>2, <2>1 DEF IInv, StateOK
<1>4. \A t \in Thread : NodeInv(ckpt[t].next, ckpt[t].vals)'
  BY <1>1, <1>2 DEF IInv, StateOK, NodeInv
<1>5. ASSUME NEW d \in Call
      PROVE  /\ NodeInv(NodeOf(call[d].pc), call[d].vals)'
             /\ ApprovalInv(d)'
             /\ CallInv(d)'
             /\ Coherent(d)'
  <2>1. CASE d = c
    <3>1. call'[c] = r
      BY <1>2 DEF IInv, StateOK
    <3>2. /\ r.pc = "done" /\ r.vals = v /\ r.decision = "none" /\ r.outcome = how
          /\ r.reply = v.result /\ r.grant = call[c].grant
      BY <1>1 DEF Run
    <3>3. NodeInv("done", v)
      BY DEF NodeInv, Node, BeforeSql, UntilRows, WithRows
    <3>4. ApprovalInv(d)'
      BY <2>1, <3>1, <3>2 DEF IInv, ApprovalInv
    <3>5. CallInv(d)' /\ Coherent(d)'
      BY <2>1, <3>1, <3>2 DEF CallInv, Coherent, Active
    <3>. QED
      BY <2>1, <3>1, <3>2, <3>3, <3>4, <3>5 DEF NodeOf
  <2>2. CASE d # c
    <3>1. call'[d] = call[d] /\ ran'[d] = ran[d]
      BY <1>2, <2>2 DEF IInv, StateOK
    <3>2. \A u \in Thread : ckpt[u].next # "none" => ckpt'[u].next # "none"
      BY <1>1, <1>2 DEF IInv, StateOK, Node
    <3>. QED
      BY <3>1, <3>2, OtherCall
  <2>. QED
    BY <2>1, <2>2
<1>. QED
  BY <1>3, <1>4, <1>5 DEF IInv

\* Ending a call without a result of its own keeps the invariant.
LEMMA LeaveInv ==
  ASSUME IInv, NEW c \in Call, NEW how \in Outcome \ {"answered", "failed"},
         NEW r \in Result \cup {None},
         call[c].pc # "idle", Leave(c, how, r), UNCHANGED <<cache, ran>>
  PROVE  IInv'
<1> DEFINE e == [call[c] EXCEPT !.pc = "done", !.decision = "none",
                                !.outcome = how, !.reply = r]
<1>1. call[c] \in Run /\ e \in Run
  BY DEF IInv, StateOK, Run, Decision
<1>2. call' = [call EXCEPT ![c] = e] /\ ckpt' = ckpt
  BY DEF Leave
<1>3. StateOK'
  BY <1>1, <1>2 DEF IInv, StateOK
<1>4. \A t \in Thread : NodeInv(ckpt[t].next, ckpt[t].vals)'
  BY <1>2 DEF IInv, NodeInv
<1>5. ASSUME NEW d \in Call
      PROVE  /\ NodeInv(NodeOf(call[d].pc), call[d].vals)'
             /\ ApprovalInv(d)'
             /\ CallInv(d)'
             /\ Coherent(d)'
  <2>1. CASE d = c
    <3>1. call'[c] = e
      BY <1>2 DEF IInv, StateOK
    <3>2. /\ e.pc = "done" /\ e.vals = call[c].vals /\ e.decision = "none"
          /\ e.outcome = how /\ e.grant = call[c].grant
      BY <1>1 DEF Run
    <3>3. NodeInv("done", call[c].vals)
      BY DEF IInv, NodeInv, Node, BeforeSql, UntilRows, WithRows
    <3>4. ApprovalInv(d)'
      BY <2>1, <3>1, <3>2 DEF IInv, ApprovalInv
    <3>5. CallInv(d)' /\ Coherent(d)'
      BY <2>1, <3>1, <3>2 DEF CallInv, Coherent, Active
    <3>. QED
      BY <2>1, <3>1, <3>2, <3>3, <3>4, <3>5 DEF NodeOf
  <2>2. CASE d # c
    <3>1. call'[d] = call[d] /\ ran'[d] = ran[d]
      BY <1>2, <2>2 DEF IInv, StateOK
    <3>2. \A u \in Thread : ckpt[u].next # "none" => ckpt'[u].next # "none"
      BY <1>1, <1>2 DEF IInv, StateOK, Node
    <3>. QED
      BY <3>1, <3>2, OtherCall
  <2>. QED
    BY <2>1, <2>2
<1>. QED
  BY <1>3, <1>4, <1>5 DEF IInv

LEMMA BlankFits == Blank \in Channels /\ NodeInv("none", Blank) /\ NodeInv("idle", Blank)
  BY RetriesAssumption
     DEF Blank, Channels, Error, NodeInv, Node, BeforeSql, UntilRows, WithRows

\* Breaking a call off keeps the invariant.
LEMMA BreakInv ==
  ASSUME IInv, NEW c \in Call, NEW how \in Outcome \ {"answered", "failed"},
         call[c].pc # "idle", Break(c, how),
         cache' \in SUBSET Statement, ran' = ran
  PROVE  IInv'
<1> DEFINE e == [call[c] EXCEPT !.pc = "done", !.vals = Blank, !.decision = "none",
                                !.flagged = FALSE, !.outcome = how]
<1>1. call[c] \in Run /\ e \in Run
  BY BlankFits DEF IInv, StateOK, Run, Decision
<1>2. call' = [call EXCEPT ![c] = e] /\ ckpt' = ckpt
  BY DEF Break
<1>3. StateOK'
  BY <1>1, <1>2 DEF IInv, StateOK
<1>4. \A t \in Thread : NodeInv(ckpt[t].next, ckpt[t].vals)'
  BY <1>2 DEF IInv, NodeInv
<1>5. ASSUME NEW d \in Call
      PROVE  /\ NodeInv(NodeOf(call[d].pc), call[d].vals)'
             /\ ApprovalInv(d)'
             /\ CallInv(d)'
             /\ Coherent(d)'
  <2>1. CASE d = c
    <3>1. call'[c] = e
      BY <1>2 DEF IInv, StateOK
    <3>2. /\ e.pc = "done" /\ e.vals = Blank /\ e.decision = "none"
          /\ e.outcome = how /\ e.grant = call[c].grant
      BY <1>1 DEF Run
    <3>3. NodeInv("done", Blank)
      BY BlankFits DEF NodeInv, Node, BeforeSql, UntilRows, WithRows
    <3>4. ApprovalInv(d)'
      BY <2>1, <3>1, <3>2 DEF IInv, ApprovalInv
    <3>5. CallInv(d)' /\ Coherent(d)'
      BY <2>1, <3>1, <3>2 DEF CallInv, Coherent, Active
    <3>. QED
      BY <2>1, <3>1, <3>2, <3>3, <3>4, <3>5 DEF NodeOf
  <2>2. CASE d # c
    <3>1. call'[d] = call[d] /\ ran'[d] = ran[d]
      BY <1>2, <2>2 DEF IInv, StateOK
    <3>2. \A u \in Thread : ckpt[u].next # "none" => ckpt'[u].next # "none"
      BY <1>2
    <3>. QED
      BY <3>1, <3>2, OtherCall
  <2>. QED
    BY <2>1, <2>2
<1>. QED
  BY <1>3, <1>4, <1>5 DEF IInv

-----------------------------------------------------------------------------
(***************************************************************************)
(* The initial state and what clients do.                                  *)
(***************************************************************************)

LEMMA InitInv == Init => IInv
<1> SUFFICES ASSUME Init PROVE IInv
  OBVIOUS
<1>1. StateOK
  BY BlankFits DEF Init, StateOK, Checkpoint, Run, Decision, Outcome
<1>2. \A t \in Thread : NodeInv(ckpt[t].next, ckpt[t].vals)
  BY BlankFits DEF Init
<1>3. ASSUME NEW c \in Call
      PROVE  /\ NodeInv(NodeOf(call[c].pc), call[c].vals)
             /\ ApprovalInv(c) /\ CallInv(c) /\ Coherent(c)
  BY BlankFits DEF Init, NodeOf, ApprovalInv, CallInv, Coherent, Active
<1>. QED
  BY <1>1, <1>2, <1>3 DEF IInv

\* A new question finds no approval and no rows, whatever its thread holds.
LEMMA StartFits ==
  ASSUME NEW v \in Channels, NEW q \in Call
  PROVE  /\ StartQuestion(v, q) \in Channels
         /\ NodeInv("guardrails_in", StartQuestion(v, q))
<1>1. StartQuestion(v, q) \in Channels
  BY DEF StartQuestion, Channels
<1>2. /\ StartQuestion(v, q).question = q /\ StartQuestion(v, q).generated = 0
      /\ ~StartQuestion(v, q).approved /\ StartQuestion(v, q).rows = None
      /\ StartQuestion(v, q).attempts = v.attempts /\ v.attempts \in Nat
  BY DEF StartQuestion, Channels
<1>. QED
  BY <1>1, <1>2, RetriesAssumption DEF NodeInv, WithRows

LEMMA AskInv ==
  ASSUME IInv, NEW c \in Call, NEW t \in Thread, Ask(c, t)
  PROVE  IInv'
<1> DEFINE v == StartQuestion(ckpt[t].vals, c)
           r == [call[c] EXCEPT !.pc = "guardrails_in", !.thread = t, !.vals = v]
<1>0. /\ call[c].pc = "idle" /\ UNCHANGED <<cache, ran>>
      /\ v \in Channels /\ NodeInv("guardrails_in", v)
  BY StartFits DEF Ask, IInv, StateOK, Checkpoint
<1>1. call[c] \in Run /\ r \in Run /\ t \in Thread
  <2>1. call[c] \in Run
    BY DEF IInv, StateOK
  <2>. QED
    BY <1>0, <2>1 DEF Run, Node
<1>2. /\ call' = [call EXCEPT ![c] = r]
      /\ ckpt' = [ckpt EXCEPT ![t] = [next |-> "guardrails_in", vals |-> v]]
      /\ ran' = ran
  BY <1>0 DEF Ask
<1>3. StateOK'
  <2>1. [next |-> "guardrails_in", vals |-> v] \in Checkpoint
    BY <1>0 DEF Checkpoint, Node
  <2>. QED
    BY <1>0, <1>1, <1>2, <2>1 DEF IInv, StateOK
<1>4. \A u \in Thread : NodeInv(ckpt[u].next, ckpt[u].vals)'
  BY <1>0, <1>2 DEF IInv, StateOK, NodeInv
<1>5. ASSUME NEW d \in Call
      PROVE  /\ NodeInv(NodeOf(call[d].pc), call[d].vals)'
             /\ ApprovalInv(d)'
             /\ CallInv(d)'
             /\ Coherent(d)'
  <2>1. CASE d = c
    <3>1. call'[c] = r
      BY <1>2 DEF IInv, StateOK
    <3>2. /\ r.pc = "guardrails_in" /\ r.vals = v /\ r.decision = call[c].decision
          /\ r.outcome = call[c].outcome /\ r.thread = t /\ r.grant = call[c].grant
      BY <1>1 DEF Run
    <3>3. ApprovalInv(d)'
      BY <1>0, <1>2, <2>1, <3>1, <3>2 DEF IInv, ApprovalInv
    <3>4. CallInv(d)' /\ Coherent(d)'
      BY <1>0, <1>1, <2>1, <3>1, <3>2 DEF IInv, CallInv, Coherent, Active
    <3>. QED
      BY <1>0, <2>1, <3>1, <3>2, <3>3, <3>4 DEF NodeOf
  <2>2. CASE d # c
    <3>1. call'[d] = call[d] /\ ran'[d] = ran[d]
      BY <1>2, <2>2 DEF IInv, StateOK
    <3>2. \A u \in Thread : ckpt[u].next # "none" => ckpt'[u].next # "none"
      BY <1>1, <1>2 DEF IInv, StateOK, Node
    <3>. QED
      BY <3>1, <3>2, OtherCall
  <2>. QED
    BY <2>1, <2>2
<1>. QED
  BY <1>3, <1>4, <1>5 DEF IInv

LEMMA DecideInv ==
  ASSUME IInv, NEW c \in Call, NEW t \in Thread,
         NEW a \in {"approve", "decline"}, Decide(c, t, a)
  PROVE  IInv'
<1> DEFINE g == IF a = "approve"
                THEN [question |-> ckpt[t].vals.question, sql |-> ckpt[t].vals.sql]
                ELSE None
           r == [call[c] EXCEPT !.pc = "resume", !.thread = t, !.decision = a, !.grant = g]
<1>0. /\ call[c].pc = "idle" /\ ckpt[t].next # "none"
      /\ g \in Pending \cup {None}
      /\ a = "approve" => g # None
  BY NoneRecordAssumption DEF Decide, IInv, StateOK, Checkpoint, Channels, Pending
<1>1. call[c] \in Run /\ r \in Run /\ t \in Thread
  <2>1. call[c] \in Run
    BY DEF IInv, StateOK
  <2>. QED
    BY <1>0, <2>1 DEF Run, Decision
<1>2. call' = [call EXCEPT ![c] = r] /\ ckpt' = ckpt /\ cache' = cache /\ ran' = ran
  BY DEF Decide
<1>3. StateOK'
  BY <1>1, <1>2 DEF IInv, StateOK
<1>4. \A u \in Thread : NodeInv(ckpt[u].next, ckpt[u].vals)'
  BY <1>2 DEF IInv, NodeInv
<1>5. ASSUME NEW d \in Call
      PROVE  /\ NodeInv(NodeOf(call[d].pc), call[d].vals)'
             /\ ApprovalInv(d)'
             /\ CallInv(d)'
             /\ Coherent(d)'
  <2>1. CASE d = c
    <3>1. call'[c] = r
      BY <1>2 DEF IInv, StateOK
    <3>2. /\ r.pc = "resume" /\ r.vals = call[c].vals /\ r.decision = a
          /\ r.outcome = call[c].outcome /\ r.thread = t /\ r.grant = g
      BY <1>1 DEF Run
    <3>3. NodeInv("resume", call[c].vals)
      BY DEF IInv, NodeInv, Node, BeforeSql, UntilRows, WithRows
    <3>4. ran'[c] = <<>> /\ Len(<<>>) = 0
      BY <1>0, <1>2 DEF IInv, ApprovalInv
    <3>5. ApprovalInv(d)'
      <4>1. /\ call'[c].pc = "resume" /\ call'[c].decision = a /\ call'[c].grant = g
            /\ Len(ran'[c]) = 0
        BY <3>1, <3>2, <3>4
      <4>2. Len(ran'[c]) <= IF call'[c].grant = None THEN 0 ELSE 1
        BY <4>1
      <4>. QED
        BY <1>0, <2>1, <3>4, <4>1, <4>2 DEF ApprovalInv
    <3>6. CallInv(d)' /\ Coherent(d)'
      BY <1>0, <1>1, <1>2, <2>1, <3>1, <3>2 DEF IInv, CallInv, Coherent, Active
    <3>. QED
      BY <2>1, <3>1, <3>2, <3>3, <3>5, <3>6 DEF NodeOf
  <2>2. CASE d # c
    <3>1. call'[d] = call[d] /\ ran'[d] = ran[d]
      BY <1>2, <2>2 DEF IInv, StateOK
    <3>2. \A u \in Thread : ckpt[u].next # "none" => ckpt'[u].next # "none"
      BY <1>1, <1>2 DEF IInv, StateOK, Node
    <3>. QED
      BY <3>1, <3>2, OtherCall
  <2>. QED
    BY <2>1, <2>2
<1>. QED
  BY <1>3, <1>4, <1>5 DEF IInv

LEMMA ResumeInv ==
  ASSUME IInv, NEW c \in Call, Resume(c)
  PROVE  IInv'
<1> DEFINE k == ckpt[call[c].thread]
           r == [call[c] EXCEPT !.pc = k.next, !.vals = k.vals]
<1>0. /\ call[c].pc = "resume" /\ call[c] \in Run /\ UNCHANGED <<cache, ran>>
      /\ call[c].thread \in Thread /\ call[c].outcome = "none"
      /\ k \in Checkpoint /\ k.next # "none" /\ NodeInv(k.next, k.vals)
  BY DEF Resume, IInv, StateOK, CallInv, Active
<1>1. CASE k.next = "end"
  <2>1. Leave(c, "replayed", k.vals.result)
    BY <1>1 DEF Resume
  <2>2. k.vals.result \in Result \cup {None}
    BY <1>0 DEF Checkpoint, Channels
  <2>. QED
    BY <1>0, <2>1, <2>2, LeaveInv DEF Outcome
<1>2. CASE k.next # "end"
  <2>1. call' = [call EXCEPT ![c] = r] /\ ckpt' = ckpt /\ cache' = cache /\ ran' = ran
    BY <1>0, <1>2 DEF Resume
  <2>2. k.next \in Node /\ k.vals \in Channels
    BY <1>0, <1>2 DEF Checkpoint
  <2>3. r \in Run
    BY <1>0, <2>2 DEF Run
  <2>4. StateOK'
    BY <2>1, <2>3 DEF IInv, StateOK
  <2>5. \A u \in Thread : NodeInv(ckpt[u].next, ckpt[u].vals)'
    BY <2>1 DEF IInv, NodeInv
  <2>6. ASSUME NEW d \in Call
        PROVE  /\ NodeInv(NodeOf(call[d].pc), call[d].vals)'
               /\ ApprovalInv(d)'
               /\ CallInv(d)'
               /\ Coherent(d)'
    <3>1. CASE d = c
      <4>1. call'[c] = r
        BY <2>1 DEF IInv, StateOK
      <4>2. /\ r.pc = k.next /\ r.vals = k.vals /\ r.decision = call[c].decision
            /\ r.outcome = "none" /\ r.thread = call[c].thread /\ r.grant = call[c].grant
        BY <1>0 DEF Run
      <4>3. NodeOf(k.next) = k.next
        BY <2>2 DEF NodeOf, Node
      <4>4. ApprovalInv(d)'
        <5>1. ApprovalInv(c) /\ ran'[c] = ran[c]
          BY <2>1 DEF IInv
        <5>. QED
          BY <1>0, <2>2, <3>1, <4>1, <4>2, <5>1 DEF ApprovalInv, Node
      <4>5. CallInv(d)' /\ Coherent(d)'
        BY <1>0, <2>1, <2>2, <3>1, <4>1, <4>2 DEF CallInv, Coherent, Active, Node
      <4>. QED
        BY <1>0, <3>1, <4>1, <4>2, <4>3, <4>4, <4>5
    <3>2. CASE d # c
      <4>1. call'[d] = call[d] /\ ran'[d] = ran[d]
        BY <2>1, <3>2 DEF IInv, StateOK
      <4>. QED
        BY <2>1, <4>1, OtherCall
    <3>. QED
      BY <3>1, <3>2
  <2>. QED
    BY <2>4, <2>5, <2>6 DEF IInv
<1>. QED
  BY <1>1, <1>2

-----------------------------------------------------------------------------
(***************************************************************************)
(* The nodes that run no flagged statement.                                *)
(***************************************************************************)

\* AdvanceInv for a step that leaves the history of runs alone.
LEMMA QuietAdvanceInv ==
  ASSUME IInv, NEW c \in Call, NEW n \in Node, NEW v \in Channels,
         call[c].pc \in Node \cup {"estimate", "run", "put"},
         NodeInv(n, v), Advance(c, v, n),
         cache' \in SUBSET Statement, ran' = ran
  PROVE  IInv'
<1>1. ran \in [Call -> Seq(Pending)]
  BY DEF IInv, StateOK
<1>2. Len(ran[c]) <= IF call[c].grant = None THEN 0 ELSE 1
  BY DEF IInv, ApprovalInv
<1>. QED
  BY <1>1, <1>2, AdvanceInv

LEMMA GuardrailsInInv ==
  ASSUME IInv, NEW c \in Call, GuardrailsIn(c)
  PROVE  IInv'
<1>1. /\ call[c].pc = "guardrails_in" /\ call[c].vals \in Channels
      /\ NodeInv("guardrails_in", call[c].vals)
      /\ cache' \in SUBSET Statement /\ ran' = ran
  BY Running DEF GuardrailsIn, Node, NodeOf, IInv, StateOK
<1>2. PICK b \in BOOLEAN :
        Advance(c, [call[c].vals EXCEPT !.blocked = b],
                RouteAfterInputGuardrail([call[c].vals EXCEPT !.blocked = b]))
  BY DEF GuardrailsIn
<1> DEFINE v == [call[c].vals EXCEPT !.blocked = b]
<1>3. v \in Channels /\ v.blocked = b
  BY <1>1 DEF Channels
<1>4. RouteAfterInputGuardrail(v) \in Node
  BY DEF RouteAfterInputGuardrail, Node
<1>5. NodeInv(RouteAfterInputGuardrail(v), v)
  BY <1>1, <1>3 DEF RouteAfterInputGuardrail, NodeInv, Node, BeforeSql, UntilRows, WithRows, Channels
<1>. QED
  BY <1>1, <1>2, <1>3, <1>4, <1>5, QuietAdvanceInv DEF Node

LEMMA LoadSchemaInv ==
  ASSUME IInv, NEW c \in Call, LoadSchema(c)
  PROVE  IInv'
<1>1. /\ call[c].pc = "load_schema" /\ call[c].vals \in Channels
      /\ NodeInv("load_schema", call[c].vals)
      /\ cache' \in SUBSET Statement /\ ran' = ran
  BY Running DEF LoadSchema, Node, NodeOf, IInv, StateOK
<1>2. NodeInv("understand", call[c].vals)
  BY <1>1 DEF NodeInv, Node, BeforeSql, UntilRows, WithRows
<1>. QED
  BY <1>1, <1>2, QuietAdvanceInv DEF LoadSchema, Node

LEMMA UnderstandInv ==
  ASSUME IInv, NEW c \in Call, Understand(c)
  PROVE  IInv'
<1>1. /\ call[c].pc = "understand" /\ call[c].vals \in Channels
      /\ NodeInv("understand", call[c].vals)
      /\ cache' \in SUBSET Statement /\ ran' = ran
  BY Running DEF Understand, Node, NodeOf, IInv, StateOK
<1>2. PICK f \in BOOLEAN : Advance(c, [call[c].vals EXCEPT !.planFlag = f], "generate_sql")
  BY DEF Understand
<1> DEFINE v == [call[c].vals EXCEPT !.planFlag = f]
<1>3. v \in Channels
  BY <1>1 DEF Channels
<1>4. NodeInv("generate_sql", v)
  BY <1>1 DEF NodeInv, Node, BeforeSql, UntilRows, WithRows, Channels
<1>. QED
  BY <1>1, <1>2, <1>3, <1>4, QuietAdvanceInv DEF Node

LEMMA GenerateSqlInv ==
  ASSUME IInv, NEW c \in Call, GenerateSql(c)
  PROVE  IInv'
<1>1. /\ call[c].pc = "generate_sql" /\ call[c].vals \in Channels
      /\ NodeInv("generate_sql", call[c].vals)
      /\ cache' \in SUBSET Statement /\ ran' = ran
  BY Running DEF GenerateSql, Node, NodeOf, IInv, StateOK
<1>2. PICK o \in Output : Advance(c, Generated(call[c].vals, o), "validate")
  BY DEF GenerateSql
<1> DEFINE v == Generated(call[c].vals, o)
<1>3. v \in Channels
  <2>1. call[c].vals.generated \in Nat /\ call[c].vals.attempts + 1 \in Nat
    BY <1>1 DEF Channels
  <2>2. CountUpTo(call[c].vals.generated, MaxSqlRetries + 2) \in Nat
    BY <2>1 DEF CountUpTo
  <2>. QED
    BY <1>1, <2>1, <2>2 DEF Channels, Generated
<1>4. /\ v.sql = o /\ v.generated = call[c].vals.generated + 1
      /\ v.attempts = call[c].vals.attempts + 1
      /\ v.question = call[c].vals.question /\ v.approved = call[c].vals.approved
      /\ v.rows = call[c].vals.rows
  BY <1>1, RetriesAssumption DEF Channels, Generated, CountUpTo, NodeInv, BeforeSql
<1>5. NodeInv("validate", v)
  BY <1>1, <1>4, RetriesAssumption
     DEF NodeInv, Node, BeforeSql, UntilRows, WithRows, Channels
<1>. QED
  BY <1>1, <1>2, <1>3, <1>5, QuietAdvanceInv DEF Node

LEMMA ValidateInv ==
  ASSUME IInv, NEW c \in Call, Validate(c)
  PROVE  IInv'
<1> DEFINE u == call[c].vals
           v == Validated(u)
<1>1. /\ call[c].pc = "validate" /\ u \in Channels /\ NodeInv("validate", u)
      /\ cache' \in SUBSET Statement /\ ran' = ran
  BY Running DEF Validate, Node, NodeOf, IInv, StateOK
<1>2. u.sql \in Output /\ Extract[u.sql] \in Statement \cup {None}
  BY <1>1, ExtractAssumption DEF NodeInv
<1>3. v \in Channels
  BY <1>1, <1>2 DEF Channels, Validated, Error
<1>4. /\ v.generated = u.generated /\ v.attempts = u.attempts /\ v.question = u.question
      /\ v.approved = u.approved /\ v.rows = u.rows
      /\ v.valid => v.sql \in Statement
      /\ ~v.valid => v.lastError = "validation"
  BY <1>1, <1>2 DEF Channels, Validated
<1>5. RouteAfterValidate(v) \in Node /\ NodeInv(RouteAfterValidate(v), v)
  <2>1. CASE v.valid
    BY <1>1, <1>4, <2>1 DEF RouteAfterValidate, NodeInv, Node, BeforeSql, UntilRows, WithRows
  <2>2. CASE ~v.valid /\ MayRetry(v)
    BY <1>1, <1>3, <1>4, <2>2, RetriesAssumption
       DEF RouteAfterValidate, MayRetry, NodeInv, Node, BeforeSql, UntilRows, WithRows, Channels
  <2>3. CASE ~v.valid /\ ~MayRetry(v)
    BY <1>1, <1>4, <2>3 DEF RouteAfterValidate, NodeInv, Node, BeforeSql, UntilRows, WithRows
  <2>. QED
    BY <2>1, <2>2, <2>3
<1>. QED
  BY <1>1, <1>3, <1>5, QuietAdvanceInv DEF Validate, Node

-----------------------------------------------------------------------------
(***************************************************************************)
(* The executor node. Its parts leave channels and checkpoint alone until  *)
(* the last one, so the invariant turns on what the call may run.          *)
(***************************************************************************)

\* Moving on within the executor node.
LEMMA MoveInv ==
  ASSUME IInv, NEW c \in Call, NEW p \in {"estimate", "run", "put"}, NEW f \in BOOLEAN,
         call[c].pc \in {"execute", "estimate", "run"},
         call' = [call EXCEPT ![c] = [call[c] EXCEPT !.pc = p, !.flagged = f]],
         ckpt' = ckpt, cache' = cache,
         ran' \in [Call -> Seq(Pending)],
         \A d \in Call \ {c} : ran'[d] = ran[d],
         Len(ran'[c]) <= IF call[c].grant = None THEN 0 ELSE 1,
         p # "put" => ran'[c] = ran[c],
         p = "run" /\ f => call[c].decision = "approve"
  PROVE  IInv'
<1> DEFINE r == [call[c] EXCEPT !.pc = p, !.flagged = f]
<1>1. /\ call[c] \in Run /\ r \in Run /\ call[c].thread \in Thread
      /\ call[c].outcome = "none" /\ NodeInv("execute", call[c].vals)
  BY Running DEF IInv, StateOK, Run, Node, NodeOf
<1>2. StateOK'
  BY <1>1 DEF IInv, StateOK
<1>3. \A u \in Thread : NodeInv(ckpt[u].next, ckpt[u].vals)'
  BY DEF IInv, NodeInv
<1>4. ASSUME NEW d \in Call
      PROVE  /\ NodeInv(NodeOf(call[d].pc), call[d].vals)'
             /\ ApprovalInv(d)'
             /\ CallInv(d)'
             /\ Coherent(d)'
  <2>1. CASE d = c
    <3>1. call'[c] = r
      BY DEF IInv, StateOK
    <3>2. /\ r.pc = p /\ r.vals = call[c].vals /\ r.decision = call[c].decision
          /\ r.outcome = "none" /\ r.thread = call[c].thread /\ r.grant = call[c].grant
          /\ r.flagged = f
      BY <1>1 DEF Run
    <3>3. NodeInv(NodeOf(call[d].pc), call[d].vals)'
      BY <1>1, <2>1, <3>1, <3>2 DEF NodeOf, NodeInv
    <3>4. ApprovalInv(d)'
      <4>1. ApprovalInv(c)
        BY DEF IInv
      <4>. QED
        BY <2>1, <3>1, <3>2, <4>1 DEF ApprovalInv
    <3>5. CallInv(d)' /\ Coherent(d)'
      BY <1>1, <2>1, <3>1, <3>2 DEF CallInv, Coherent, Active
    <3>. QED
      BY <3>3, <3>4, <3>5
  <2>2. CASE d # c
    <3>1. call'[d] = call[d] /\ ran'[d] = ran[d]
      BY <2>2 DEF IInv, StateOK
    <3>. QED
      BY <3>1, OtherCall
  <2>. QED
    BY <2>1, <2>2
<1>. QED
  BY <1>2, <1>3, <1>4 DEF IInv

LEMMA LookUpInv ==
  ASSUME IInv, NEW c \in Call, LookUp(c)
  PROVE  IInv'
<1> DEFINE u == call[c].vals
           v == CacheHit(u)
<1>1. /\ call[c].pc = "execute" /\ call[c] \in Run /\ u \in Channels
      /\ NodeInv("execute", u) /\ UNCHANGED <<cache, ran>>
      /\ cache \in SUBSET Statement /\ ran \in [Call -> Seq(Pending)]
      /\ Len(ran[c]) <= IF call[c].grant = None THEN 0 ELSE 1
  BY Running DEF LookUp, Node, NodeOf, IInv, StateOK, ApprovalInv
<1>2. CASE CacheEnabled /\ v.sql \in cache
  <2>1. /\ v \in Channels /\ v.rows = u.sql /\ v.sql = u.sql /\ ~v.needsApproval
        /\ v.generated = u.generated /\ v.attempts = u.attempts /\ v.question = u.question
        /\ u.sql \in Statement
    BY <1>1 DEF Channels, CacheHit, NodeInv
  <2>2. RouteAfterExecute(v) = "analyze"
    BY <2>1, NoneAssumption DEF RouteAfterExecute
  <2>3. NodeInv("analyze", v)
    BY <1>1, <2>1 DEF NodeInv, Node, BeforeSql, UntilRows, WithRows
  <2>. QED
    BY <1>1, <1>2, <2>1, <2>2, <2>3, QuietAdvanceInv DEF LookUp, Node
<1>3. CASE ~(CacheEnabled /\ v.sql \in cache)
  <2>1. /\ call' = [call EXCEPT ![c].pc = "estimate"] /\ ckpt' = ckpt
        /\ cache' = cache /\ ran' = ran
    BY <1>1, <1>3 DEF LookUp
  <2>2. /\ [call[c] EXCEPT !.pc = "estimate"]
             = [call[c] EXCEPT !.pc = "estimate", !.flagged = call[c].flagged]
        /\ call[c].flagged \in BOOLEAN
    BY <1>1 DEF Run
  <2>3. call' = [call EXCEPT ![c] =
                   [call[c] EXCEPT !.pc = "estimate", !.flagged = call[c].flagged]]
    BY <2>1, <2>2
  <2>. QED
    BY <1>1, <2>1, <2>2, <2>3, MoveInv
<1>. QED
  BY <1>2, <1>3

LEMMA EstimateInv ==
  ASSUME IInv, NEW c \in Call, Estimate(c)
  PROVE  IInv'
<1> DEFINE v == call[c].vals
<1>1. /\ call[c].pc = "estimate" /\ call[c] \in Run /\ v \in Channels
      /\ NodeInv("execute", v) /\ UNCHANGED <<cache, ran>>
      /\ cache \in SUBSET Statement /\ ran \in [Call -> Seq(Pending)]
      /\ Len(ran[c]) <= IF call[c].grant = None THEN 0 ELSE 1
  BY Running DEF Estimate, Node, NodeOf, IInv, StateOK, ApprovalInv
<1>2. PICK expensive \in BOOLEAN :
        LET flagged == RequireApproval /\ (v.planFlag \/ expensive)
            asks    == flagged /\ ~v.approved
        IN  \/ /\ asks /\ call[c].decision = "none"
               /\ Leave(c, "paused", v.result)
            \/ /\ asks /\ call[c].decision = "decline"
               /\ Return(c, Declined(v), "declined")
            \/ /\ asks => call[c].decision = "approve"
               /\ call' = [call EXCEPT ![c].pc = "run", ![c].flagged = flagged]
               /\ UNCHANGED ckpt
  BY DEF Estimate
<1> DEFINE flagged == RequireApproval /\ (v.planFlag \/ expensive)
<1>3. flagged \in BOOLEAN /\ ~v.approved
  BY <1>1 DEF NodeInv, UntilRows
<1>4. CASE Leave(c, "paused", v.result)
  BY <1>1, <1>4, LeaveInv DEF Outcome, Channels
<1>5. CASE Return(c, Declined(v), "declined")
  <2>1. Declined(v) \in Channels
    BY <1>1 DEF Channels, Declined
  <2>2. /\ Declined(v).generated = v.generated /\ Declined(v).attempts = v.attempts
    BY <1>1 DEF Channels, Declined
  <2>3. NodeInv("end", Declined(v))
    BY <1>1, <2>2 DEF NodeInv, Node, BeforeSql, UntilRows, WithRows
  <2>. QED
    BY <1>1, <1>5, <2>1, <2>3, ReturnInv DEF Outcome
<1>6. CASE /\ flagged /\ ~v.approved => call[c].decision = "approve"
           /\ call' = [call EXCEPT ![c].pc = "run", ![c].flagged = flagged]
           /\ UNCHANGED ckpt
  <2>1. call' = [call EXCEPT ![c] = [call[c] EXCEPT !.pc = "run", !.flagged = flagged]]
    BY <1>6
  <2>. QED
    BY <1>1, <1>3, <1>6, <2>1, MoveInv
<1>. QED
  BY <1>2, <1>4, <1>5, <1>6

\* A flagged statement is the call's first, because the approval that lets it
\* run is gone once it has run.
LEMMA RunQueryInv ==
  ASSUME IInv, NEW c \in Call, RunQuery(c)
  PROVE  IInv'
<1> DEFINE u == call[c].vals
           v == ExecutionFailed(u)
           p == [question |-> u.question, sql |-> u.sql]
<1>1. /\ call[c].pc = "run" /\ call[c] \in Run /\ u \in Channels
      /\ NodeInv("execute", u) /\ ApprovalInv(c) /\ cache' = cache
      /\ cache \in SUBSET Statement /\ ran \in [Call -> Seq(Pending)]
  BY Running DEF RunQuery, Node, NodeOf, IInv, StateOK
<1>2. /\ ran' \in [Call -> Seq(Pending)]
      /\ \A d \in Call \ {c} : ran'[d] = ran[d]
      /\ Len(ran'[c]) <= IF call[c].grant = None THEN 0 ELSE 1
  <2>1. CASE call[c].flagged
    <3>1. ran' = [ran EXCEPT ![c] = Append(ran[c], p)]
      BY <2>1 DEF RunQuery
    <3>2. p \in Pending
      BY <1>1 DEF Pending, Channels
    <3>3. ran[c] = <<>> /\ call[c].grant # None
      BY <1>1, <2>1 DEF ApprovalInv
    <3>4. Append(ran[c], p) \in Seq(Pending) /\ Len(Append(ran[c], p)) = 1
      BY <1>1, <3>2, <3>3
    <3>. QED
      BY <1>1, <3>1, <3>3, <3>4
  <2>2. CASE ~call[c].flagged
    BY <1>1, <2>2 DEF RunQuery, ApprovalInv
  <2>. QED
    BY <2>1, <2>2
<1>3. CASE Advance(c, v, RouteAfterExecute(v))
  <2>1. /\ v \in Channels /\ v.sql = u.sql /\ ~v.needsApproval /\ v.rows = u.rows
        /\ v.lastError = "execution" /\ v.approved = u.approved
        /\ v.generated = u.generated /\ v.attempts = u.attempts /\ v.question = u.question
    BY <1>1 DEF Channels, ExecutionFailed, Error
  <2>2. v.rows = None
    BY <1>1, <2>1 DEF NodeInv, UntilRows
  <2>3. RouteAfterExecute(v) \in Node /\ NodeInv(RouteAfterExecute(v), v)
    <3>1. CASE MayRetry(v)
      <4>1. RouteAfterExecute(v) = "generate_sql"
        BY <2>1, <2>2, <3>1 DEF RouteAfterExecute
      <4>2. v.generated <= MaxSqlRetries
        BY <1>1, <2>1, <3>1, RetriesAssumption DEF MayRetry, NodeInv, Channels
      <4>. QED
        BY <1>1, <2>1, <2>2, <4>1, <4>2
           DEF NodeInv, Node, BeforeSql, UntilRows, WithRows
    <3>2. CASE ~MayRetry(v)
      <4>1. RouteAfterExecute(v) = "fail"
        BY <2>1, <2>2, <3>2 DEF RouteAfterExecute
      <4>. QED
        BY <1>1, <2>1, <4>1 DEF NodeInv, Node, BeforeSql, UntilRows, WithRows
    <3>. QED
      BY <3>1, <3>2
  <2>. QED
    BY <1>1, <1>2, <1>3, <2>1, <2>3, AdvanceInv
<1>4. CASE call' = [call EXCEPT ![c].pc = "put"] /\ UNCHANGED ckpt
  <2>1. /\ [call[c] EXCEPT !.pc = "put"]
             = [call[c] EXCEPT !.pc = "put", !.flagged = call[c].flagged]
        /\ call[c].flagged \in BOOLEAN
    BY <1>1 DEF Run
  <2>2. call' = [call EXCEPT ![c] =
                   [call[c] EXCEPT !.pc = "put", !.flagged = call[c].flagged]]
    BY <1>4, <2>1
  <2>. QED
    BY <1>1, <1>2, <1>4, <2>1, <2>2, MoveInv
<1>. QED
  BY <1>3, <1>4 DEF RunQuery

LEMMA PutCacheInv ==
  ASSUME IInv, NEW c \in Call, PutCache(c)
  PROVE  IInv'
<1> DEFINE u == call[c].vals
           v == Executed(u)
<1>1. /\ call[c].pc = "put" /\ u \in Channels /\ NodeInv("execute", u)
      /\ ran' = ran /\ cache \in SUBSET Statement
  BY Running DEF PutCache, NodeOf, IInv, StateOK
<1>2. /\ v \in Channels /\ v.rows = u.sql /\ v.sql = u.sql /\ ~v.needsApproval
      /\ v.generated = u.generated /\ v.attempts = u.attempts /\ v.question = u.question
      /\ u.sql \in Statement
  BY <1>1 DEF Channels, Executed, NodeInv
<1>3. cache' \in SUBSET Statement
  BY <1>1, <1>2 DEF PutCache
<1>4. RouteAfterExecute(v) = "analyze"
  BY <1>2, NoneAssumption DEF RouteAfterExecute
<1>5. NodeInv("analyze", v)
  BY <1>1, <1>2 DEF NodeInv, Node, BeforeSql, UntilRows, WithRows
<1>. QED
  BY <1>1, <1>2, <1>3, <1>4, <1>5, QuietAdvanceInv DEF PutCache, Node

-----------------------------------------------------------------------------
(***************************************************************************)
(* The way to a result.                                                    *)
(***************************************************************************)

\* The rows a node behind the executor finds stay what they are.
LEMMA WithRowsInv ==
  ASSUME IInv, NEW c \in Call, NEW n \in WithRows,
         call[c].pc \in WithRows, Advance(c, call[c].vals, n), UNCHANGED <<cache, ran>>
  PROVE  IInv'
<1>1. call[c].pc \in Node /\ n \in Node /\ NodeOf(call[c].pc) = call[c].pc
  BY DEF WithRows, Node, NodeOf
<1>2. /\ call[c].vals \in Channels /\ NodeInv(call[c].pc, call[c].vals)
      /\ cache' \in SUBSET Statement
  BY <1>1, Running DEF IInv, StateOK
<1>3. NodeInv(n, call[c].vals)
  BY <1>1, <1>2 DEF NodeInv, Node, BeforeSql, UntilRows, WithRows
<1>. QED
  BY <1>1, <1>2, <1>3, QuietAdvanceInv

LEMMA FinalizeInv ==
  ASSUME IInv, NEW c \in Call, Finalize(c)
  PROVE  IInv'
<1> DEFINE u == call[c].vals
           v == Finalized(u)
           res == [question |-> u.question, sql |-> u.sql, rows |-> u.rows, error |-> "none",
                   retries |-> IF u.attempts = 0 THEN 0 ELSE u.attempts - 1,
                   cached |-> u.cached, needsApproval |-> u.needsApproval]
<1>1. /\ call[c].pc = "finalize" /\ u \in Channels /\ NodeInv("finalize", u)
      /\ UNCHANGED <<cache, ran>> /\ Return(c, v, "answered")
  BY Running DEF Finalize, Node, NodeOf, IInv, StateOK
<1>2. u.question \in Call /\ u.sql \in Statement /\ u.rows = u.sql
  BY <1>1 DEF NodeInv, Node, WithRows
<1>3. res \in Result
  <2>1. (IF u.attempts = 0 THEN 0 ELSE u.attempts - 1) \in Nat
    BY <1>1 DEF Channels
  <2>. QED
    BY <1>1, <1>2, <2>1 DEF Result, Error, Channels
<1>4. v \in Channels /\ v.result = res
  BY <1>1, <1>3 DEF Channels, Finalized
<1>5. /\ v.question = u.question /\ v.generated = u.generated /\ v.attempts = u.attempts
  BY <1>1 DEF Channels, Finalized
<1>6. NodeInv("end", v)
  BY <1>1, <1>5 DEF NodeInv, Node, BeforeSql, UntilRows, WithRows
<1>7. /\ v.result # None /\ v.result.question = v.question /\ v.result.error = "none"
      /\ v.result.rows \in Statement /\ v.result.rows = v.result.sql
  BY <1>2, <1>3, <1>4, <1>5, NoneRecordAssumption
<1>. QED
  BY <1>1, <1>4, <1>6, <1>7, ReturnInv DEF Outcome, Node

LEMMA FailInv ==
  ASSUME IInv, NEW c \in Call, Fail(c)
  PROVE  IInv'
<1> DEFINE u == call[c].vals
           v == Failed(u)
           res == [question |-> u.question, sql |-> u.sql, rows |-> None,
                   error |-> IF u.blocked THEN "blocked" ELSE u.lastError,
                   retries |-> u.attempts, cached |-> FALSE,
                   needsApproval |-> u.needsApproval]
<1>1. /\ call[c].pc = "fail" /\ u \in Channels /\ NodeInv("fail", u)
      /\ UNCHANGED <<cache, ran>> /\ Return(c, v, "failed")
  BY Running DEF Fail, Node, NodeOf, IInv, StateOK
<1>2. u.question \in Call /\ res.error # "none"
  BY <1>1 DEF NodeInv, Node
<1>3. res \in Result
  BY <1>1, <1>2 DEF Result, Error, Channels
<1>4. v \in Channels /\ v.result = res
  BY <1>1, <1>3 DEF Channels, Failed
<1>5. /\ v.question = u.question /\ v.generated = u.generated /\ v.attempts = u.attempts
  BY <1>1 DEF Channels, Failed
<1>6. NodeInv("end", v)
  BY <1>1, <1>5 DEF NodeInv, Node, BeforeSql, UntilRows, WithRows
<1>7. v.result # None /\ v.result.question = v.question /\ v.result.error # "none"
  <2>1. res # None
    BY <1>3, NoneRecordAssumption
  <2>2. res.question = u.question
    OBVIOUS
  <2>3. v.result.error = res.error
    BY <1>4
  <2>4. v.result.error # "none"
    BY <1>2, <2>3
  <2>. QED
    BY <1>4, <1>5, <2>1, <2>2, <2>4
<1>. QED
  BY <1>1, <1>4, <1>6, <1>7, ReturnInv DEF Outcome, Node

LEMMA RaiseInv ==
  ASSUME IInv, NEW c \in Call, Raise(c)
  PROVE  IInv'
<1>1. call[c].pc # "idle" /\ "raised" \in Outcome \ {"answered", "failed"}
  BY DEF Raise, RaisingNode, Outcome
<1>2. cache' \in SUBSET Statement
  BY DEF Raise, IInv, StateOK
<1>. QED
  BY <1>1, <1>2, BreakInv DEF Raise

LEMMA AbandonInv ==
  ASSUME IInv, NEW c \in Call, Abandon(c)
  PROVE  IInv'
<1>1. call[c].pc # "idle" /\ "abandoned" \in Outcome \ {"answered", "failed"}
  BY DEF Abandon, Runs, Node, Outcome
<1>2. call[c].pc \in {"estimate", "run", "put"} => call[c].vals.sql \in Statement
  BY Running DEF NodeInv, NodeOf
<1>3. cache' \in SUBSET Statement
  BY <1>2 DEF Abandon, IInv, StateOK
<1>. QED
  BY <1>1, <1>3, BreakInv DEF Abandon

LEMMA ExpireInv ==
  ASSUME IInv, NEW s \in Statement, Expire(s)
  PROVE  IInv'
<1>1. ckpt' = ckpt /\ call' = call /\ ran' = ran /\ cache' = cache \ {s}
  BY DEF Expire
<1>2. StateOK'
  BY <1>1 DEF IInv, StateOK
<1>3. \A u \in Thread : NodeInv(ckpt[u].next, ckpt[u].vals)'
  BY <1>1 DEF IInv, NodeInv
<1>4. ASSUME NEW d \in Call
      PROVE  /\ NodeInv(NodeOf(call[d].pc), call[d].vals)' /\ ApprovalInv(d)'
             /\ CallInv(d)' /\ Coherent(d)'
  BY <1>1, OtherCall
<1>. QED
  BY <1>2, <1>3, <1>4 DEF IInv

-----------------------------------------------------------------------------
LEMMA NextInv == IInv /\ [Next]_vars => IInv'
<1> SUFFICES ASSUME IInv, [Next]_vars PROVE IInv'
  OBVIOUS
<1>1. ASSUME NEW c \in Call, Client(c) PROVE IInv'
  BY <1>1, AskInv, DecideInv, AbandonInv DEF Client
<1>2. ASSUME NEW c \in Call, CallStep(c) PROVE IInv'
  <2>1. CASE LoadSchema(c)
    BY <2>1, LoadSchemaInv
  <2>2. CASE Analyze(c)
    BY <2>2, WithRowsInv DEF Analyze, WithRows
  <2>3. CASE GenerateResponse(c)
    BY <2>3, WithRowsInv DEF GenerateResponse, WithRows
  <2>4. CASE GuardrailsOut(c)
    BY <2>4, WithRowsInv DEF GuardrailsOut, WithRows
  <2>. QED
    BY <1>2, <2>1, <2>2, <2>3, <2>4, ResumeInv, GuardrailsInInv, UnderstandInv,
       GenerateSqlInv, ValidateInv, LookUpInv, EstimateInv, RunQueryInv, PutCacheInv,
       FinalizeInv, FailInv, RaiseInv
       DEF CallStep
<1>3. CASE \E s \in Statement : Expire(s)
  BY <1>3, ExpireInv
<1>4. CASE UNCHANGED vars
  <2>1. ckpt' = ckpt /\ call' = call /\ cache' = cache /\ ran' = ran
    BY <1>4 DEF vars
  <2>2. StateOK'
    BY <2>1 DEF IInv, StateOK
  <2>3. \A u \in Thread : NodeInv(ckpt[u].next, ckpt[u].vals)'
    BY <2>1 DEF IInv, NodeInv
  <2>4. ASSUME NEW d \in Call
        PROVE  /\ NodeInv(NodeOf(call[d].pc), call[d].vals)' /\ ApprovalInv(d)'
               /\ CallInv(d)' /\ Coherent(d)'
    BY <2>1, OtherCall
  <2>. QED
    BY <2>2, <2>3, <2>4 DEF IInv
<1>. QED
  BY <1>1, <1>2, <1>3, <1>4 DEF Next

LEMMA Invariance == Spec => []IInv
  BY InitInv, NextInv, PTL DEF Spec

-----------------------------------------------------------------------------
(***************************************************************************)
(* What a question costs. A copy of the channels knows the generations its *)
(* own run and the runs before it spent. While no decision takes up a      *)
(* question that is being served, one call at most serves it, and the      *)
(* copies of the question (the server's and the checkpoint's) know of all  *)
(* that was spent, but for the generation a dropped stream had in flight.  *)
(***************************************************************************)

Extra(q) == IF call[q].outcome = "abandoned" THEN 1 ELSE 0

\* A question lives on the thread it was asked on.
AtHome(q) ==
    /\ \A t \in Thread : ckpt[t].vals.question = q =>
         call[q].pc # "idle" /\ call[q].thread = t
    /\ \A c \in Call : Serves(c, q) =>
         call[q].pc # "idle" /\ call[q].thread = call[c].thread
    /\ call[q].pc = "idle" => spent[q] = 0

\* The copies of a question that is served by one call at a time.
Accounted(q) ==
    /\ \A c, d \in Call : Serves(c, q) /\ Serves(d, q) => c = d
    /\ \A c \in Call : Serves(c, q) => spent[q] <= call[c].vals.generated + Extra(q)
    /\ \A t \in Thread : ckpt[t].vals.question = q =>
         spent[q] <= ckpt[t].vals.generated + Extra(q)
    /\ spent[q] <= MaxSqlRetries + 1 + Extra(q)

TallyOK == spent \in [Call -> Nat] /\ doubled \in SUBSET Call

TallyInv ==
    /\ IInv
    /\ TallyOK
    /\ \A q \in Call : AtHome(q) /\ (q \notin doubled => Accounted(q))

\* A step of a call that writes no checkpoint, spends nothing and takes
\* nothing up: it moves within a node, asks for a decision, or ends.
LEMMA QuietTally ==
  ASSUME TallyInv, IInv', NEW c \in Call, UNCHANGED <<ckpt, spent, doubled>>,
         \A d \in Call \ {c} : call'[d] = call[d],
         call[c].outcome = "none", call'[c].pc # "idle",
         call[c].pc # "idle" => call'[c].thread = call[c].thread,
         Runs(c)' => Runs(c) /\ call'[c].vals = call[c].vals
  PROVE  TallyInv'
<1>1. \A d \in Call, q \in Call : Serves(d, q)' =>
        Serves(d, q) /\ call'[d].vals = call[d].vals
  BY DEF Serves, Runs
<1>2. ASSUME NEW d \in Call, call[d].pc # "idle"
      PROVE  call'[d].pc # "idle" /\ call'[d].thread = call[d].thread
  BY <1>2
<1>3. ASSUME NEW q \in Call PROVE AtHome(q)'
  <2>1. AtHome(q)
    BY DEF TallyInv
  <2>2. \A d \in Call : Serves(d, q) => call[d].pc # "idle"
    BY DEF Serves, Runs, Node
  <2>3. call'[q].pc = "idle" => call[q].pc = "idle"
    BY <1>2
  <2>. QED
    BY <1>1, <1>2, <2>1, <2>2, <2>3 DEF AtHome
<1>4. ASSUME NEW q \in Call, q \notin doubled PROVE Accounted(q)'
  <2>1. Accounted(q) /\ spent[q] \in Nat
    BY <1>4 DEF TallyInv, TallyOK
  <2>2. Extra(q) \in Nat /\ Extra(q)' \in Nat /\ Extra(q) <= Extra(q)'
    BY DEF Extra
  <2>3. \A d \in Call : call[d].vals.generated \in Nat
    BY DEF TallyInv, IInv, StateOK, Run, Channels
  <2>4. \A t \in Thread : ckpt[t].vals.generated \in Nat
    BY DEF TallyInv, IInv, StateOK, Checkpoint, Channels
  <2>5. \A d, e \in Call : Serves(d, q)' /\ Serves(e, q)' => d = e
    BY <1>1, <2>1 DEF Accounted
  <2>6. \A d \in Call : Serves(d, q)' => spent'[q] <= call'[d].vals.generated + Extra(q)'
    BY <1>1, <2>1, <2>2, <2>3 DEF Accounted
  <2>7. \A t \in Thread : ckpt'[t].vals.question = q =>
          spent'[q] <= ckpt'[t].vals.generated + Extra(q)'
    BY <2>1, <2>2, <2>4 DEF Accounted
  <2>8. spent'[q] <= MaxSqlRetries + 1 + Extra(q)'
    BY <2>1, <2>2, RetriesAssumption DEF Accounted
  <2>. QED
    BY <2>5, <2>6, <2>7, <2>8 DEF Accounted
<1>. QED
  BY <1>3, <1>4 DEF TallyInv, TallyOK

\* A super-step that saves the channels v of the question it serves, with the
\* generation it may have spent counted in them.
LEMMA SaveTally ==
  ASSUME TallyInv, IInv', NEW c \in Call, Runs(c), NEW v \in Channels, NEW n,
         ckpt' = [ckpt EXCEPT ![call[c].thread] = [next |-> n, vals |-> v]],
         \A d \in Call \ {c} : call'[d] = call[d],
         call'[c].pc # "idle", call'[c].thread = call[c].thread, call'[c].vals = v,
         v.question = call[c].vals.question, UNCHANGED doubled,
         \/ spent' = spent /\ v.generated = call[c].vals.generated
         \/ /\ spent' = Charged(c) /\ v.generated = call[c].vals.generated + 1
            /\ v.generated <= MaxSqlRetries + 1
  PROVE  TallyInv'
<1> DEFINE p == call[c].vals.question
           t0 == call[c].thread
<1>1. /\ p \in Call /\ t0 \in Thread /\ Serves(c, p) /\ call[c].outcome = "none"
      /\ call[c].vals.generated \in Nat
  <2>1. call[c].thread \in Thread /\ call[c].vals \in Channels /\ call[c].outcome = "none"
        /\ NodeInv(NodeOf(call[c].pc), call[c].vals)
    BY Running DEF TallyInv, Runs
  <2>2. NodeOf(call[c].pc) \in Node
    BY DEF Runs, NodeOf, Node
  <2>. QED
    BY <2>1, <2>2 DEF NodeInv, Serves, Channels
<1>2. \A d \in Call, q \in Call : Serves(d, q)' =>
        Serves(d, q) /\ (d # c => call'[d].vals = call[d].vals)
  BY DEF Serves, Runs
<1>3. \A t \in Thread : t # t0 => ckpt'[t] = ckpt[t]
  BY DEF TallyInv, IInv, StateOK
<1>4. ckpt'[t0].vals = v
  BY <1>1 DEF TallyInv, IInv, StateOK
<1>5. /\ \A q \in Call : spent[q] \in Nat
      /\ \A q \in Call \ {p} : spent'[q] = spent[q]
      /\ spent'[p] \in Nat
      /\ spent' \in [Call -> Nat]
  BY <1>1 DEF TallyInv, TallyOK, Charged
<1>6. ASSUME NEW d \in Call, call[d].pc # "idle"
      PROVE  call'[d].pc # "idle" /\ call'[d].thread = call[d].thread
  BY <1>6
<1>7. ASSUME NEW q \in Call PROVE AtHome(q)'
  <2>1. AtHome(q) /\ AtHome(p) /\ call[p].pc # "idle" /\ call[p].thread = t0
    BY <1>1 DEF TallyInv, AtHome
  <2>2. \A d \in Call : Serves(d, q) => call[d].pc # "idle"
    BY DEF Serves, Runs, Node
  <2>3. call'[q].pc = "idle" => call[q].pc = "idle" /\ q # p
    BY <1>6, <2>1
  <2>4. \A t \in Thread : ckpt'[t].vals.question = q =>
          call'[q].pc # "idle" /\ call'[q].thread = t
    <3>1. \A t \in Thread \ {t0} : ckpt'[t].vals.question = q =>
            call'[q].pc # "idle" /\ call'[q].thread = t
      BY <1>3, <1>6, <2>1 DEF AtHome
    <3>2. ckpt'[t0].vals.question = q => call'[q].pc # "idle" /\ call'[q].thread = t0
      BY <1>4, <1>6, <2>1
    <3>. QED
      BY <3>1, <3>2
  <2>5. \A d \in Call : Serves(d, q)' =>
          call'[q].pc # "idle" /\ call'[q].thread = call'[d].thread
    BY <1>2, <1>6, <2>1, <2>2 DEF AtHome
  <2>6. call'[q].pc = "idle" => spent'[q] = 0
    BY <1>5, <2>1, <2>3 DEF AtHome
  <2>. QED
    BY <2>4, <2>5, <2>6 DEF AtHome
<1>8. ASSUME NEW q \in Call, q \notin doubled PROVE Accounted(q)'
  <2>1. Accounted(q)
    BY <1>8 DEF TallyInv
  <2>2. Extra(q) \in Nat /\ Extra(q)' \in Nat /\ Extra(q) <= Extra(q)'
    BY <1>1 DEF Extra
  <2>3. \A d \in Call : call[d].vals.generated \in Nat
    BY DEF TallyInv, IInv, StateOK, Run, Channels
  <2>4. \A t \in Thread : ckpt[t].vals.generated \in Nat
    BY DEF TallyInv, IInv, StateOK, Checkpoint, Channels
  <2>5. \A d, e \in Call : Serves(d, q)' /\ Serves(e, q)' => d = e
    BY <1>2, <2>1 DEF Accounted
  <2>6. CASE q = p
    <3>1. spent[p] <= call[c].vals.generated + Extra(p)
      BY <1>1, <2>1, <2>6 DEF Accounted
    <3>2. spent'[p] <= v.generated + Extra(p)'
      <4>1. CASE spent' = spent /\ v.generated = call[c].vals.generated
        BY <1>1, <1>5, <2>2, <2>6, <3>1, <4>1
      <4>2. CASE spent' = Charged(c) /\ v.generated = call[c].vals.generated + 1
        <5>1. spent'[p] = spent[p] + 1
          BY <1>1, <4>2 DEF Charged, TallyInv, TallyOK
        <5>. QED
          BY <1>1, <1>5, <2>2, <2>6, <3>1, <4>2, <5>1
      <4>. QED
        BY <4>1, <4>2
    <3>3. \A d \in Call : Serves(d, q)' => d = c
      BY <1>1, <1>2, <2>1, <2>6 DEF Accounted
    <3>4. \A t \in Thread : ckpt'[t].vals.question = p => t = t0
      BY <1>1, <1>3 DEF TallyInv, AtHome
    <3>5. v.generated <= MaxSqlRetries + 1 /\ v.generated \in Nat
      <4>1. v.generated <= MaxSqlRetries + 1
        BY <1>1, <1>4 DEF TallyInv, IInv, NodeInv
      <4>. QED
        BY <4>1 DEF Channels
    <3>6. spent'[p] <= MaxSqlRetries + 1 + Extra(p)'
      BY <1>5, <2>2, <2>6, <3>2, <3>5, RetriesAssumption
    <3>7. \A d \in Call : Serves(d, q)' => spent'[q] <= call'[d].vals.generated + Extra(q)'
      BY <2>6, <3>2, <3>3
    <3>8. \A t \in Thread : ckpt'[t].vals.question = q =>
            spent'[q] <= ckpt'[t].vals.generated + Extra(q)'
      BY <1>4, <2>6, <3>2, <3>4
    <3>. QED
      BY <2>5, <2>6, <3>6, <3>7, <3>8 DEF Accounted
  <2>7. CASE q # p
    <3>1. ~Serves(c, q)'
      BY <2>7 DEF Serves
    <3>2. spent'[q] = spent[q] /\ spent[q] \in Nat
      BY <1>5, <2>7
    <3>3. \A d \in Call : Serves(d, q)' => spent'[q] <= call'[d].vals.generated + Extra(q)'
      BY <1>2, <2>1, <2>2, <2>3, <3>1, <3>2 DEF Accounted
    <3>4. \A t \in Thread : ckpt'[t].vals.question = q =>
            spent'[q] <= ckpt'[t].vals.generated + Extra(q)'
      BY <1>3, <1>4, <2>1, <2>2, <2>4, <2>7, <3>2 DEF Accounted
    <3>5. spent'[q] <= MaxSqlRetries + 1 + Extra(q)'
      BY <2>1, <2>2, <3>2, RetriesAssumption DEF Accounted
    <3>. QED
      BY <2>5, <3>3, <3>4, <3>5 DEF Accounted
  <2>. QED
    BY <2>6, <2>7
<1>. QED
  BY <1>5, <1>7, <1>8 DEF TallyInv, TallyOK

\* A new question has spent nothing, and nothing of it is anywhere yet.
LEMMA AskTally ==
  ASSUME TallyInv, IInv', NEW c \in Call, NEW t \in Thread, Ask(c, t)
  PROVE  TallyInv'
<1> DEFINE v == StartQuestion(ckpt[t].vals, c)
<1>1. /\ call[c].pc = "idle" /\ call[c].outcome = "none" /\ v \in Channels
      /\ spent' = spent /\ doubled' = doubled
  BY StartFits DEF Ask, tally, TallyInv, IInv, StateOK, Checkpoint, CallInv
<1>2. /\ \A d \in Call \ {c} : call'[d] = call[d]
      /\ call'[c].pc = "guardrails_in" /\ call'[c].thread = t /\ call'[c].vals = v
      /\ call'[c].outcome = "none"
      /\ \A u \in Thread \ {t} : ckpt'[u] = ckpt[u]
      /\ ckpt'[t].vals = v
  BY <1>1 DEF Ask, TallyInv, IInv, StateOK, Run
<1>3. v.question = c /\ v.generated = 0
  BY DEF StartQuestion, TallyInv, IInv, StateOK, Checkpoint, Channels
<1>4. /\ AtHome(c) /\ spent[c] = 0
      /\ \A u \in Thread : ckpt[u].vals.question # c
      /\ \A d \in Call : ~Serves(d, c)
  BY <1>1 DEF TallyInv, AtHome
<1>5. ASSUME NEW d \in Call, NEW q \in Call, Serves(d, q)'
      PROVE  \/ d = c /\ q = c
             \/ d # c /\ q # c /\ Serves(d, q) /\ call'[d] = call[d]
  <2>1. CASE d = c
    BY <1>2, <1>3, <1>5, <2>1 DEF Serves
  <2>2. CASE d # c
    BY <1>2, <1>4, <1>5, <2>2 DEF Serves, Runs
  <2>. QED
    BY <2>1, <2>2
<1>6. ASSUME NEW q \in Call PROVE AtHome(q)'
  <2>1. CASE q = c
    BY <1>1, <1>2, <1>3, <1>4, <1>5, <2>1 DEF AtHome
  <2>2. CASE q # c
    BY <1>1, <1>2, <1>3, <1>4, <1>5, <2>2 DEF AtHome, TallyInv
  <2>. QED
    BY <2>1, <2>2
<1>7. ASSUME NEW q \in Call, q \notin doubled PROVE Accounted(q)'
  <2>1. CASE q = c
    <3>1. Extra(q)' = 0 /\ spent'[q] = 0
      BY <1>1, <1>2, <1>4, <2>1 DEF Extra
    <3>2. /\ \A d, e \in Call : Serves(d, q)' /\ Serves(e, q)' => d = e
          /\ \A d \in Call : Serves(d, q)' => call'[d].vals.generated = 0
          /\ \A u \in Thread : ckpt'[u].vals.question = q => ckpt'[u].vals.generated = 0
      BY <1>2, <1>3, <1>4, <1>5, <2>1
    <3>. QED
      BY <3>1, <3>2, RetriesAssumption DEF Accounted
  <2>2. CASE q # c
    <3>1. Accounted(q) /\ Extra(q)' = Extra(q) /\ spent'[q] = spent[q]
      BY <1>1, <1>2, <1>7, <2>2 DEF TallyInv, Extra
    <3>2. /\ \A d \in Call : Serves(d, q)' => Serves(d, q) /\ call'[d] = call[d]
          /\ \A u \in Thread : ckpt'[u].vals.question = q => ckpt'[u] = ckpt[u]
      BY <1>2, <1>3, <1>5, <2>2
    <3>. QED
      BY <3>1, <3>2 DEF Accounted
  <2>. QED
    BY <2>1, <2>2
<1>. QED
  BY <1>1, <1>6, <1>7 DEF TallyInv, TallyOK

\* A decision takes up what the checkpoint knows of the question. If somebody
\* serves that question already, it is doubled from now on.
LEMMA ResumeTally ==
  ASSUME TallyInv, IInv', NEW c \in Call, Resume(c)
  PROVE  TallyInv'
<1> DEFINE k == ckpt[call[c].thread]
<1>1. /\ call[c].pc = "resume" /\ call[c] \in Run /\ call[c].outcome = "none"
      /\ call[c].thread \in Thread /\ k \in Checkpoint /\ k.next # "none"
      /\ UNCHANGED <<ckpt, spent>>
  BY DEF Resume, Leave, tally, TallyInv, IInv, StateOK, CallInv, Active
<1>2. CASE k.next = "end"
  <2>1. Leave(c, "replayed", k.vals.result) /\ UNCHANGED doubled
    BY <1>2 DEF Resume
  <2>2. /\ \A d \in Call \ {c} : call'[d] = call[d]
        /\ call'[c].pc = "done" /\ call'[c].thread = call[c].thread
    BY <1>1, <2>1 DEF Leave, Run, TallyInv, IInv, StateOK
  <2>3. ~Runs(c)'
    BY <2>2 DEF Runs, Node
  <2>. QED
    BY <1>1, <2>1, <2>2, <2>3, QuietTally
<1>3. CASE k.next # "end"
  <2>1. /\ doubled' = doubled \cup {q \in Call : /\ q = k.vals.question
                                                 /\ \E d \in Call : Serves(d, q)}
        /\ \A d \in Call \ {c} : call'[d] = call[d]
        /\ call'[c].pc = k.next /\ call'[c].vals = k.vals /\ call'[c].outcome = "none"
        /\ call'[c].thread = call[c].thread
    BY <1>1, <1>3 DEF Resume, Run, TallyInv, IInv, StateOK
  <2>2. k.next \in Node /\ call'[c].pc # "idle"
    BY <1>1, <1>3, <2>1 DEF Checkpoint, Node
  <2>3. ASSUME NEW d \in Call, NEW q \in Call, Serves(d, q)'
        PROVE  \/ d = c /\ q = k.vals.question
               \/ d # c /\ Serves(d, q) /\ call'[d] = call[d]
    <3>1. CASE d = c
      BY <2>1, <2>3, <3>1 DEF Serves
    <3>2. CASE d # c
      BY <2>1, <2>3, <3>2 DEF Serves, Runs
    <3>. QED
      BY <3>1, <3>2
  <2>4. ASSUME NEW q \in Call PROVE AtHome(q)'
    <3>1. AtHome(q)
      BY DEF TallyInv
    <3>2. \A d \in Call : call[d].pc # "idle" =>
            call'[d].pc # "idle" /\ call'[d].thread = call[d].thread
      BY <2>1, <2>2
    <3>3. call[q].pc = "idle" => spent'[q] = 0
      BY <1>1, <3>1 DEF AtHome
    <3>4. \A t \in Thread : ckpt'[t].vals.question = q =>
            call'[q].pc # "idle" /\ call'[q].thread = t
      BY <1>1, <3>1, <3>2 DEF AtHome
    <3>5. ASSUME NEW d \in Call, Serves(d, q)'
          PROVE  call'[q].pc # "idle" /\ call'[q].thread = call'[d].thread
      <4>1. CASE d = c /\ q = k.vals.question
        BY <1>1, <2>1, <3>1, <3>2, <4>1 DEF AtHome
      <4>2. CASE d # c /\ Serves(d, q)
        BY <2>1, <3>1, <3>2, <4>2 DEF AtHome
      <4>. QED
        BY <2>3, <3>5, <4>1, <4>2
    <3>6. call'[q].pc = "idle" => call[q].pc = "idle"
      BY <3>2
    <3>. QED
      BY <3>3, <3>4, <3>5, <3>6 DEF AtHome
  <2>5. ASSUME NEW q \in Call, q \notin doubled' PROVE Accounted(q)'
    <3>1. Accounted(q) /\ Extra(q)' = Extra(q) /\ spent'[q] = spent[q]
      BY <1>1, <2>1, <2>5 DEF TallyInv, Extra
    <3>2. q = k.vals.question => \A d \in Call : ~Serves(d, q)
      BY <2>1, <2>5
    <3>3. \A d, e \in Call : Serves(d, q)' /\ Serves(e, q)' => d = e
      BY <2>3, <3>1, <3>2 DEF Accounted
    <3>4. ASSUME NEW d \in Call, Serves(d, q)'
          PROVE  spent'[q] <= call'[d].vals.generated + Extra(q)'
      <4>1. CASE d = c /\ q = k.vals.question
        BY <1>1, <2>1, <3>1, <4>1 DEF Accounted
      <4>2. CASE d # c /\ Serves(d, q) /\ call'[d] = call[d]
        BY <3>1, <4>2 DEF Accounted
      <4>. QED
        BY <2>3, <3>4, <4>1, <4>2
    <3>. QED
      BY <1>1, <3>1, <3>3, <3>4 DEF Accounted
  <2>6. doubled' \in SUBSET Call /\ doubled \subseteq doubled'
    BY <2>1 DEF TallyInv, TallyOK
  <2>. QED
    BY <1>1, <2>4, <2>5, <2>6 DEF TallyInv, TallyOK
<1>. QED
  BY <1>2, <1>3

\* A dropped stream may leave a generation behind that no copy knows of, but
\* only once: a question is asked once.
LEMMA AbandonTally ==
  ASSUME TallyInv, IInv', NEW c \in Call, Abandon(c)
  PROVE  TallyInv'
<1>1. /\ Runs(c) /\ call[c].vals.question = c /\ Serves(c, c)
      /\ call[c].outcome = "none" /\ call[c] \in Run
      /\ UNCHANGED <<ckpt, doubled>>
  BY Running DEF Abandon, Break, Serves, Runs, TallyInv, IInv, StateOK
<1>2. /\ \A d \in Call \ {c} : call'[d] = call[d]
      /\ call'[c].pc = "done" /\ call'[c].thread = call[c].thread
      /\ call'[c].outcome = "abandoned"
  BY <1>1 DEF Abandon, Break, Run, TallyInv, IInv, StateOK
<1>3. ~Runs(c)'
  BY <1>2 DEF Runs, Node
<1>4. CASE UNCHANGED spent
  BY <1>1, <1>2, <1>3, <1>4, QuietTally
<1>5. CASE spent' = Charged(c)
  <2>1. /\ spent[c] \in Nat /\ spent'[c] = spent[c] + 1
        /\ \A q \in Call \ {c} : spent'[q] = spent[q]
        /\ spent' \in [Call -> Nat]
    BY <1>1, <1>5 DEF Charged, TallyInv, TallyOK
  <2>2. \A d \in Call, q \in Call : Serves(d, q)' => d # c /\ Serves(d, q) /\ call'[d] = call[d]
    BY <1>2, <1>3 DEF Serves, Runs
  <2>3. \A d \in Call : call[d].pc # "idle" =>
          call'[d].pc # "idle" /\ call'[d].thread = call[d].thread
    BY <1>2
  <2>4. call[c].pc # "idle"
    BY <1>1 DEF Runs, Node
  <2>5. ASSUME NEW q \in Call PROVE AtHome(q)'
    <3>1. AtHome(q)
      BY DEF TallyInv
    <3>2. call'[q].pc = "idle" => call[q].pc = "idle" /\ spent'[q] = spent[q]
      BY <2>1, <2>3, <2>4
    <3>. QED
      BY <1>1, <2>2, <2>3, <3>1, <3>2 DEF AtHome
  <2>6. ASSUME NEW q \in Call, q \notin doubled PROVE Accounted(q)'
    <3>1. Accounted(q)
      BY <2>6 DEF TallyInv
    <3>2. CASE q = c
      <4>1. Extra(q) = 0 /\ Extra(q)' = 1
        BY <1>1, <1>2, <3>2 DEF Extra
      <4>2. \A d \in Call : ~Serves(d, q)'
        BY <1>1, <2>2, <3>1, <3>2 DEF Accounted
      <4>3. \A t \in Thread : ckpt[t].vals.generated \in Nat
        BY DEF TallyInv, IInv, StateOK, Checkpoint, Channels
      <4>4. \A t \in Thread : ckpt'[t].vals.question = q =>
              spent'[q] <= ckpt'[t].vals.generated + 1
        BY <1>1, <2>1, <3>1, <3>2, <4>1, <4>3 DEF Accounted
      <4>5. spent'[q] <= MaxSqlRetries + 1 + 1
        BY <2>1, <3>1, <3>2, <4>1, RetriesAssumption DEF Accounted
      <4>. QED
        BY <4>1, <4>2, <4>4, <4>5 DEF Accounted
    <3>3. CASE q # c
      <4>1. Extra(q)' = Extra(q) /\ spent'[q] = spent[q]
        BY <1>2, <2>1, <3>3 DEF Extra
      <4>. QED
        BY <1>1, <2>2, <3>1, <4>1 DEF Accounted
    <3>. QED
      BY <3>2, <3>3
  <2>. QED
    BY <1>1, <2>1, <2>5, <2>6 DEF TallyInv, TallyOK
<1>. QED
  BY <1>4, <1>5 DEF Abandon

\* What each node makes of its channels: the question stays, and only the
\* generator counts.
LEMMA UpdatesKeepQuestion ==
  ASSUME NEW v \in Channels
  PROVE  /\ \A b \in BOOLEAN : /\ [v EXCEPT !.blocked = b].question = v.question
                               /\ [v EXCEPT !.blocked = b].generated = v.generated
                               /\ [v EXCEPT !.planFlag = b].question = v.question
                               /\ [v EXCEPT !.planFlag = b].generated = v.generated
         /\ \A u \in {Validated(v), CacheHit(v), Declined(v), ExecutionFailed(v), Executed(v),
                      Finalized(v), Failed(v)} :
              u.question = v.question /\ u.generated = v.generated
<1>1. \A b \in BOOLEAN : /\ [v EXCEPT !.blocked = b].question = v.question
                         /\ [v EXCEPT !.blocked = b].generated = v.generated
                         /\ [v EXCEPT !.planFlag = b].question = v.question
                         /\ [v EXCEPT !.planFlag = b].generated = v.generated
  BY DEF Channels
<1>2. Validated(v).question = v.question /\ Validated(v).generated = v.generated
  BY DEF Channels, Validated
<1>3. CacheHit(v).question = v.question /\ CacheHit(v).generated = v.generated
  BY DEF Channels, CacheHit
<1>4. Declined(v).question = v.question /\ Declined(v).generated = v.generated
  BY DEF Channels, Declined
<1>5. ExecutionFailed(v).question = v.question /\ ExecutionFailed(v).generated = v.generated
  BY DEF Channels, ExecutionFailed
<1>6. Executed(v).question = v.question /\ Executed(v).generated = v.generated
  BY DEF Channels, Executed
<1>7. Finalized(v).question = v.question /\ Finalized(v).generated = v.generated
  BY DEF Channels, Finalized
<1>8. Failed(v).question = v.question /\ Failed(v).generated = v.generated
  BY DEF Channels, Failed
<1>. QED
  BY <1>1, <1>2, <1>3, <1>4, <1>5, <1>6, <1>7, <1>8

\* SaveTally for a super-step that ends in Advance or Return and spends nothing.
LEMMA StepTally ==
  ASSUME TallyInv, IInv', NEW c \in Call, Runs(c), NEW v, UNCHANGED tally,
         v.question = call[c].vals.question, v.generated = call[c].vals.generated,
         \/ \E n \in Node : Advance(c, v, n)
         \/ \E how \in Outcome : Return(c, v, how)
  PROVE  TallyInv'
<1>1. call[c] \in Run /\ call[c].thread \in Thread
  BY Running DEF TallyInv, Runs, IInv, StateOK
<1>2. PICK n : ckpt' = [ckpt EXCEPT ![call[c].thread] = [next |-> n, vals |-> v]]
  BY DEF Advance, Return
<1>3. /\ \A d \in Call \ {c} : call'[d] = call[d]
      /\ call'[c].pc # "idle" /\ call'[c].thread = call[c].thread /\ call'[c].vals = v
  <2>0. call \in [Call -> Run]
    BY DEF TallyInv, IInv, StateOK
  <2>1. CASE \E m \in Node : Advance(c, v, m)
    <3>1. PICK m \in Node : call' = [call EXCEPT ![c] = [call[c] EXCEPT !.pc = m, !.vals = v,
                                       !.decision = "none", !.flagged = FALSE]]
      BY <2>1 DEF Advance
    <3>2. m # "idle"
      BY DEF Node
    <3>. QED
      BY <1>1, <2>0, <3>1, <3>2 DEF Run
  <2>2. CASE \E how \in Outcome : Return(c, v, how)
    <3>1. PICK how \in Outcome : Return(c, v, how)
      BY <2>2
    <3>2. call' = [call EXCEPT ![c] = [call[c] EXCEPT !.pc = "done", !.vals = v,
                     !.decision = "none", !.outcome = how, !.reply = v.result]]
      BY <3>1 DEF Return
    <3>. QED
      BY <1>1, <2>0, <3>2 DEF Run
  <2>. QED
    BY <2>1, <2>2
<1>4. v \in Channels
  BY <1>3 DEF IInv, StateOK, Run
<1>. QED
  BY <1>2, <1>3, <1>4, SaveTally DEF tally

\* QuietTally for the steps within the executor node and for calls that end
\* where they are.
LEMMA EndTally ==
  ASSUME TallyInv, IInv', NEW c \in Call, Runs(c), UNCHANGED tally,
         \/ \E p \in {"estimate", "run", "put"}, f \in BOOLEAN :
              /\ \/ call' = [call EXCEPT ![c].pc = p]
                 \/ call' = [call EXCEPT ![c].pc = p, ![c].flagged = f]
              /\ UNCHANGED ckpt
         \/ \E how, r : Leave(c, how, r)
         \/ \E how : Break(c, how)
  PROVE  TallyInv'
<1>1. call[c] \in Run /\ call[c].outcome = "none" /\ UNCHANGED <<ckpt, spent, doubled>>
  BY Running DEF TallyInv, Runs, IInv, StateOK, Leave, Break, tally
<1>2. /\ \A d \in Call \ {c} : call'[d] = call[d]
      /\ call'[c].pc # "idle" /\ call'[c].thread = call[c].thread
      /\ call'[c].pc = "done" \/ call'[c].vals = call[c].vals
  <2>0. call \in [Call -> Run]
    BY DEF TallyInv, IInv, StateOK
  <2>1. CASE \E p \in {"estimate", "run", "put"}, f \in BOOLEAN :
               \/ call' = [call EXCEPT ![c].pc = p]
               \/ call' = [call EXCEPT ![c].pc = p, ![c].flagged = f]
    BY <1>1, <2>0, <2>1 DEF Run
  <2>2. CASE \E how, r : Leave(c, how, r)
    <3>1. PICK how, r : Leave(c, how, r)
      BY <2>2
    <3>2. call' = [call EXCEPT ![c] = [call[c] EXCEPT !.pc = "done", !.decision = "none",
                                         !.outcome = how, !.reply = r]]
      BY <3>1 DEF Leave
    <3>. QED
      BY <1>1, <2>0, <3>2 DEF Run
  <2>3. CASE \E how : Break(c, how)
    <3>1. PICK how : call' = [call EXCEPT ![c] = [call[c] EXCEPT !.pc = "done",
                       !.vals = Blank, !.decision = "none", !.flagged = FALSE,
                       !.outcome = how]]
      BY <2>3 DEF Break
    <3>. QED
      BY <1>1, <2>0, <3>1 DEF Run
  <2>. QED
    BY <2>1, <2>2, <2>3
<1>3. Runs(c)' => Runs(c) /\ call'[c].vals = call[c].vals
  BY <1>2 DEF Runs, Node
<1>. QED
  BY <1>1, <1>2, <1>3, QuietTally

\* The generator: one more generation spent, and one more known of.
LEMMA GenerateTally ==
  ASSUME TallyInv, IInv', NEW c \in Call, GenerateSql(c)
  PROVE  TallyInv'
<1>1. /\ Runs(c) /\ call[c] \in Run /\ call[c].vals \in Channels
      /\ NodeInv("generate_sql", call[c].vals)
      /\ spent' = Charged(c) /\ doubled' = doubled
  BY Running DEF GenerateSql, Runs, Node, NodeOf, TallyInv, IInv, StateOK
<1>2. PICK o \in Output : Advance(c, Generated(call[c].vals, o), "validate")
  BY DEF GenerateSql
<1> DEFINE v == Generated(call[c].vals, o)
<1>3. /\ v.question = call[c].vals.question
      /\ v.generated = call[c].vals.generated + 1 /\ v.generated <= MaxSqlRetries + 1
  BY <1>1, RetriesAssumption DEF Channels, Generated, CountUpTo, NodeInv, BeforeSql
<1>4. /\ \A d \in Call \ {c} : call'[d] = call[d]
      /\ call'[c].pc = "validate" /\ call'[c].thread = call[c].thread /\ call'[c].vals = v
      /\ ckpt' = [ckpt EXCEPT ![call[c].thread] = [next |-> "validate", vals |-> v]]
  BY <1>1, <1>2 DEF Advance, Run, TallyInv, IInv, StateOK
<1>5. v \in Channels
  BY <1>4 DEF IInv, StateOK, Run
<1>. QED
  BY <1>1, <1>3, <1>4, <1>5, SaveTally

\* The nodes that only hand their channels on.
LEMMA NodeTally ==
  ASSUME TallyInv, IInv', NEW c \in Call,
         \/ GuardrailsIn(c) \/ LoadSchema(c) \/ Understand(c) \/ Validate(c)
         \/ Analyze(c) \/ GenerateResponse(c) \/ GuardrailsOut(c)
         \/ Finalize(c) \/ Fail(c)
  PROVE  TallyInv'
<1> DEFINE u == call[c].vals
<1>1. Runs(c) /\ u \in Channels /\ UNCHANGED tally
  BY DEF GuardrailsIn, LoadSchema, Understand, Validate, Analyze, GenerateResponse,
         GuardrailsOut, Finalize, Fail, Runs, Node, TallyInv, IInv, StateOK, Run
<1>2. CASE GuardrailsIn(c) \/ Understand(c)
  <2>1. PICK b \in BOOLEAN :
          \/ Advance(c, [u EXCEPT !.blocked = b],
                     RouteAfterInputGuardrail([u EXCEPT !.blocked = b]))
          \/ Advance(c, [u EXCEPT !.planFlag = b], "generate_sql")
    BY <1>2 DEF GuardrailsIn, Understand
  <2>2. RouteAfterInputGuardrail([u EXCEPT !.blocked = b]) \in Node /\ "generate_sql" \in Node
    BY DEF RouteAfterInputGuardrail, Node
  <2>. QED
    BY <1>1, <2>1, <2>2, UpdatesKeepQuestion, StepTally
<1>3. CASE LoadSchema(c) \/ Analyze(c) \/ GenerateResponse(c) \/ GuardrailsOut(c)
  <2>1. \E n \in Node : Advance(c, u, n)
    BY <1>3 DEF LoadSchema, Analyze, GenerateResponse, GuardrailsOut, Node
  <2>. QED
    BY <1>1, <2>1, StepTally
<1>4. CASE Validate(c)
  <2>1. Advance(c, Validated(u), RouteAfterValidate(Validated(u)))
    BY <1>4 DEF Validate
  <2>2. RouteAfterValidate(Validated(u)) \in Node
    BY DEF RouteAfterValidate, Node
  <2>. QED
    BY <1>1, <2>1, <2>2, UpdatesKeepQuestion, StepTally
<1>5. CASE Finalize(c) \/ Fail(c)
  <2>1. \/ Return(c, Finalized(u), "answered")
        \/ Return(c, Failed(u), "failed")
    BY <1>5 DEF Finalize, Fail
  <2>. QED
    BY <1>1, <2>1, UpdatesKeepQuestion, StepTally DEF Outcome
<1>. QED
  BY <1>2, <1>3, <1>4, <1>5

\* The parts of the executor node, and a node that raises.
LEMMA ExecutorTally ==
  ASSUME TallyInv, IInv', NEW c \in Call,
         LookUp(c) \/ Estimate(c) \/ RunQuery(c) \/ PutCache(c) \/ Raise(c)
  PROVE  TallyInv'
<1> DEFINE u == call[c].vals
<1>1. Runs(c) /\ u \in Channels /\ UNCHANGED tally
  BY DEF LookUp, Estimate, RunQuery, PutCache, Raise, RaisingNode, Runs, Node,
         TallyInv, IInv, StateOK, Run
<1>2. \A v : RouteAfterExecute(v) # "end" => RouteAfterExecute(v) \in Node
  BY DEF RouteAfterExecute, Node
<1>3. /\ RouteAfterExecute(CacheHit(u)) # "end"
      /\ RouteAfterExecute(ExecutionFailed(u)) # "end"
      /\ RouteAfterExecute(Executed(u)) # "end"
  <2>1. /\ ~CacheHit(u).needsApproval /\ ~ExecutionFailed(u).needsApproval
        /\ ~Executed(u).needsApproval
    BY <1>1 DEF CacheHit, ExecutionFailed, Executed, Channels
  <2>. QED
    BY <2>1 DEF RouteAfterExecute
<1>4. CASE \E v \in {CacheHit(u), ExecutionFailed(u), Executed(u)} :
             Advance(c, v, RouteAfterExecute(v))
  BY <1>1, <1>2, <1>3, <1>4, UpdatesKeepQuestion, StepTally
<1>5. CASE Return(c, Declined(u), "declined")
  BY <1>1, <1>5, UpdatesKeepQuestion, StepTally DEF Outcome
<1>6. CASE LookUp(c)
  <2>1. CASE call' = [call EXCEPT ![c].pc = "estimate"] /\ UNCHANGED ckpt
    BY <1>1, <2>1, EndTally
  <2>. QED
    BY <1>4, <1>6, <2>1 DEF LookUp
<1>7. CASE Estimate(c)
  <2>1. PICK f \in BOOLEAN :
          \/ Leave(c, "paused", u.result)
          \/ Return(c, Declined(u), "declined")
          \/ call' = [call EXCEPT ![c].pc = "run", ![c].flagged = f] /\ UNCHANGED ckpt
    <3>1. u.planFlag \in BOOLEAN /\ RequireApproval \in BOOLEAN
      BY <1>1, SettingsAssumption DEF Channels
    <3>. QED
      BY <1>7, <3>1 DEF Estimate
  <2>. QED
    BY <1>1, <1>5, <2>1, EndTally
<1>8. CASE RunQuery(c)
  <2>1. CASE call' = [call EXCEPT ![c].pc = "put"] /\ UNCHANGED ckpt
    BY <1>1, <2>1, EndTally
  <2>. QED
    BY <1>4, <1>8, <2>1 DEF RunQuery
<1>9. CASE PutCache(c)
  BY <1>4, <1>9 DEF PutCache
<1>10. CASE Raise(c)
  BY <1>1, <1>10, EndTally DEF Raise
<1>. QED
  BY <1>6, <1>7, <1>8, <1>9, <1>10

\* A decision that has not taken anything up yet.
LEMMA DecideTally ==
  ASSUME TallyInv, IInv', NEW c \in Call, NEW t \in Thread, NEW a, Decide(c, t, a)
  PROVE  TallyInv'
<1>1. /\ call[c].pc = "idle" /\ call[c].outcome = "none" /\ call[c] \in Run
      /\ UNCHANGED <<ckpt, spent, doubled>>
  BY DEF Decide, tally, TallyInv, IInv, StateOK, CallInv
<1>2. /\ \A d \in Call \ {c} : call'[d] = call[d]
      /\ call'[c].pc = "resume"
  BY <1>1 DEF Decide, Run, TallyInv, IInv, StateOK
<1>3. ~Runs(c)'
  BY <1>2 DEF Runs, Node
<1>. QED
  BY <1>1, <1>2, <1>3, QuietTally

LEMMA TallyNext == TallyInv /\ IInv' /\ [Next]_vars => TallyInv'
<1> SUFFICES ASSUME TallyInv, IInv', [Next]_vars PROVE TallyInv'
  OBVIOUS
<1>1. ASSUME NEW c \in Call, Client(c) PROVE TallyInv'
  BY <1>1, AskTally, DecideTally, AbandonTally DEF Client
<1>2. ASSUME NEW c \in Call, CallStep(c) PROVE TallyInv'
  BY <1>2, ResumeTally, GenerateTally, NodeTally, ExecutorTally DEF CallStep
<1>3. CASE UNCHANGED <<ckpt, call, tally>>
  <2>1. /\ ckpt' = ckpt /\ call' = call /\ spent' = spent /\ doubled' = doubled
    BY <1>3 DEF tally
  <2>2. \A q \in Call : (AtHome(q)' <=> AtHome(q)) /\ (Accounted(q)' <=> Accounted(q))
    BY <2>1 DEF AtHome, Accounted, Serves, Runs, Extra
  <2>. QED
    BY <2>1, <2>2 DEF TallyInv, TallyOK
<1>4. CASE UNCHANGED vars \/ \E s \in Statement : Expire(s)
  BY <1>3, <1>4 DEF vars, Expire, tally
<1>. QED
  BY <1>1, <1>2, <1>4 DEF Next

LEMMA TallyInit == Init => TallyInv
<1> SUFFICES ASSUME Init PROVE TallyInv
  OBVIOUS
<1>1. TallyOK
  BY DEF Init, TallyOK
<1>2. /\ \A c \in Call : /\ call[c].pc = "idle" /\ call[c].outcome = "none"
                         /\ spent[c] = 0 /\ ~Runs(c)
      /\ \A t \in Thread : ckpt[t].vals.question = None
  BY DEF Init, Blank, Runs, Node
<1>3. \A q \in Call : AtHome(q) /\ Accounted(q)
  BY <1>2, NoneAssumption, RetriesAssumption DEF AtHome, Accounted, Serves, Extra
<1>. QED
  BY <1>1, <1>3, InitInv DEF TallyInv

LEMMA TallyInvariance == Spec => []TallyInv
<1>1. IInv /\ [Next]_vars /\ TallyInv => TallyInv'
  BY NextInv, TallyNext
<1>. QED
  BY <1>1, TallyInit, Invariance, PTL DEF Spec

-----------------------------------------------------------------------------
(***************************************************************************)
(* The results.                                                            *)
(***************************************************************************)

\* The variables of the agent keep their types: whatever the LLM writes, the
\* rows of a result were read with a statement the validator extracted.
THEOREM TypeCorrect == Spec => []TypeOK
<1>1. TallyInv => TypeOK
  BY DEF TallyInv, TallyOK, IInv, StateOK, TypeOK
<1>. QED
  BY TallyInvariance, <1>1, PTL

\* A question costs at most max_sql_retries regenerations, summed over every
\* call that worked on it, for any limit and any mix of pauses, decisions,
\* crashes, dropped streams and overlapping questions, as long as no decision
\* takes it up while another call is running it.
THEOREM RetryBudgetHolds == Spec => []RetryBudget
<1>1. TallyInv => RetryBudget
  BY DEF TallyInv, Accounted, Extra, RetryBudget
<1>. QED
  BY TallyInvariance, <1>1, PTL

\* The database runs a flagged statement only in a call that brought an
\* approval, and at most one statement per approval.
THEOREM OneRunPerApprovalHolds == Spec => []OneRunPerApproval
<1>1. IInv => OneRunPerApproval
  BY DEF IInv, OneRunPerApproval, ApprovalInv
<1>. QED
  BY Invariance, <1>1, PTL

\* A call that ran to the end answers its own question, with the rows of the
\* statement it shows or with the reason of the failure.
THEOREM ReplyIsCoherentHolds == Spec => []ReplyIsCoherent
<1>1. IInv => ReplyIsCoherent
  BY DEF IInv, ReplyIsCoherent
<1>. QED
  BY Invariance, <1>1, PTL

-----------------------------------------------------------------------------
(***************************************************************************)
(* Progress: every step of a call lowers WorkLeft.                         *)
(***************************************************************************)

\* A step changes the record of the call that takes it and of no other.
LEMMA OthersUntouched ==
  ASSUME StateOK, NEW c \in Call, NEW d \in Call \ {c}, Client(d) \/ CallStep(d)
  PROVE  call'[c] = call[c]
<1>1. ASSUME NEW r, call' = [call EXCEPT ![d] = r] PROVE call'[c] = call[c]
  BY <1>1 DEF StateOK
<1>2. ASSUME NEW v, NEW n, Advance(d, v, n) PROVE call'[c] = call[c]
  BY <1>2 DEF Advance, StateOK
<1>3. ASSUME NEW v, NEW how, Return(d, v, how) PROVE call'[c] = call[c]
  BY <1>3 DEF Return, StateOK
<1>4. ASSUME NEW r, NEW how, Leave(d, how, r) PROVE call'[c] = call[c]
  BY <1>4 DEF Leave, StateOK
<1>5. ASSUME NEW how, Break(d, how) PROVE call'[c] = call[c]
  BY <1>5 DEF Break, StateOK
<1>6. CASE Client(d)
  BY <1>5, <1>6 DEF Client, Ask, Decide, Abandon, StateOK
<1>7. CASE CallStep(d)
  <2>1. CASE Resume(d)
    BY <1>4, <2>1 DEF Resume, StateOK
  <2>2. CASE LookUp(d) \/ RunQuery(d)
    BY <1>2, <2>2 DEF LookUp, RunQuery, StateOK
  <2>3. CASE Estimate(d)
    BY <1>3, <1>4, <2>3 DEF Estimate, StateOK
  <2>4. CASE Finalize(d) \/ Fail(d)
    BY <1>3, <2>4 DEF Finalize, Fail
  <2>5. CASE Raise(d)
    BY <1>5, <2>5 DEF Raise
  <2>6. CASE GuardrailsIn(d) \/ LoadSchema(d) \/ Understand(d) \/ GenerateSql(d) \/ Validate(d)
    BY <1>2, <2>6 DEF GuardrailsIn, LoadSchema, Understand, GenerateSql, Validate
  <2>7. CASE PutCache(d) \/ Analyze(d) \/ GenerateResponse(d) \/ GuardrailsOut(d)
    BY <1>2, <2>7 DEF PutCache, Analyze, GenerateResponse, GuardrailsOut
  <2>. QED
    BY <1>7, <2>1, <2>2, <2>3, <2>4, <2>5, <2>6, <2>7 DEF CallStep
<1>. QED
  BY <1>6, <1>7

\* What is left at node pc with a attempts made.
Work(pc, a) == 11 * GenerationsLeft(pc, a) + StageRank[pc]

LEMMA StageRanks ==
  /\ StageRank["done"] = 0 /\ StageRank["fail"] = 1 /\ StageRank["finalize"] = 1
  /\ StageRank["guardrails_out"] = 2 /\ StageRank["generate_response"] = 3
  /\ StageRank["analyze"] = 4 /\ StageRank["generate_sql"] = 5 /\ StageRank["put"] = 6
  /\ StageRank["run"] = 7 /\ StageRank["estimate"] = 8 /\ StageRank["execute"] = 9
  /\ StageRank["validate"] = 10 /\ StageRank["understand"] = 6
  /\ StageRank["load_schema"] = 7 /\ StageRank["guardrails_in"] = 8
  /\ StageRank["resume"] = 0
  BY DEF StageRank

\* The edges of the graph, between generations and through one.
LEMMA EdgesGoDown ==
  ASSUME NEW a \in Nat
  PROVE  /\ Work("load_schema", a) < Work("guardrails_in", a)
         /\ Work("understand", a) < Work("load_schema", a)
         /\ Work("generate_sql", a) < Work("understand", a)
         /\ Work("validate", a + 1) < Work("generate_sql", a)
         /\ Work("execute", a) < Work("validate", a)
         /\ Work("estimate", a) < Work("execute", a)
         /\ Work("run", a) < Work("estimate", a)
         /\ Work("put", a) < Work("run", a)
         /\ Work("generate_response", a) < Work("analyze", a)
         /\ Work("guardrails_out", a) < Work("generate_response", a)
         /\ Work("finalize", a) < Work("guardrails_out", a)
         /\ Work("fail", a) < Work("guardrails_in", a)
         /\ \A pc \in {"validate", "run", "execute", "put"} :
              /\ Work("fail", a) < Work(pc, a)
              /\ Work("analyze", a) < Work(pc, a)
              /\ a <= MaxSqlRetries => Work("generate_sql", a) < Work(pc, a)
<1>. DEFINE left == IF a <= MaxSqlRetries THEN MaxSqlRetries + 1 - a ELSE 0
<1>1. left \in Nat /\ (a <= MaxSqlRetries => left > 0)
  BY RetriesAssumption
<1>2. \A pc \in {"validate", "run", "execute", "put", "estimate", "fail", "finalize",
                 "analyze", "generate_response", "guardrails_out"} :
        GenerationsLeft(pc, a) = left
  BY DEF GenerationsLeft
<1>3. \A pc \in {"guardrails_in", "load_schema", "understand", "generate_sql"} :
        GenerationsLeft(pc, a) = IF left = 0 THEN 1 ELSE left
  BY DEF GenerationsLeft
<1>4. GenerationsLeft("validate", a + 1) = IF a + 1 <= MaxSqlRetries THEN left - 1 ELSE 0
  BY RetriesAssumption DEF GenerationsLeft
<1>5. Work("validate", a + 1) < Work("generate_sql", a)
  BY <1>1, <1>3, <1>4, StageRanks, RetriesAssumption DEF Work
<1>. HIDE DEF left
<1>6. /\ Work("load_schema", a) < Work("guardrails_in", a)
      /\ Work("understand", a) < Work("load_schema", a)
      /\ Work("generate_sql", a) < Work("understand", a)
      /\ Work("fail", a) < Work("guardrails_in", a)
  BY <1>1, <1>2, <1>3, StageRanks DEF Work
<1>7. /\ Work("execute", a) < Work("validate", a)
      /\ Work("estimate", a) < Work("execute", a)
      /\ Work("run", a) < Work("estimate", a)
      /\ Work("put", a) < Work("run", a)
      /\ Work("generate_response", a) < Work("analyze", a)
      /\ Work("guardrails_out", a) < Work("generate_response", a)
      /\ Work("finalize", a) < Work("guardrails_out", a)
  BY <1>1, <1>2, StageRanks DEF Work
<1>8. ASSUME NEW pc \in {"validate", "run", "execute", "put"}
      PROVE  /\ Work("fail", a) < Work(pc, a)
             /\ Work("analyze", a) < Work(pc, a)
             /\ a <= MaxSqlRetries => Work("generate_sql", a) < Work(pc, a)
  <2>1. GenerationsLeft(pc, a) = left /\ StageRank[pc] \in 6 .. 10
    BY <1>2, StageRanks
  <2>. QED
    BY <1>1, <1>2, <1>3, <2>1, StageRanks DEF Work
<1>. QED
  BY <1>5, <1>6, <1>7, <1>8

\* Every place a run can be at is above its end, and below a decision that
\* has not been taken up.
LEMMA EndsGoDown ==
  ASSUME NEW a \in Nat, NEW b \in Nat
  PROVE  /\ \A pc \in Node \cup {"resume", "estimate", "run", "put"} : Work("done", b) < Work(pc, a)
         /\ \A n \in Node : Work(n, b) < Work("resume", a)
<1>1. Work("done", b) = 0 /\ Work("resume", a) = 11 * (MaxSqlRetries + 2)
  BY StageRanks, RetriesAssumption DEF Work, GenerationsLeft
<1>2. ASSUME NEW pc \in Node \cup {"resume", "estimate", "run", "put"}
      PROVE  /\ GenerationsLeft(pc, a) \in Nat
             /\ pc # "resume" => StageRank[pc] \in 1 .. 10
  BY StageRanks, RetriesAssumption DEF Node, GenerationsLeft
<1>3. ASSUME NEW pc \in Node \cup {"resume", "estimate", "run", "put"}
      PROVE  0 < Work(pc, a)
  BY <1>1, <1>2, RetriesAssumption DEF Work
<1>4. ASSUME NEW n \in Node
      PROVE  /\ GenerationsLeft(n, b) \in 0 .. MaxSqlRetries + 1
             /\ StageRank[n] \in 1 .. 10
  BY StageRanks, RetriesAssumption DEF Node, GenerationsLeft
<1>5. ASSUME NEW n \in Node PROVE Work(n, b) < Work("resume", a)
  BY <1>1, <1>4, RetriesAssumption DEF Work
<1>. QED
  BY <1>1, <1>3, <1>5

\* Where Advance, Return, Leave and Break leave the call.
LEMMA WhereItStands ==
  ASSUME IInv, NEW c \in Call, Active(c)
  PROVE  /\ call[c].vals \in Channels
         /\ WorkLeft(c) = Work(call[c].pc, call[c].vals.attempts)
         /\ \A n, v : Advance(c, v, n) => call'[c].pc = n /\ call'[c].vals = v
         /\ \A v, how : Return(c, v, how) => call'[c].pc = "done" /\ call'[c].vals = v
         /\ \A how, r : Leave(c, how, r) => call'[c].pc = "done" /\ call'[c].vals = call[c].vals
         /\ \A how : Break(c, how) => call'[c].pc = "done" /\ call'[c].vals = Blank
<1>1. call[c] \in Run /\ call \in [Call -> Run]
  BY DEF IInv, StateOK
<1>2. call[c].vals \in Channels /\ WorkLeft(c) = Work(call[c].pc, call[c].vals.attempts)
  BY <1>1 DEF Run, WorkLeft, Work
<1>3. \A n, v : Advance(c, v, n) => call'[c].pc = n /\ call'[c].vals = v
  BY <1>1 DEF Advance, Run
<1>4. \A v, how : Return(c, v, how) => call'[c].pc = "done" /\ call'[c].vals = v
  BY <1>1 DEF Return, Run
<1>5. \A how, r : Leave(c, how, r) => call'[c].pc = "done" /\ call'[c].vals = call[c].vals
  BY <1>1 DEF Leave, Run
<1>6. \A how : Break(c, how) => call'[c].pc = "done" /\ call'[c].vals = Blank
  BY <1>1 DEF Break, Run
<1>. QED
  BY <1>2, <1>3, <1>4, <1>5, <1>6

\* A step of a call that ends it, by whatever way, is a step down.
LEMMA EndingGetsOn ==
  ASSUME IInv, IInv', NEW c \in Call, Active(c), call'[c].pc = "done"
  PROVE  WorkLeft(c)' < WorkLeft(c)
<1>1. call[c] \in Run /\ call'[c] \in Run
  BY DEF IInv, StateOK
<1>2. call[c].vals.attempts \in Nat /\ call'[c].vals.attempts \in Nat
  BY <1>1 DEF Run, Channels
<1>3. call[c].pc \in Node \cup {"resume", "estimate", "run", "put"}
  BY <1>1 DEF Run, Active
<1>. QED
  BY <1>2, <1>3, EndsGoDown DEF WorkLeft, Work

\* A step that leads from pc with a attempts to n with b attempts.
LEMMA EdgeGetsOn ==
  ASSUME NEW c \in Call,
         Work(call'[c].pc, call'[c].vals.attempts) < Work(call[c].pc, call[c].vals.attempts)
  PROVE  WorkLeft(c)' < WorkLeft(c)
  BY DEF WorkLeft, Work

\* The nodes up to the validator.
LEMMA WritingGetsOn ==
  ASSUME IInv, NEW c \in Call, Active(c),
         GuardrailsIn(c) \/ LoadSchema(c) \/ Understand(c) \/ GenerateSql(c) \/ Validate(c)
  PROVE  WorkLeft(c)' < WorkLeft(c)
<1>. DEFINE v == call[c].vals
            a == v.attempts
<1>1. v \in Channels /\ a \in Nat
  BY WhereItStands DEF Channels
<1>2. CASE GuardrailsIn(c)
  <2>1. PICK b \in BOOLEAN : Advance(c, [v EXCEPT !.blocked = b],
                                     RouteAfterInputGuardrail([v EXCEPT !.blocked = b]))
    BY <1>2 DEF GuardrailsIn
  <2>2. call'[c].vals.attempts = a /\ call'[c].pc \in {"fail", "load_schema"}
    BY <1>1, <2>1, WhereItStands DEF RouteAfterInputGuardrail, Channels
  <2>3. call[c].pc = "guardrails_in"
    BY <1>2 DEF GuardrailsIn
  <2>. QED
    BY <1>1, <2>2, <2>3, EdgesGoDown, EdgeGetsOn
<1>3. CASE LoadSchema(c)
  <2>1. call[c].pc = "load_schema" /\ call'[c].pc = "understand" /\ call'[c].vals = v
    BY <1>3, WhereItStands DEF LoadSchema
  <2>. QED
    BY <1>1, <2>1, EdgesGoDown, EdgeGetsOn
<1>4. CASE Understand(c)
  <2>1. PICK f \in BOOLEAN : Advance(c, [v EXCEPT !.planFlag = f], "generate_sql")
    BY <1>4 DEF Understand
  <2>2. call[c].pc = "understand" /\ call'[c].pc = "generate_sql" /\ call'[c].vals.attempts = a
    BY <1>1, <1>4, <2>1, WhereItStands DEF Understand, Channels
  <2>. QED
    BY <1>1, <2>2, EdgesGoDown, EdgeGetsOn
<1>5. CASE GenerateSql(c)
  <2>1. PICK o \in Output : Advance(c, Generated(v, o), "validate")
    BY <1>5 DEF GenerateSql
  <2>2. Generated(v, o).attempts = a + 1
    BY <1>1 DEF Generated, Channels
  <2>3. call'[c].pc = "validate" /\ call'[c].vals = Generated(v, o)
    BY <2>1, WhereItStands
  <2>4. call[c].pc = "generate_sql"
    BY <1>5 DEF GenerateSql
  <2>. QED
    BY <1>1, <2>2, <2>3, <2>4, EdgesGoDown, EdgeGetsOn
<1>6. CASE Validate(c)
  <2>1. Advance(c, Validated(v), RouteAfterValidate(Validated(v)))
    BY <1>6 DEF Validate
  <2>2. Validated(v).attempts = a
    BY <1>1 DEF Validated, Channels
  <2>3. /\ call[c].pc = "validate" /\ call'[c].vals.attempts = a
        /\ call'[c].pc = RouteAfterValidate(Validated(v))
    BY <1>6, <2>1, <2>2, WhereItStands DEF Validate
  <2>4. \/ call'[c].pc \in {"execute", "fail"}
        \/ call'[c].pc = "generate_sql" /\ a <= MaxSqlRetries
    BY <2>2, <2>3 DEF RouteAfterValidate, MayRetry
  <2>. QED
    BY <1>1, <2>3, <2>4, EdgesGoDown, EdgeGetsOn
<1>. QED
  BY <1>2, <1>3, <1>4, <1>5, <1>6

\* A refused or failed statement sends the run back only within the budget.
LEMMA RouteAfterExecuteGoesOn ==
  ASSUME NEW v \in Channels, ~v.needsApproval
  PROVE  \/ RouteAfterExecute(v) \in {"analyze", "fail"}
         \/ RouteAfterExecute(v) = "generate_sql" /\ v.attempts <= MaxSqlRetries
  BY DEF RouteAfterExecute, MayRetry

\* The parts of the executor.
LEMMA ExecutingGetsOn ==
  ASSUME IInv, NEW c \in Call, Active(c),
         LookUp(c) \/ RunQuery(c) \/ PutCache(c)
  PROVE  WorkLeft(c)' < WorkLeft(c)
<1>. DEFINE v == call[c].vals
            a == v.attempts
<1>0. call[c] \in Run /\ v \in Channels /\ a \in Nat
  BY WhereItStands DEF Channels, IInv, StateOK
<1>1. call[c].pc \in {"execute", "run", "put"} => v.sql \in Statement
  BY Running DEF NodeInv, NodeOf, Node
<1>2. ASSUME NEW w \in Channels, ~w.needsApproval, w.attempts = a,
             Advance(c, w, RouteAfterExecute(w)), call[c].pc \in {"execute", "run", "put"}
      PROVE  WorkLeft(c)' < WorkLeft(c)
  <2>1. call'[c].vals.attempts = a /\ call'[c].pc = RouteAfterExecute(w)
    BY <1>2, WhereItStands
  <2>. QED
    BY <1>0, <1>2, <2>1, RouteAfterExecuteGoesOn, EdgesGoDown, EdgeGetsOn
<1>3. ASSUME NEW n, call' = [call EXCEPT ![c].pc = n]
      PROVE  call'[c].pc = n /\ call'[c].vals = v
  BY <1>0, <1>3 DEF IInv, StateOK, Run
<1>4. CASE LookUp(c)
  <2>1. CacheHit(v) \in Channels /\ ~CacheHit(v).needsApproval /\ CacheHit(v).attempts = a
    BY <1>0, <1>1, <1>4 DEF CacheHit, Channels, LookUp
  <2>2. CASE Advance(c, CacheHit(v), RouteAfterExecute(CacheHit(v)))
    BY <1>2, <1>4, <2>1, <2>2 DEF LookUp
  <2>3. CASE call' = [call EXCEPT ![c].pc = "estimate"]
    BY <1>0, <1>3, <1>4, <2>3, EdgesGoDown, EdgeGetsOn DEF LookUp
  <2>. QED
    BY <1>4, <2>2, <2>3 DEF LookUp
<1>5. CASE RunQuery(c)
  <2>1. /\ ExecutionFailed(v) \in Channels /\ ~ExecutionFailed(v).needsApproval
        /\ ExecutionFailed(v).attempts = a
    BY <1>0 DEF ExecutionFailed, Channels, Error
  <2>2. CASE Advance(c, ExecutionFailed(v), RouteAfterExecute(ExecutionFailed(v)))
    BY <1>2, <1>5, <2>1, <2>2 DEF RunQuery
  <2>3. CASE call' = [call EXCEPT ![c].pc = "put"]
    BY <1>0, <1>3, <1>5, <2>3, EdgesGoDown, EdgeGetsOn DEF RunQuery
  <2>. QED
    BY <1>5, <2>2, <2>3 DEF RunQuery
<1>6. CASE PutCache(c)
  <2>1. Executed(v) \in Channels /\ ~Executed(v).needsApproval /\ Executed(v).attempts = a
    BY <1>0, <1>1, <1>6 DEF Executed, Channels, PutCache
  <2>. QED
    BY <1>2, <1>6, <2>1 DEF PutCache
<1>. QED
  BY <1>4, <1>5, <1>6

LEMMA EstimateGetsOn ==
  ASSUME IInv, IInv', NEW c \in Call, Active(c), Estimate(c)
  PROVE  WorkLeft(c)' < WorkLeft(c)
<1>0. call[c] \in Run /\ call[c].vals \in Channels /\ call[c].vals.attempts \in Nat
  BY WhereItStands DEF Channels, IInv, StateOK
<1>1. \/ call'[c].pc = "done"
      \/ call'[c].pc = "run" /\ call'[c].vals = call[c].vals
  <2>1. ASSUME NEW f, call' = [call EXCEPT ![c].pc = "run", ![c].flagged = f]
        PROVE  call'[c].pc = "run" /\ call'[c].vals = call[c].vals
    BY <1>0, <2>1 DEF IInv, StateOK, Run
  <2>. QED
    BY <2>1, WhereItStands DEF Estimate
<1>2. CASE call'[c].pc = "run" /\ call'[c].vals = call[c].vals
  BY <1>0, <1>2, EdgesGoDown, EdgeGetsOn DEF Estimate
<1>. QED
  BY <1>1, <1>2, EndingGetsOn

\* The nodes that follow the rows.
LEMMA AnsweringGetsOn ==
  ASSUME IInv, NEW c \in Call, Active(c),
         Analyze(c) \/ GenerateResponse(c) \/ GuardrailsOut(c)
  PROVE  WorkLeft(c)' < WorkLeft(c)
<1>1. call[c].vals.attempts \in Nat /\ call'[c].vals = call[c].vals
  BY WhereItStands DEF Channels, Analyze, GenerateResponse, GuardrailsOut
<1>2. \/ call[c].pc = "analyze" /\ call'[c].pc = "generate_response"
      \/ call[c].pc = "generate_response" /\ call'[c].pc = "guardrails_out"
      \/ call[c].pc = "guardrails_out" /\ call'[c].pc = "finalize"
  BY WhereItStands DEF Analyze, GenerateResponse, GuardrailsOut
<1>. QED
  BY <1>1, <1>2, EdgesGoDown, EdgeGetsOn

\* A decision takes the run up at whatever the checkpoint names.
LEMMA ResumeGetsOn ==
  ASSUME IInv, IInv', NEW c \in Call, Active(c), Resume(c)
  PROVE  WorkLeft(c)' < WorkLeft(c)
<1>. DEFINE k == ckpt[call[c].thread]
<1>0. /\ call[c].pc = "resume" /\ call[c] \in Run /\ call[c].vals.attempts \in Nat
      /\ call[c].thread \in Thread
  BY DEF Resume, IInv, StateOK, Run, Channels, CallInv
<1>1. k \in Checkpoint /\ k.next # "none" /\ k.vals.attempts \in Nat
  BY <1>0 DEF IInv, StateOK, CallInv, Checkpoint, Channels
<1>2. CASE k.next = "end"
  <2>1. call'[c].pc = "done"
    BY <1>2, WhereItStands DEF Resume
  <2>. QED
    BY <2>1, EndingGetsOn
<1>3. CASE k.next # "end"
  <2>1. call' = [call EXCEPT ![c].pc = k.next, ![c].vals = k.vals]
    BY <1>3 DEF Resume
  <2>2. call'[c].pc = k.next /\ call'[c].vals = k.vals
    BY <1>0, <2>1 DEF IInv, StateOK, Run
  <2>3. k.next \in Node
    BY <1>1, <1>3 DEF Checkpoint
  <2>4. Work(k.next, k.vals.attempts) < Work("resume", call[c].vals.attempts)
    BY <1>0, <1>1, <2>3, EndsGoDown
  <2>. QED
    BY <1>0, <2>2, <2>4, EdgeGetsOn
<1>. QED
  BY <1>2, <1>3

LEMMA StepGetsOn ==
  ASSUME IInv, IInv', [Next]_vars, NEW c \in Call, Active(c), call'[c] # call[c]
  PROVE  WorkLeft(c)' < WorkLeft(c)
<1>1. Client(c) \/ CallStep(c)
  <2>1. ~UNCHANGED vars /\ ~\E s \in Statement : Expire(s)
    BY DEF vars, Expire
  <2>2. PICK d \in Call : Client(d) \/ CallStep(d)
    BY <2>1 DEF Next
  <2>. QED
    BY <2>2, OthersUntouched DEF IInv
<1>2. CASE Client(c)
  <2>1. Abandon(c)
    BY <1>2 DEF Client, Ask, Decide, Active
  <2>. QED
    BY <2>1, WhereItStands, EndingGetsOn DEF Abandon
<1>3. CASE Finalize(c) \/ Fail(c) \/ Raise(c)
  BY <1>3, WhereItStands, EndingGetsOn DEF Finalize, Fail, Raise
<1>4. CASE CallStep(c)
  BY <1>3, <1>4, ResumeGetsOn, WritingGetsOn, ExecutingGetsOn, EstimateGetsOn, AnsweringGetsOn
     DEF CallStep
<1>. QED
  BY <1>1, <1>2, <1>4

\* For any retry limit, every step a call takes leaves it less to do: the
\* bound behind EveryCallReturns, also with calls that overlap.
THEOREM CallsGetOnHolds == Spec => CallsGetOn
<1>1. IInv /\ IInv' /\ [Next]_vars =>
        [\A c \in Call : Active(c) /\ call'[c] # call[c] => WorkLeft(c)' < WorkLeft(c)]_vars
  BY StepGetsOn
<1>. QED
  BY Invariance, <1>1, PTL DEF Spec, CallsGetOn

\* The work a call has left never exceeds the bound CallsGetOn speaks of.
THEOREM WorkIsBounded ==
  Spec => [](\A c \in Call : WorkLeft(c) \in 0 .. 11 * (MaxSqlRetries + 2))
<1>1. ASSUME IInv, NEW c \in Call
      PROVE  WorkLeft(c) \in 0 .. 11 * (MaxSqlRetries + 2)
  <2>. DEFINE pc == call[c].pc
              g == GenerationsLeft(pc, call[c].vals.attempts)
  <2>1. /\ pc \in Node \cup {"idle", "resume", "estimate", "run", "put", "done"}
        /\ call[c].vals.attempts \in Nat
    BY <1>1 DEF IInv, StateOK, Run, Channels
  <2>2. pc \notin {"idle", "resume"} => g \in 0 .. MaxSqlRetries + 1
    BY <2>1, RetriesAssumption DEF GenerationsLeft
  <2>3. pc \notin {"idle", "resume"} => StageRank[pc] \in 0 .. 10
    BY <2>1, StageRanks DEF Node
  <2>4. pc \in {"idle", "resume"} => g \in 0 .. MaxSqlRetries + 2 /\ StageRank[pc] = 0
    BY RetriesAssumption DEF GenerationsLeft, StageRank
  <2>. HIDE DEF pc, g
  <2>5. 11 * g + StageRank[pc] \in 0 .. 11 * (MaxSqlRetries + 2)
    BY <2>2, <2>3, <2>4, RetriesAssumption
  <2>. QED
    BY <2>5 DEF WorkLeft, pc, g
<1>2. IInv => \A c \in Call : WorkLeft(c) \in 0 .. 11 * (MaxSqlRetries + 2)
  BY <1>1
<1>. QED
  BY Invariance, <1>2, PTL

-----------------------------------------------------------------------------
(***************************************************************************)
(* Replies: what the result channels of a thread hold was returned by a    *)
(* question that ran to its end on it.                                     *)
(***************************************************************************)

\* r, if it is a result, was returned on thread t.
ReturnedOn(t, r) ==
    r # None => \E d \in Call : /\ call[d].thread = t
                                /\ call[d].outcome \in {"answered", "failed"}
                                /\ call[d].reply = r

OriginOf(c) ==
    /\ ReturnedOn(call[c].thread, call[c].vals.result)
    /\ ReturnedOn(call[c].thread, call[c].reply)
    /\ call[c].pc \in {"idle", "resume"} => call[c].vals.result = None
    /\ call[c].pc # "done" => call[c].reply = None

OriginInv ==
    /\ \A t \in Thread : ReturnedOn(t, ckpt[t].vals.result)
    /\ \A c \in Call : OriginOf(c)

\* A call that has returned stays as it is.
LEMMA ReturnedStays ==
  ASSUME IInv, [Next]_vars, NEW c \in Call, call[c].pc = "done"
  PROVE  call'[c] = call[c]
<1>1. CASE UNCHANGED vars
  BY <1>1 DEF vars
<1>2. CASE \E s \in Statement : Expire(s)
  BY <1>2 DEF Expire
<1>3. ASSUME NEW d \in Call, Client(d) \/ CallStep(d) PROVE call'[c] = call[c]
  <2>1. CASE d = c
    <3>1. ~Client(c)
      BY DEF Client, Ask, Decide, Abandon, Runs, Node
    <3>2. ~CallStep(c)
      BY DEF CallStep, Resume, GuardrailsIn, LoadSchema, Understand, GenerateSql, Validate,
             LookUp, Estimate, RunQuery, PutCache, Analyze, GenerateResponse, GuardrailsOut,
             Finalize, Fail, Raise, RaisingNode
    <3>. QED
      BY <1>3, <2>1, <3>1, <3>2
  <2>2. CASE d # c
    BY <1>3, <2>2, OthersUntouched DEF IInv
  <2>. QED
    BY <2>1, <2>2
<1>. QED
  BY <1>1, <1>2, <1>3 DEF Next

\* What was once returned on a thread remains so.
LEMMA ReturnedOnStays ==
  ASSUME IInv, [Next]_vars, NEW t, NEW r, ReturnedOn(t, r)
  PROVE  ReturnedOn(t, r)'
<1>1. CASE r = None
  BY <1>1 DEF ReturnedOn
<1>2. CASE r # None
  <2>1. PICK d \in Call : /\ call[d].thread = t /\ call[d].reply = r
                          /\ call[d].outcome \in {"answered", "failed"}
    BY <1>2 DEF ReturnedOn
  <2>2. call'[d] = call[d]
    BY <2>1, ReturnedStays DEF IInv, CallInv
  <2>. QED
    BY <2>1, <2>2 DEF ReturnedOn
<1>. QED
  BY <1>1, <1>2

\* A step of call c is fine when it is for c, and when a checkpoint it writes
\* holds the result of c's own channels.
LEMMA StepOrigin ==
  ASSUME IInv, OriginInv, [Next]_vars, NEW c \in Call,
         \A d \in Call \ {c} : call'[d] = call[d],
         OriginOf(c)',
         \A u \in Thread :
           \/ ckpt'[u].vals.result = ckpt[u].vals.result
           \/ u = call'[c].thread /\ ckpt'[u].vals.result = call'[c].vals.result
  PROVE  OriginInv'
<1>1. \A x, r : ReturnedOn(x, r) => ReturnedOn(x, r)'
  BY ReturnedOnStays
<1>2. ASSUME NEW u \in Thread PROVE ReturnedOn(u, ckpt[u].vals.result)'
  <2>1. CASE ckpt'[u].vals.result = ckpt[u].vals.result
    <3>1. ReturnedOn(u, ckpt[u].vals.result)
      BY DEF OriginInv
    <3>. QED
      BY <1>1, <2>1, <3>1 DEF ReturnedOn
  <2>2. CASE u = call'[c].thread /\ ckpt'[u].vals.result = call'[c].vals.result
    BY <2>2 DEF OriginOf, ReturnedOn
  <2>. QED
    BY <2>1, <2>2
<1>3. ASSUME NEW d \in Call PROVE OriginOf(d)'
  <2>1. CASE d = c
    BY <2>1
  <2>2. CASE d # c
    <3>1. call'[d] = call[d] /\ OriginOf(d)
      BY <2>2 DEF OriginInv
    <3>. QED
      BY <1>1, <3>1 DEF OriginOf, ReturnedOn
  <2>. QED
    BY <2>1, <2>2
<1>. QED
  BY <1>2, <1>3 DEF OriginInv

\* The ways a step of a running call ends, with the result channel left alone.
LEMMA EndingOrigin ==
  ASSUME IInv, OriginInv, [Next]_vars, NEW c \in Call, Active(c),
         \A d \in Call \ {c} : call'[d] = call[d]
  PROVE  /\ \A n \in Node : \A v : Advance(c, v, n) /\ v.result = call[c].vals.result => OriginInv'
         /\ \A v, how : Return(c, v, how) /\ v.result = call[c].vals.result => OriginInv'
         /\ \A how, r : Leave(c, how, r) /\ ReturnedOn(call[c].thread, r) => OriginInv'
         /\ \A how : Break(c, how) => OriginInv'
         /\ \A pc \in Node \cup {"estimate", "run", "put"} : \A f :
              call' = [call EXCEPT ![c].pc = pc, ![c].flagged = f] /\ ckpt' = ckpt => OriginInv'
<1>0. /\ call[c] \in Run /\ call[c].thread \in Thread /\ call \in [Call -> Run]
      /\ ckpt \in [Thread -> Checkpoint]
      /\ OriginOf(c)
  BY DEF IInv, StateOK, CallInv, OriginInv, Active
<1>1. \A x, r : ReturnedOn(x, r) => ReturnedOn(x, r)'
  BY ReturnedOnStays
<1>2. call[c].reply = None /\ ReturnedOn(call[c].thread, call[c].vals.result)
  BY <1>0 DEF OriginOf, Active
<1>3. ASSUME NEW n \in Node, NEW v, Advance(c, v, n), v.result = call[c].vals.result
      PROVE  OriginInv'
  <2>1. /\ call'[c].pc = n /\ call'[c].vals = v /\ call'[c].thread = call[c].thread
        /\ call'[c].reply = None
        /\ ckpt' = [ckpt EXCEPT ![call[c].thread] = [next |-> n, vals |-> v]]
    BY <1>0, <1>2, <1>3 DEF Advance, Run
  <2>2. OriginOf(c)'
    BY <1>1, <1>2, <1>3, <2>1 DEF OriginOf, ReturnedOn, Node
  <2>. QED
    BY <1>0, <2>1, <2>2, StepOrigin
<1>4. ASSUME NEW v, NEW how, Return(c, v, how), v.result = call[c].vals.result
      PROVE  OriginInv'
  <2>1. /\ call'[c].pc = "done" /\ call'[c].vals = v /\ call'[c].thread = call[c].thread
        /\ call'[c].reply = v.result
        /\ ckpt' = [ckpt EXCEPT ![call[c].thread] = [next |-> "end", vals |-> v]]
    BY <1>0, <1>4 DEF Return, Run
  <2>2. OriginOf(c)'
    BY <1>1, <1>2, <1>4, <2>1 DEF OriginOf, ReturnedOn
  <2>. QED
    BY <1>0, <2>1, <2>2, StepOrigin
<1>5. ASSUME NEW how, NEW r, Leave(c, how, r), ReturnedOn(call[c].thread, r)
      PROVE  OriginInv'
  <2>1. /\ call'[c].pc = "done" /\ call'[c].vals = call[c].vals
        /\ call'[c].thread = call[c].thread /\ call'[c].reply = r /\ ckpt' = ckpt
    BY <1>0, <1>5 DEF Leave, Run
  <2>2. OriginOf(c)'
    BY <1>1, <1>2, <1>5, <2>1 DEF OriginOf, ReturnedOn
  <2>. QED
    BY <2>1, <2>2, StepOrigin
<1>6. ASSUME NEW how, Break(c, how)
      PROVE  OriginInv'
  <2>1. /\ call'[c].pc = "done" /\ call'[c].vals.result = None
        /\ call'[c].reply = None /\ ckpt' = ckpt
    BY <1>0, <1>2, <1>6 DEF Break, Run, Blank
  <2>2. OriginOf(c)'
    BY <2>1 DEF OriginOf, ReturnedOn
  <2>. QED
    BY <2>1, <2>2, StepOrigin
<1>7. ASSUME NEW pc \in Node \cup {"estimate", "run", "put"}, NEW f,
             call' = [call EXCEPT ![c].pc = pc, ![c].flagged = f], ckpt' = ckpt
      PROVE  OriginInv'
  <2>1. /\ call'[c].pc = pc /\ call'[c].vals = call[c].vals
        /\ call'[c].thread = call[c].thread /\ call'[c].reply = None
    BY <1>0, <1>2, <1>7 DEF Run
  <2>2. OriginOf(c)'
    BY <1>1, <1>2, <2>1 DEF OriginOf, ReturnedOn, Node
  <2>. QED
    BY <1>7, <2>1, <2>2, StepOrigin
<1>. QED
  BY <1>3, <1>4, <1>5, <1>6, <1>7

\* No node but the last touches the result channel.
LEMMA NodesLeaveResult ==
  ASSUME NEW v \in Channels
  PROVE  /\ \A b \in BOOLEAN : /\ [v EXCEPT !.blocked = b].result = v.result
                               /\ [v EXCEPT !.planFlag = b].result = v.result
         /\ \A o : Generated(v, o).result = v.result
         /\ \A q : StartQuestion(v, q).result = v.result
         /\ Validated(v).result = v.result /\ CacheHit(v).result = v.result
         /\ Declined(v).result = v.result /\ ExecutionFailed(v).result = v.result
         /\ Executed(v).result = v.result
  BY DEF Channels, Generated, StartQuestion, Validated, CacheHit, Declined, ExecutionFailed,
         Executed

\* Where the routers lead.
LEMMA RoutersLeadToNodes ==
  ASSUME NEW v \in Channels
  PROVE  /\ RouteAfterInputGuardrail(v) \in Node
         /\ RouteAfterValidate(v) \in Node
         /\ ~v.needsApproval => RouteAfterExecute(v) \in Node
  BY DEF RouteAfterInputGuardrail, RouteAfterValidate, RouteAfterExecute, Node

LEMMA QuietOrigin ==
  ASSUME IInv, OriginInv, [Next]_vars, NEW c \in Call, Active(c),
         \A d \in Call \ {c} : call'[d] = call[d],
         \/ GuardrailsIn(c) \/ LoadSchema(c) \/ Understand(c) \/ GenerateSql(c)
         \/ Validate(c) \/ Analyze(c) \/ GenerateResponse(c) \/ GuardrailsOut(c)
         \/ Raise(c) \/ Abandon(c)
  PROVE  OriginInv'
<1>. DEFINE v == call[c].vals
<1>1. v \in Channels
  BY WhereItStands
<1>2. CASE GuardrailsIn(c)
  <2>1. PICK b \in BOOLEAN : Advance(c, [v EXCEPT !.blocked = b],
                                     RouteAfterInputGuardrail([v EXCEPT !.blocked = b]))
    BY <1>2 DEF GuardrailsIn
  <2>2. [v EXCEPT !.blocked = b] \in Channels
    BY <1>1 DEF Channels
  <2>3. RouteAfterInputGuardrail([v EXCEPT !.blocked = b]) \in Node
    BY <2>2, RoutersLeadToNodes
  <2>4. [v EXCEPT !.blocked = b].result = v.result
    BY <1>1, NodesLeaveResult
  <2>. QED
    BY <2>1, <2>3, <2>4, EndingOrigin
<1>3. CASE Understand(c)
  <2>1. PICK f \in BOOLEAN : Advance(c, [v EXCEPT !.planFlag = f], "generate_sql")
    BY <1>3 DEF Understand
  <2>2. [v EXCEPT !.planFlag = f].result = v.result /\ "generate_sql" \in Node
    BY <1>1, NodesLeaveResult DEF Node
  <2>. QED
    BY <2>1, <2>2, EndingOrigin
<1>4. CASE GenerateSql(c)
  <2>1. PICK o \in Output : Advance(c, Generated(v, o), "validate")
    BY <1>4 DEF GenerateSql
  <2>2. Generated(v, o).result = v.result /\ "validate" \in Node
    BY <1>1, NodesLeaveResult DEF Node
  <2>. QED
    BY <2>1, <2>2, EndingOrigin
<1>5. CASE Validate(c)
  <2>1. Advance(c, Validated(v), RouteAfterValidate(Validated(v)))
    BY <1>5 DEF Validate
  <2>2. RouteAfterValidate(Validated(v)) \in Node
    BY DEF RouteAfterValidate, Node
  <2>3. Validated(v).result = v.result
    BY <1>1, NodesLeaveResult
  <2>. QED
    BY <2>1, <2>2, <2>3, EndingOrigin
<1>6. CASE LoadSchema(c) \/ Analyze(c) \/ GenerateResponse(c) \/ GuardrailsOut(c)
  <2>1. PICK n \in Node : Advance(c, v, n)
    BY <1>6 DEF LoadSchema, Analyze, GenerateResponse, GuardrailsOut, Node
  <2>. QED
    BY <2>1, EndingOrigin
<1>7. CASE Raise(c) \/ Abandon(c)
  <2>1. \E how : Break(c, how)
    BY <1>7 DEF Raise, Abandon
  <2>. QED
    BY <2>1, EndingOrigin
<1>. QED
  BY <1>2, <1>3, <1>4, <1>5, <1>6, <1>7

LEMMA ExecutorOrigin ==
  ASSUME IInv, OriginInv, [Next]_vars, NEW c \in Call, Active(c),
         \A d \in Call \ {c} : call'[d] = call[d],
         LookUp(c) \/ Estimate(c) \/ RunQuery(c) \/ PutCache(c)
  PROVE  OriginInv'
<1>. DEFINE v == call[c].vals
<1>0. call[c] \in Run /\ v \in Channels /\ call \in [Call -> Run]
  BY WhereItStands DEF IInv, StateOK
<1>1. ASSUME NEW pc \in {"estimate", "run", "put"},
             call' = [call EXCEPT ![c].pc = pc], ckpt' = ckpt
      PROVE  OriginInv'
  <2>1. [call[c] EXCEPT !.pc = pc] = [call[c] EXCEPT !.pc = pc, !.flagged = call[c].flagged]
    BY <1>0 DEF Run
  <2>2. call' = [call EXCEPT ![c].pc = pc, ![c].flagged = call[c].flagged]
    BY <1>0, <1>1, <2>1
  <2>3. \E f : call' = [call EXCEPT ![c].pc = pc, ![c].flagged = f]
    BY <2>2
  <2>. QED
    BY <1>1, <2>3, EndingOrigin
<1>2. ASSUME NEW w, w.result = v.result, ~w.needsApproval, Advance(c, w, RouteAfterExecute(w))
      PROVE  OriginInv'
  <2>1. RouteAfterExecute(w) \in Node
    BY <1>2 DEF RouteAfterExecute, Node
  <2>. QED
    BY <1>2, <2>1, EndingOrigin
<1>3. CASE LookUp(c)
  <2>1. CacheHit(v).result = v.result /\ ~CacheHit(v).needsApproval
    BY <1>0, NodesLeaveResult DEF CacheHit, Channels
  <2>. QED
    BY <1>1, <1>2, <1>3, <2>1 DEF LookUp
<1>4. CASE Estimate(c)
  <2>1. ReturnedOn(call[c].thread, v.result)
    BY DEF OriginInv, OriginOf
  <2>2. Declined(v).result = v.result
    BY <1>0, NodesLeaveResult
  <2>3. \/ \E how : Leave(c, how, v.result)
        \/ \E how : Return(c, Declined(v), how)
        \/ \E f : call' = [call EXCEPT ![c].pc = "run", ![c].flagged = f] /\ ckpt' = ckpt
    BY <1>4 DEF Estimate
  <2>. QED
    BY <2>1, <2>2, <2>3, EndingOrigin
<1>5. CASE RunQuery(c)
  <2>1. ExecutionFailed(v).result = v.result /\ ~ExecutionFailed(v).needsApproval
    BY <1>0, NodesLeaveResult DEF ExecutionFailed, Channels
  <2>. QED
    BY <1>1, <1>2, <1>5, <2>1 DEF RunQuery
<1>6. CASE PutCache(c)
  <2>1. Executed(v).result = v.result /\ ~Executed(v).needsApproval
    BY <1>0, NodesLeaveResult DEF Executed, Channels
  <2>. QED
    BY <1>2, <1>6, <2>1 DEF PutCache
<1>. QED
  BY <1>3, <1>4, <1>5, <1>6

\* A finished question is the origin of its own result.
LEMMA FinishingOrigin ==
  ASSUME IInv, OriginInv, [Next]_vars, NEW c \in Call, Active(c),
         \A d \in Call \ {c} : call'[d] = call[d],
         Finalize(c) \/ Fail(c)
  PROVE  OriginInv'
<1>0. call[c] \in Run /\ call[c].thread \in Thread /\ call \in [Call -> Run]
      /\ ckpt \in [Thread -> Checkpoint]
  BY DEF IInv, StateOK, CallInv
<1>1. PICK v : Return(c, v, "answered") \/ Return(c, v, "failed")
  BY DEF Finalize, Fail
<1>2. /\ call'[c].pc = "done" /\ call'[c].vals = v /\ call'[c].thread = call[c].thread
      /\ call'[c].reply = v.result /\ call'[c].outcome \in {"answered", "failed"}
      /\ ckpt' = [ckpt EXCEPT ![call[c].thread] = [next |-> "end", vals |-> v]]
  BY <1>0, <1>1 DEF Return, Run
<1>3. OriginOf(c)'
  BY <1>2 DEF OriginOf, ReturnedOn
<1>. QED
  BY <1>0, <1>2, <1>3, StepOrigin

\* A question and a decision take over what the checkpoint of their thread holds.
LEMMA TakingOverOrigin ==
  ASSUME IInv, OriginInv, [Next]_vars, NEW c \in Call,
         \A d \in Call \ {c} : call'[d] = call[d],
         \/ \E t \in Thread : Ask(c, t) \/ \E a \in {"approve", "decline"} : Decide(c, t, a)
         \/ Resume(c)
  PROVE  OriginInv'
<1>0. call[c] \in Run /\ call \in [Call -> Run] /\ ckpt \in [Thread -> Checkpoint]
  BY DEF IInv, StateOK
<1>1. \A x, r : ReturnedOn(x, r) => ReturnedOn(x, r)'
  BY ReturnedOnStays
<1>2. OriginOf(c) /\ \A t \in Thread : ReturnedOn(t, ckpt[t].vals.result)
  BY DEF OriginInv
<1>3. ASSUME NEW t \in Thread, Ask(c, t) PROVE OriginInv'
  <2>. DEFINE v == StartQuestion(ckpt[t].vals, c)
  <2>1. v.result = ckpt[t].vals.result
    BY <1>0, NodesLeaveResult DEF Checkpoint
  <2>2. /\ call[c].pc = "idle" /\ call'[c].pc = "guardrails_in" /\ call'[c].thread = t
        /\ call'[c].vals = v /\ call'[c].reply = call[c].reply
        /\ ckpt' = [ckpt EXCEPT ![t] = [next |-> "guardrails_in", vals |-> v]]
    BY <1>0, <1>3 DEF Ask, Run
  <2>. HIDE DEF v
  <2>3. OriginOf(c)'
    BY <1>1, <1>2, <2>1, <2>2 DEF OriginOf, ReturnedOn
  <2>. QED
    BY <1>0, <2>2, <2>3, StepOrigin
<1>4. ASSUME NEW t \in Thread, NEW a \in {"approve", "decline"}, Decide(c, t, a)
      PROVE  OriginInv'
  <2>1. /\ call[c].pc = "idle" /\ call'[c].pc = "resume" /\ call'[c].thread = t
        /\ call'[c].vals = call[c].vals /\ call'[c].reply = call[c].reply
        /\ ckpt' = ckpt
    BY <1>0, <1>4 DEF Decide, Run
  <2>2. OriginOf(c)'
    BY <1>2, <2>1 DEF OriginOf, ReturnedOn
  <2>. QED
    BY <2>1, <2>2, StepOrigin
<1>5. CASE Resume(c)
  <2>. DEFINE k == ckpt[call[c].thread]
  <2>1. /\ call[c].pc = "resume" /\ call[c].thread \in Thread /\ k \in Checkpoint
        /\ k.next # "none"
    BY <1>0, <1>5 DEF Resume, IInv, CallInv, Active
  <2>2. ReturnedOn(call[c].thread, k.vals.result)
    BY <1>2, <2>1
  <2>3. CASE Leave(c, "replayed", k.vals.result)
    <3>1. Active(c)
      BY <2>1 DEF Active
    <3>. QED
      BY <2>2, <2>3, <3>1, EndingOrigin
  <2>4. CASE k.next # "end" /\ call' = [call EXCEPT ![c].pc = k.next, ![c].vals = k.vals] /\ ckpt' = ckpt
    <3>1. /\ call'[c].pc = k.next /\ call'[c].vals = k.vals
          /\ call'[c].thread = call[c].thread /\ call'[c].reply = call[c].reply
      BY <1>0, <2>4 DEF Run
    <3>2. k.next \in Node
      BY <2>1, <2>4 DEF Checkpoint
    <3>. HIDE DEF k
    <3>3. OriginOf(c)'
      BY <1>1, <1>2, <2>1, <2>2, <3>1, <3>2 DEF OriginOf, ReturnedOn, Node
    <3>. QED
      BY <2>4, <3>1, <3>3, StepOrigin
  <2>. QED
    BY <1>5, <2>3, <2>4 DEF Resume
<1>. QED
  BY <1>3, <1>4, <1>5

LEMMA NextOrigin == IInv /\ OriginInv /\ [Next]_vars => OriginInv'
<1> SUFFICES ASSUME IInv, OriginInv, [Next]_vars PROVE OriginInv'
  OBVIOUS
<1>1. CASE UNCHANGED vars \/ \E s \in Statement : Expire(s)
  <2>1. call' = call /\ ckpt' = ckpt
    BY <1>1 DEF vars, Expire
  <2>. QED
    BY <2>1 DEF OriginInv, OriginOf, ReturnedOn
<1>2. ASSUME NEW c \in Call, Client(c) \/ CallStep(c) PROVE OriginInv'
  <2>1. \A d \in Call \ {c} : call'[d] = call[d]
    BY <1>2, OthersUntouched DEF IInv
  <2>2. CASE \/ \E t \in Thread : Ask(c, t) \/ \E a \in {"approve", "decline"} : Decide(c, t, a)
             \/ Resume(c)
    BY <2>1, <2>2, TakingOverOrigin
  <2>3. CASE Abandon(c)
    <3>1. Active(c)
      BY <2>3 DEF Abandon, Runs, Active, Node
    <3>. QED
      BY <2>1, <2>3, <3>1, QuietOrigin
  <2>4. CASE CallStep(c) /\ ~Resume(c)
    <3>1. Active(c)
      BY <2>4 DEF CallStep, GuardrailsIn, LoadSchema, Understand, GenerateSql, Validate,
             LookUp, Estimate, RunQuery, PutCache, Analyze, GenerateResponse, GuardrailsOut,
             Finalize, Fail, Raise, RaisingNode, Active
    <3>. QED
      BY <2>1, <2>4, <3>1, QuietOrigin, ExecutorOrigin, FinishingOrigin DEF CallStep
  <2>. QED
    BY <1>2, <2>2, <2>3, <2>4 DEF Client
<1>. QED
  BY <1>1, <1>2 DEF Next

\* Whatever a call returns was the result of a question that ran to its end on
\* the same thread, for any number of threads and overlapping calls.
THEOREM RepliesStayOnTheirThreadHolds == Spec => []RepliesStayOnTheirThread
<1>1. Init => OriginInv
  BY DEF Init, OriginInv, OriginOf, ReturnedOn, Blank
<1>2. OriginInv => RepliesStayOnTheirThread
  BY DEF OriginInv, OriginOf, ReturnedOn, RepliesStayOnTheirThread, FinishedOnThreadOf
<1>. QED
  BY Invariance, NextOrigin, <1>1, <1>2, PTL DEF Spec
-----------------------------------------------------------------------------
(***************************************************************************)
(* What two runs refute holds for the first question of a thread: it has   *)
(* its full retry budget, and a paused one returns no other's result. So   *)
(* nothing but the channels of an earlier question is to blame, decisions  *)
(* and overlapping calls least of all.                                     *)
(***************************************************************************)

\* Clients ask on new threads only; decisions may come as they like.
NewThreadsOnly == \A c \in Call, t \in Thread : Ask(c, t) => ckpt[t].next = "none"

\* The attempts are this question's, and so is the result; it fails for a reason.
FirstFits(n, v) ==
    /\ v.attempts = v.generated
    /\ v.result # None => v.result.question = v.question
    /\ n = "fail" => v.blocked \/ v.attempts > MaxSqlRetries

\* What a call has returned.
FirstEnded(c) ==
    /\ call[c].outcome = "paused" => call[c].reply = call[c].vals.result
    /\ call[c].outcome = "failed" /\ call[c].reply.error \in {"validation", "execution"}
         => call[c].vals.attempts > MaxSqlRetries

FirstInv ==
    /\ \A t \in Thread : /\ FirstFits(ckpt[t].next, ckpt[t].vals)
                         /\ ckpt[t].next = "none" => ckpt[t].vals = Blank
    /\ \A c \in Call : FirstFits(call[c].pc, call[c].vals) /\ FirstEnded(c)

\* A step of call c is fine when it is for c and for a checkpoint it writes.
LEMMA StepFirst ==
  ASSUME FirstInv, NEW c \in Call,
         \A d \in Call \ {c} : call'[d] = call[d],
         FirstFits(call'[c].pc, call'[c].vals), FirstEnded(c)',
         \A u \in Thread :
           \/ ckpt'[u] = ckpt[u]
           \/ ckpt'[u].next # "none" /\ FirstFits(ckpt'[u].next, ckpt'[u].vals)
  PROVE  FirstInv'
<1>1. ASSUME NEW u \in Thread
      PROVE  /\ FirstFits(ckpt'[u].next, ckpt'[u].vals)
             /\ ckpt'[u].next = "none" => ckpt'[u].vals = Blank
  BY DEF FirstInv
<1>2. ASSUME NEW d \in Call PROVE FirstFits(call'[d].pc, call'[d].vals) /\ FirstEnded(d)'
  <2>1. CASE d = c
    BY <2>1
  <2>2. CASE d # c
    BY <2>2 DEF FirstInv, FirstEnded
  <2>. QED
    BY <2>1, <2>2
<1>. QED
  BY <1>1, <1>2 DEF FirstInv, FirstFits

\* The ways a step of a running call ends.
LEMMA EndingFirst ==
  ASSUME IInv, FirstInv, NEW c \in Call, Active(c),
         \A d \in Call \ {c} : call'[d] = call[d]
  PROVE  /\ \A n \in Node : \A v : Advance(c, v, n) /\ FirstFits(n, v) => FirstInv'
         /\ \A v, how : Return(c, v, how) /\ FirstFits("end", v) /\ how # "paused"
              /\ (how = "failed" /\ v.result.error \in {"validation", "execution"}
                    => v.attempts > MaxSqlRetries) => FirstInv'
         /\ \A how, r : Leave(c, how, r) /\ how \in {"paused", "replayed"}
              /\ (how = "paused" => r = call[c].vals.result) => FirstInv'
         /\ \A how : Break(c, how) /\ how \notin {"paused", "failed"} => FirstInv'
         /\ \A pc \in Node \cup {"estimate", "run", "put"} : \A f :
              call' = [call EXCEPT ![c].pc = pc, ![c].flagged = f] /\ ckpt' = ckpt /\ pc # "fail"
                => FirstInv'
<1>0. /\ call[c] \in Run /\ call[c].thread \in Thread /\ call \in [Call -> Run]
      /\ ckpt \in [Thread -> Checkpoint]
      /\ FirstFits(call[c].pc, call[c].vals) /\ call[c].outcome = "none"
  BY DEF IInv, StateOK, CallInv, FirstInv, Active
<1>1. ASSUME NEW n \in Node, NEW v, Advance(c, v, n), FirstFits(n, v)
      PROVE  FirstInv'
  <2>1. /\ call'[c].pc = n /\ call'[c].vals = v /\ call'[c].outcome = "none"
        /\ ckpt' = [ckpt EXCEPT ![call[c].thread] = [next |-> n, vals |-> v]]
    BY <1>0, <1>1 DEF Advance, Run
  <2>2. FirstEnded(c)' /\ n # "none"
    BY <2>1 DEF FirstEnded, Node
  <2>3. \A u \in Thread : ckpt'[u] = ckpt[u] \/ (ckpt'[u].next = n /\ ckpt'[u].vals = v)
    BY <1>0, <2>1
  <2>. QED
    BY <1>1, <2>1, <2>2, <2>3, StepFirst
<1>2. ASSUME NEW v, NEW how, Return(c, v, how), FirstFits("end", v), how # "paused",
             how = "failed" /\ v.result.error \in {"validation", "execution"}
               => v.attempts > MaxSqlRetries
      PROVE  FirstInv'
  <2>1. /\ call'[c].pc = "done" /\ call'[c].vals = v /\ call'[c].outcome = how
        /\ call'[c].reply = v.result
        /\ ckpt' = [ckpt EXCEPT ![call[c].thread] = [next |-> "end", vals |-> v]]
    BY <1>0, <1>2 DEF Return, Run
  <2>2. FirstEnded(c)' /\ FirstFits("done", v)
    BY <1>2, <2>1 DEF FirstEnded, FirstFits
  <2>3. \A u \in Thread : ckpt'[u] = ckpt[u] \/ (ckpt'[u].next = "end" /\ ckpt'[u].vals = v)
    BY <1>0, <2>1
  <2>. QED
    BY <1>2, <2>1, <2>2, <2>3, StepFirst
<1>3. ASSUME NEW how, NEW r, Leave(c, how, r), how \in {"paused", "replayed"},
             how = "paused" => r = call[c].vals.result
      PROVE  FirstInv'
  <2>1. /\ call'[c].pc = "done" /\ call'[c].vals = call[c].vals /\ call'[c].outcome = how
        /\ call'[c].reply = r /\ ckpt' = ckpt
    BY <1>0, <1>3 DEF Leave, Run
  <2>2. FirstEnded(c)' /\ FirstFits("done", call[c].vals)
    BY <1>0, <1>3, <2>1 DEF FirstEnded, FirstFits
  <2>. QED
    BY <2>1, <2>2, StepFirst
<1>4. ASSUME NEW how, Break(c, how), how \notin {"paused", "failed"}
      PROVE  FirstInv'
  <2>1. call'[c].pc = "done" /\ call'[c].vals = Blank /\ call'[c].outcome = how /\ ckpt' = ckpt
    BY <1>0, <1>4 DEF Break, Run
  <2>2. FirstEnded(c)' /\ FirstFits("done", Blank)
    BY <1>4, <2>1 DEF FirstEnded, FirstFits, Blank
  <2>. QED
    BY <2>1, <2>2, StepFirst
<1>5. ASSUME NEW pc \in Node \cup {"estimate", "run", "put"}, NEW f, pc # "fail",
             call' = [call EXCEPT ![c].pc = pc, ![c].flagged = f], ckpt' = ckpt
      PROVE  FirstInv'
  <2>1. call'[c].pc = pc /\ call'[c].vals = call[c].vals /\ call'[c].outcome = "none"
    BY <1>0, <1>5 DEF Run
  <2>2. FirstEnded(c)' /\ FirstFits(pc, call[c].vals)
    BY <1>0, <1>5, <2>1 DEF FirstEnded, FirstFits
  <2>. QED
    BY <1>5, <2>1, <2>2, StepFirst
<1>. QED
  BY <1>1, <1>2, <1>3, <1>4, <1>5

\* What the nodes hand over fits where the routers send it.
LEMMA NodesFitFirst ==
  ASSUME NEW v \in Channels, NEW n, FirstFits(n, v)
  PROVE  /\ \A b \in BOOLEAN :
              LET w == [v EXCEPT !.blocked = b] IN FirstFits(RouteAfterInputGuardrail(w), w)
         /\ \A f \in BOOLEAN : FirstFits("generate_sql", [v EXCEPT !.planFlag = f])
         /\ v.generated <= MaxSqlRetries => \A o : FirstFits("validate", Generated(v, o))
         /\ FirstFits(RouteAfterValidate(Validated(v)), Validated(v))
         /\ \A w \in {CacheHit(v), ExecutionFailed(v), Executed(v)} :
              ~w.needsApproval /\ FirstFits(RouteAfterExecute(w), w)
         /\ FirstFits("end", Declined(v))
         /\ FirstFits("end", Finalized(v)) /\ FirstFits("end", Failed(v))
<1>0. /\ v.attempts \in Nat /\ v.generated \in Nat /\ MaxSqlRetries \in Nat
      /\ v.attempts = v.generated /\ (v.result # None => v.result.question = v.question)
  BY RetriesAssumption DEF Channels, FirstFits
<1>1. ASSUME NEW b \in BOOLEAN
      PROVE  LET w == [v EXCEPT !.blocked = b] IN FirstFits(RouteAfterInputGuardrail(w), w)
  BY <1>0 DEF Channels, FirstFits, RouteAfterInputGuardrail
<1>2. ASSUME NEW f \in BOOLEAN PROVE FirstFits("generate_sql", [v EXCEPT !.planFlag = f])
  BY <1>0 DEF Channels, FirstFits
<1>3. ASSUME v.generated <= MaxSqlRetries, NEW o PROVE FirstFits("validate", Generated(v, o))
  BY <1>0, <1>3 DEF Channels, FirstFits, Generated, CountUpTo
<1>4. FirstFits(RouteAfterValidate(Validated(v)), Validated(v))
  <2>. DEFINE w == Validated(v)
  <2>1. /\ w.attempts = v.attempts /\ w.generated = v.generated /\ w.result = v.result
        /\ w.question = v.question /\ w.valid \in BOOLEAN
    BY DEF Channels, Validated
  <2>. HIDE DEF w
  <2>2. ~MayRetry(w) => w.attempts > MaxSqlRetries
    BY <1>0, <2>1 DEF MayRetry
  <2>3. RouteAfterValidate(w) = "fail" => ~MayRetry(w)
    BY <2>1 DEF RouteAfterValidate
  <2>4. w.attempts = w.generated /\ (w.result # None => w.result.question = w.question)
    BY <1>0, <2>1
  <2>5. FirstFits(RouteAfterValidate(w), w)
    BY <2>2, <2>3, <2>4 DEF FirstFits
  <2>. QED
    BY <2>5 DEF w
<1>5. ASSUME NEW w \in {CacheHit(v), ExecutionFailed(v), Executed(v)}
      PROVE  ~w.needsApproval /\ FirstFits(RouteAfterExecute(w), w)
  <2>1. /\ w.attempts = v.attempts /\ w.generated = v.generated /\ w.result = v.result
        /\ w.question = v.question /\ w.needsApproval = FALSE
    BY <1>5 DEF Channels, CacheHit, ExecutionFailed, Executed
  <2>. QED
    BY <1>0, <2>1 DEF FirstFits, RouteAfterExecute, MayRetry
<1>6. FirstFits("end", Declined(v))
  BY <1>0 DEF Channels, FirstFits, Declined
<1>7. FirstFits("end", Finalized(v)) /\ FirstFits("end", Failed(v))
  BY <1>0 DEF Channels, FirstFits, Finalized, Failed
<1>. QED
  BY <1>1, <1>2, <1>3, <1>4, <1>5, <1>6, <1>7

LEMMA NodesFirst ==
  ASSUME IInv, FirstInv, NEW c \in Call, Active(c),
         \A d \in Call \ {c} : call'[d] = call[d],
         (CallStep(c) /\ ~Resume(c)) \/ Abandon(c)
  PROVE  FirstInv'
<1>. DEFINE v == call[c].vals
<1>0. call[c] \in Run /\ v \in Channels /\ call \in [Call -> Run] /\ FirstFits(call[c].pc, v)
  BY WhereItStands DEF IInv, StateOK, FirstInv
<1>1. ASSUME NEW w \in {CacheHit(v), ExecutionFailed(v), Executed(v)},
             Advance(c, w, RouteAfterExecute(w))
      PROVE  FirstInv'
  <2>1. FirstFits(RouteAfterExecute(w), w) /\ RouteAfterExecute(w) \in Node
    BY <1>0, NodesFitFirst DEF RouteAfterExecute, Node
  <2>. QED
    BY <1>1, <2>1, EndingFirst
<1>2. ASSUME NEW pc \in {"estimate", "run", "put"}, call' = [call EXCEPT ![c].pc = pc],
             ckpt' = ckpt
      PROVE  FirstInv'
  <2>1. [call[c] EXCEPT !.pc = pc] = [call[c] EXCEPT !.pc = pc, !.flagged = call[c].flagged]
    BY <1>0 DEF Run
  <2>2. \E f : call' = [call EXCEPT ![c].pc = pc, ![c].flagged = f]
    BY <1>0, <1>2, <2>1
  <2>. QED
    BY <1>2, <2>2, EndingFirst
<1>3. CASE GuardrailsIn(c)
  <2>1. PICK b \in BOOLEAN : Advance(c, [v EXCEPT !.blocked = b],
                                     RouteAfterInputGuardrail([v EXCEPT !.blocked = b]))
    BY <1>3 DEF GuardrailsIn
  <2>2. FirstFits(RouteAfterInputGuardrail([v EXCEPT !.blocked = b]), [v EXCEPT !.blocked = b])
    BY <1>0, NodesFitFirst
  <2>3. RouteAfterInputGuardrail([v EXCEPT !.blocked = b]) \in Node
    BY DEF RouteAfterInputGuardrail, Node
  <2>. QED
    BY <2>1, <2>2, <2>3, EndingFirst
<1>4. CASE Understand(c)
  <2>1. PICK f \in BOOLEAN : Advance(c, [v EXCEPT !.planFlag = f], "generate_sql")
    BY <1>4 DEF Understand
  <2>2. FirstFits("generate_sql", [v EXCEPT !.planFlag = f]) /\ "generate_sql" \in Node
    BY <1>0, NodesFitFirst DEF Node
  <2>. QED
    BY <2>1, <2>2, EndingFirst
<1>5. CASE GenerateSql(c)
  <2>1. PICK o \in Output : Advance(c, Generated(v, o), "validate")
    BY <1>5 DEF GenerateSql
  <2>2. v.generated <= MaxSqlRetries
    BY <1>5 DEF GenerateSql, IInv, NodeInv, NodeOf, BeforeSql
  <2>3. FirstFits("validate", Generated(v, o)) /\ "validate" \in Node
    BY <1>0, <2>2, NodesFitFirst DEF Node
  <2>. QED
    BY <2>1, <2>3, EndingFirst
<1>6. CASE Validate(c)
  <2>1. Advance(c, Validated(v), RouteAfterValidate(Validated(v)))
    BY <1>6 DEF Validate
  <2>2. /\ FirstFits(RouteAfterValidate(Validated(v)), Validated(v))
        /\ RouteAfterValidate(Validated(v)) \in Node
    BY <1>0, NodesFitFirst DEF RouteAfterValidate, Node
  <2>. QED
    BY <2>1, <2>2, EndingFirst
<1>7. CASE LoadSchema(c) \/ Analyze(c) \/ GenerateResponse(c) \/ GuardrailsOut(c)
  <2>1. PICK n \in Node \ {"fail"} : Advance(c, v, n)
    BY <1>7 DEF LoadSchema, Analyze, GenerateResponse, GuardrailsOut, Node
  <2>2. FirstFits(n, v)
    BY <1>0 DEF FirstFits
  <2>. QED
    BY <2>1, <2>2, EndingFirst
<1>8. CASE Raise(c) \/ Abandon(c)
  BY <1>8, EndingFirst DEF Raise, Abandon
<1>9. CASE LookUp(c)
  BY <1>1, <1>2, <1>9 DEF LookUp
<1>10. CASE Estimate(c)
  <2>1. \/ Leave(c, "paused", v.result)
        \/ Return(c, Declined(v), "declined")
        \/ \E f : call' = [call EXCEPT ![c].pc = "run", ![c].flagged = f] /\ ckpt' = ckpt
    BY <1>10 DEF Estimate
  <2>2. FirstFits("end", Declined(v))
    BY <1>0, NodesFitFirst
  <2>. QED
    BY <2>1, <2>2, EndingFirst
<1>11. CASE RunQuery(c)
  BY <1>1, <1>2, <1>11 DEF RunQuery
<1>12. CASE PutCache(c)
  BY <1>1, <1>12 DEF PutCache
<1>13. CASE Finalize(c)
  <2>1. Return(c, Finalized(v), "answered") /\ FirstFits("end", Finalized(v))
    BY <1>0, <1>13, NodesFitFirst DEF Finalize
  <2>. QED
    BY <2>1, EndingFirst
<1>14. CASE Fail(c)
  <2>1. Return(c, Failed(v), "failed") /\ FirstFits("end", Failed(v))
    BY <1>0, <1>14, NodesFitFirst DEF Fail
  <2>2. v.blocked \/ v.attempts > MaxSqlRetries
    BY <1>0, <1>14 DEF Fail, FirstFits
  <2>3. Failed(v).attempts = v.attempts /\ (v.blocked => Failed(v).result.error = "blocked")
    BY <1>0 DEF Failed, Channels
  <2>. QED
    BY <2>1, <2>2, <2>3, EndingFirst
<1>. QED
  BY <1>3, <1>4, <1>5, <1>6, <1>7, <1>8, <1>9, <1>10, <1>11, <1>12, <1>13, <1>14 DEF CallStep

\* A question finds a blank checkpoint, a decision that question's.
LEMMA TakingOverFirst ==
  ASSUME IInv, FirstInv, NewThreadsOnly, NEW c \in Call,
         \A d \in Call \ {c} : call'[d] = call[d],
         \/ \E t \in Thread : Ask(c, t) \/ \E a \in {"approve", "decline"} : Decide(c, t, a)
         \/ Resume(c)
  PROVE  FirstInv'
<1>0. call[c] \in Run /\ call \in [Call -> Run] /\ ckpt \in [Thread -> Checkpoint]
      /\ FirstFits(call[c].pc, call[c].vals)
  BY DEF IInv, StateOK, FirstInv
<1>1. ASSUME NEW t \in Thread, Ask(c, t) PROVE FirstInv'
  <2>. DEFINE v == StartQuestion(Blank, c)
  <2>1. ckpt[t].vals = Blank
    BY <1>1 DEF NewThreadsOnly, FirstInv
  <2>2. /\ call'[c].pc = "guardrails_in" /\ call'[c].vals = v
        /\ call'[c].outcome = call[c].outcome /\ call[c].pc = "idle"
        /\ ckpt' = [ckpt EXCEPT ![t] = [next |-> "guardrails_in", vals |-> v]]
    BY <1>0, <1>1, <2>1 DEF Ask, Run
  <2>3. FirstFits("guardrails_in", v)
    BY DEF FirstFits, StartQuestion, Blank
  <2>. HIDE DEF v
  <2>4. FirstEnded(c)'
    BY <2>2 DEF FirstEnded, IInv, CallInv
  <2>5. \A u \in Thread :
          ckpt'[u] = ckpt[u] \/ (ckpt'[u].next = "guardrails_in" /\ ckpt'[u].vals = v)
    BY <1>0, <2>2
  <2>. QED
    BY <2>2, <2>3, <2>4, <2>5, StepFirst
<1>2. ASSUME NEW t \in Thread, NEW a \in {"approve", "decline"}, Decide(c, t, a)
      PROVE  FirstInv'
  <2>1. /\ call'[c].pc = "resume" /\ call'[c].vals = call[c].vals /\ ckpt' = ckpt
        /\ call'[c].outcome = call[c].outcome /\ call[c].pc = "idle"
    BY <1>0, <1>2 DEF Decide, Run
  <2>2. FirstEnded(c)' /\ FirstFits("resume", call[c].vals)
    BY <1>0, <2>1 DEF FirstEnded, FirstFits, IInv, CallInv
  <2>. QED
    BY <2>1, <2>2, StepFirst
<1>3. CASE Resume(c)
  <2>. DEFINE k == ckpt[call[c].thread]
  <2>1. Active(c) /\ call[c].thread \in Thread /\ call[c].outcome = "none"
    BY <1>3 DEF Resume, IInv, CallInv, Active
  <2>2. FirstFits(k.next, k.vals)
    BY <2>1 DEF FirstInv
  <2>3. CASE Leave(c, "replayed", k.vals.result)
    BY <2>1, <2>3, EndingFirst
  <2>4. CASE call' = [call EXCEPT ![c].pc = k.next, ![c].vals = k.vals] /\ ckpt' = ckpt
    <3>1. call'[c].pc = k.next /\ call'[c].vals = k.vals /\ call'[c].outcome = "none"
      BY <1>0, <2>1, <2>4 DEF Run
    <3>2. FirstEnded(c)'
      BY <3>1 DEF FirstEnded
    <3>. QED
      BY <2>2, <2>4, <3>1, <3>2, StepFirst
  <2>. QED
    BY <1>3, <2>3, <2>4 DEF Resume
<1>. QED
  BY <1>1, <1>2, <1>3

LEMMA NextFirst == IInv /\ FirstInv /\ [Next]_vars /\ [NewThreadsOnly]_vars => FirstInv'
<1> SUFFICES ASSUME IInv, FirstInv, [Next]_vars, [NewThreadsOnly]_vars PROVE FirstInv'
  OBVIOUS
<1>1. CASE UNCHANGED vars \/ \E s \in Statement : Expire(s)
  <2>1. call' = call /\ ckpt' = ckpt
    BY <1>1 DEF vars, Expire
  <2>. QED
    BY <2>1 DEF FirstInv, FirstFits, FirstEnded
<1>2. ASSUME NEW c \in Call, Client(c) \/ CallStep(c), NewThreadsOnly PROVE FirstInv'
  <2>1. \A d \in Call \ {c} : call'[d] = call[d]
    BY <1>2, OthersUntouched DEF IInv
  <2>2. CASE \/ \E t \in Thread : Ask(c, t) \/ \E a \in {"approve", "decline"} : Decide(c, t, a)
             \/ Resume(c)
    BY <1>2, <2>1, <2>2, TakingOverFirst
  <2>3. CASE Abandon(c) \/ (CallStep(c) /\ ~Resume(c))
    <3>1. Active(c)
      BY <2>3 DEF Abandon, CallStep, GuardrailsIn, LoadSchema, Understand, GenerateSql, Validate,
             LookUp, Estimate, RunQuery, PutCache, Analyze, GenerateResponse, GuardrailsOut,
             Finalize, Fail, Raise, RaisingNode, Runs, Active, Node
    <3>. QED
      BY <2>1, <2>3, <3>1, NodesFirst
  <2>. QED
    BY <1>2, <2>2, <2>3 DEF Client
<1>. QED
  BY <1>1, <1>2 DEF Next

\* While clients ask on new threads only, a question fails on its SQL only after
\* max_sql_retries retries, and one that waits for approval returns no other
\* question's result, however it is decided on, retried or run twice: the two
\* disagreements that the runs show come from the channels of earlier questions.
THEOREM FirstQuestionsAreServed ==
  Spec /\ [][NewThreadsOnly]_vars => [](FullRetryBudget /\ PausedReplyIsOwn)
<1>1. Init => FirstInv
  <2> SUFFICES ASSUME Init PROVE FirstInv
    OBVIOUS
  <2>1. Blank.attempts = Blank.generated /\ Blank.result = None
    BY DEF Blank
  <2>2. \A t \in Thread : ckpt[t].next = "none" /\ ckpt[t].vals = Blank
    BY DEF Init
  <2>3. \A c \in Call : call[c].pc = "idle" /\ call[c].vals = Blank /\ call[c].outcome = "none"
    BY DEF Init
  <2>. QED
    BY <2>1, <2>2, <2>3 DEF FirstInv, FirstFits, FirstEnded
<1>2. IInv /\ FirstInv => FullRetryBudget /\ PausedReplyIsOwn
  <2> SUFFICES ASSUME IInv, FirstInv, NEW c \in Call
      PROVE  /\ call[c].outcome = "failed" /\ call[c].reply.error \in {"validation", "execution"}
                  => call[c].vals.generated = MaxSqlRetries + 1
             /\ call[c].outcome = "paused" /\ call[c].reply # None
                  => call[c].reply.question = call[c].vals.question
    BY DEF FullRetryBudget, PausedReplyIsOwn
  <2>1. /\ call[c].vals.generated \in Nat /\ MaxSqlRetries \in Nat
        /\ call[c].vals.generated <= MaxSqlRetries + 1
        /\ FirstFits(call[c].pc, call[c].vals) /\ FirstEnded(c)
    BY RetriesAssumption DEF IInv, StateOK, Run, Channels, NodeInv, FirstInv
  <2>. QED
    BY <2>1 DEF FirstFits, FirstEnded
<1>. QED
  BY Invariance, NextFirst, <1>1, <1>2, PTL DEF Spec
=============================================================================

------------------------- MODULE SqlAgentTurnProofs -------------------------
(***************************************************************************)
(* Proofs about SqlAgent with clients that leave a thread alone until its  *)
(* call has returned (Overlap = FALSE): a flagged statement runs only as   *)
(* the human saw it, and the workflow implements ThreadPromise.            *)
(*                                                                         *)
(* What overlap would break is that the checkpoint of a thread is the      *)
(* state of the one call at work on it (Synced). With it, an approval      *)
(* still fits when the call reaches the database (GrantFits).              *)
(***************************************************************************)
EXTENDS SqlAgentProofs, SqlAgentPromise

ItemOf(v) == [question |-> v.question, sql |-> v.sql]

Busy(c) == call[c].pc \notin {"idle", "resume", "done"}

\* A thread has at most one call under way.
Exclusive ==
    \A c, d \in Call :
      Active(c) /\ Active(d) /\ call[c].thread = call[d].thread => c = d

\* The checkpoint is what the call at work has.
Synced(c) ==
    Busy(c) => ckpt[call[c].thread] = [next |-> NodeOf(call[c].pc), vals |-> call[c].vals]

\* An approval in hand is for what the call has in hand, and so was every run.
GrantFits(c) ==
    /\ call[c].pc = "resume" /\ call[c].decision = "approve"
         => call[c].grant = ItemOf(ckpt[call[c].thread].vals)
    /\ Busy(c) /\ call[c].decision = "approve" => call[c].grant = ItemOf(call[c].vals)
    /\ \A i \in DOMAIN ran[c] : ran[c][i] = call[c].grant

TInv ==
    /\ IInv
    /\ Exclusive
    /\ \A c \in Call : Synced(c) /\ GrantFits(c)

\* No other call is under way on thread t.
Alone(c, t) == \A d \in Call \ {c} : Active(d) => call[d].thread # t
-----------------------------------------------------------------------------
(***************************************************************************)
(* Every step is taken by one call c on one thread, alone, and leaves all  *)
(* other calls and threads as they are.                                    *)
(***************************************************************************)
LEMMA TurnStep ==
  ASSUME TInv, NEW c \in Call, NEW r \in Run, call' = [call EXCEPT ![c] = r],
         Alone(c, r.thread),
         \A u \in Thread : u # r.thread => ckpt'[u] = ckpt[u],
         \A d \in Call \ {c} : ran'[d] = ran[d],
         Synced(c)', GrantFits(c)'
  PROVE  Exclusive' /\ \A d \in Call : Synced(d)' /\ GrantFits(d)'
<1>1. call'[c] = r /\ \A d \in Call \ {c} : call'[d] = call[d]
  BY DEF TInv, IInv, StateOK
<1>2. Exclusive'
  BY <1>1 DEF TInv, Exclusive, Alone, Active
<1>3. ASSUME NEW d \in Call PROVE Synced(d)' /\ GrantFits(d)'
  <2>1. CASE d = c
    BY <2>1
  <2>2. CASE d # c
    <3>1. call'[d] = call[d] /\ ran'[d] = ran[d] /\ Synced(d) /\ GrantFits(d) /\ CallInv(d)
      BY <1>1, <2>2 DEF TInv, IInv
    <3>2. Active(d) => ckpt'[call[d].thread] = ckpt[call[d].thread]
      BY <2>2, <3>1 DEF Alone, CallInv
    <3>3. Busy(d) => Active(d)
      BY DEF Busy, Active
    <3>4. Synced(d)'
      BY <3>1, <3>2, <3>3 DEF Synced, Busy
    <3>5. GrantFits(d)'
      BY <3>1, <3>2, <3>3 DEF GrantFits, Busy, Active
    <3>. QED
      BY <3>4, <3>5
  <2>. QED
    BY <2>1, <2>2
<1>. QED
  BY <1>2, <1>3

\* A call under way is alone on its thread.
LEMMA ActiveAlone ==
  ASSUME TInv, NEW c \in Call, Active(c)
  PROVE  Alone(c, call[c].thread) /\ call[c].thread \in Thread /\ call[c] \in Run
  BY DEF TInv, IInv, StateOK, CallInv, Exclusive, Alone

-----------------------------------------------------------------------------
(***************************************************************************)
(* The ways a call steps.                                                  *)
(***************************************************************************)

\* The executor's parts and every other node.
Working == Node \cup {"estimate", "run", "put"}

LEMMA WorkingBusy ==
  ASSUME NEW c \in Call, call[c].pc \in Working
  PROVE  Busy(c) /\ Active(c)
  BY DEF Working, Node, Busy, Active

LEMMA AdvanceTurn ==
  ASSUME TInv, NEW c \in Call, NEW n \in Node, NEW v \in Channels,
         call[c].pc \in Working, Advance(c, v, n),
         \A d \in Call \ {c} : ran'[d] = ran[d],
         \A i \in DOMAIN ran'[c] : ran'[c][i] = call[c].grant
  PROVE  Exclusive' /\ \A d \in Call : Synced(d)' /\ GrantFits(d)'
<1> DEFINE T == call[c].thread
           r == [call[c] EXCEPT !.pc = n, !.vals = v, !.decision = "none", !.flagged = FALSE]
<1>1. Alone(c, T) /\ T \in Thread /\ call[c] \in Run
  BY ActiveAlone, WorkingBusy
<1>2. /\ call' = [call EXCEPT ![c] = r]
      /\ ckpt' = [ckpt EXCEPT ![T] = [next |-> n, vals |-> v]]
  BY DEF Advance
<1>3. /\ r \in Run /\ r.thread = T /\ r.pc = n /\ r.vals = v /\ r.decision = "none"
      /\ r.grant = call[c].grant
  BY <1>1 DEF Run, Decision
<1>4. call'[c] = r /\ ckpt'[T] = [next |-> n, vals |-> v]
      /\ \A u \in Thread : u # T => ckpt'[u] = ckpt[u]
  BY <1>1, <1>2 DEF TInv, IInv, StateOK
<1>5. Synced(c)'
  BY <1>3, <1>4 DEF Synced, NodeOf, Node
<1>6. GrantFits(c)'
  BY <1>3, <1>4 DEF GrantFits
<1>. QED
  BY <1>1, <1>2, <1>3, <1>4, <1>5, <1>6, TurnStep

\* A call that ends has nothing left in hand.
LEMMA EndTurn ==
  ASSUME TInv, NEW c \in Call, NEW r \in Run, Active(c),
         call' = [call EXCEPT ![c] = r], r.thread = call[c].thread,
         r.pc = "done", r.grant = call[c].grant,
         \A u \in Thread : u # r.thread => ckpt'[u] = ckpt[u],
         ran' = ran
  PROVE  Exclusive' /\ \A d \in Call : Synced(d)' /\ GrantFits(d)'
<1>1. Alone(c, r.thread)
  BY ActiveAlone
<1>2. call'[c] = r
  BY DEF TInv, IInv, StateOK
<1>3. GrantFits(c)
  BY DEF TInv
<1>4. Synced(c)' /\ GrantFits(c)'
  BY <1>2, <1>3 DEF Synced, GrantFits, Busy
<1>. QED
  BY <1>1, <1>4, TurnStep
LEMMA ReturnTurn ==
  ASSUME TInv, NEW c \in Call, NEW v \in Channels, NEW how \in Outcome,
         Active(c), Return(c, v, how), ran' = ran
  PROVE  Exclusive' /\ \A d \in Call : Synced(d)' /\ GrantFits(d)'
<1> DEFINE r == [call[c] EXCEPT !.pc = "done", !.vals = v, !.decision = "none",
                                !.outcome = how, !.reply = v.result]
<1>1. call[c] \in Run /\ call[c].thread \in Thread /\ v.result \in Result \cup {None}
  BY ActiveAlone DEF Channels
<1>2. r \in Run /\ r.thread = call[c].thread /\ r.pc = "done" /\ r.grant = call[c].grant
  BY <1>1 DEF Run, Decision
<1>3. call' = [call EXCEPT ![c] = r]
  BY DEF Return
<1>4. \A u \in Thread : u # r.thread => ckpt'[u] = ckpt[u]
  BY <1>2 DEF Return, TInv, IInv, StateOK
<1>. QED
  BY <1>2, <1>3, <1>4, EndTurn

LEMMA LeaveTurn ==
  ASSUME TInv, NEW c \in Call, NEW how \in Outcome, NEW s \in Result \cup {None},
         Active(c), Leave(c, how, s), ran' = ran
  PROVE  Exclusive' /\ \A d \in Call : Synced(d)' /\ GrantFits(d)'
<1> DEFINE r == [call[c] EXCEPT !.pc = "done", !.decision = "none",
                                !.outcome = how, !.reply = s]
<1>1. call[c] \in Run
  BY ActiveAlone
<1>2. r \in Run /\ r.thread = call[c].thread /\ r.pc = "done" /\ r.grant = call[c].grant
  BY <1>1 DEF Run, Decision
<1>3. call' = [call EXCEPT ![c] = r] /\ ckpt' = ckpt
  BY DEF Leave
<1>. QED
  BY <1>2, <1>3, EndTurn

LEMMA BreakTurn ==
  ASSUME TInv, NEW c \in Call, NEW how \in Outcome,
         Active(c), Break(c, how), ran' = ran
  PROVE  Exclusive' /\ \A d \in Call : Synced(d)' /\ GrantFits(d)'
<1> DEFINE r == [call[c] EXCEPT !.pc = "done", !.vals = Blank, !.decision = "none",
                                !.flagged = FALSE, !.outcome = how]
<1>1. call[c] \in Run
  BY ActiveAlone
<1>2. r \in Run /\ r.thread = call[c].thread /\ r.pc = "done" /\ r.grant = call[c].grant
  BY <1>1, BlankFits DEF Run, Decision
<1>3. call' = [call EXCEPT ![c] = r] /\ ckpt' = ckpt
  BY DEF Break
<1>. QED
  BY <1>2, <1>3, EndTurn

\* Moving on within the executor node.
LEMMA MoveTurn ==
  ASSUME TInv, NEW c \in Call, NEW p \in {"estimate", "run", "put"}, NEW f \in BOOLEAN,
         call[c].pc \in {"execute", "estimate", "run"},
         call' = [call EXCEPT ![c] = [call[c] EXCEPT !.pc = p, !.flagged = f]],
         ckpt' = ckpt,
         \A d \in Call \ {c} : ran'[d] = ran[d],
         \A i \in DOMAIN ran'[c] : ran'[c][i] = call[c].grant
  PROVE  Exclusive' /\ \A d \in Call : Synced(d)' /\ GrantFits(d)'
<1> DEFINE r == [call[c] EXCEPT !.pc = p, !.flagged = f]
<1>1. /\ Busy(c) /\ Active(c) /\ Alone(c, call[c].thread) /\ call[c].thread \in Thread
      /\ call[c] \in Run
  BY WorkingBusy, ActiveAlone DEF Working, Node
<1>2. /\ r \in Run /\ r.thread = call[c].thread /\ r.pc = p /\ r.vals = call[c].vals
      /\ r.decision = call[c].decision /\ r.grant = call[c].grant
  BY <1>1 DEF Run
<1>3. call'[c] = r
  BY DEF TInv, IInv, StateOK
<1>4. Synced(c) /\ GrantFits(c) /\ NodeOf(call[c].pc) = NodeOf(p)
  BY DEF TInv, NodeOf
<1>5. Synced(c)'
  BY <1>1, <1>2, <1>3, <1>4 DEF Synced, NodeOf
<1>6. GrantFits(c)'
  BY <1>1, <1>2, <1>3, <1>4 DEF GrantFits
<1>. QED
  BY <1>1, <1>2, <1>5, <1>6, TurnStep

\* A client starts a call only on a thread that has none under way.
LEMMA FreeAlone ==
  ASSUME ~Overlap, NEW c \in Call, NEW t, Free(t)
  PROVE  Alone(c, t)
  BY DEF Free, Alone

LEMMA AskTurn ==
  ASSUME ~Overlap, TInv, NEW c \in Call, NEW t \in Thread, Ask(c, t)
  PROVE  Exclusive' /\ \A d \in Call : Synced(d)' /\ GrantFits(d)'
<1> DEFINE v == StartQuestion(ckpt[t].vals, c)
           r == [call[c] EXCEPT !.pc = "guardrails_in", !.thread = t, !.vals = v]
<1>1. /\ call[c].pc = "idle" /\ Alone(c, t) /\ call[c] \in Run /\ v \in Channels
      /\ ApprovalInv(c)
  BY FreeAlone, StartFits DEF Ask, TInv, IInv, StateOK, Checkpoint
<1>2. /\ call' = [call EXCEPT ![c] = r] /\ ran' = ran
      /\ ckpt' = [ckpt EXCEPT ![t] = [next |-> "guardrails_in", vals |-> v]]
  BY DEF Ask
<1>3. /\ r \in Run /\ r.thread = t /\ r.pc = "guardrails_in" /\ r.vals = v
      /\ r.decision = "none"
  BY <1>1 DEF Run, Node, ApprovalInv
<1>4. /\ call'[c] = r /\ ckpt'[t] = [next |-> "guardrails_in", vals |-> v]
      /\ \A u \in Thread : u # t => ckpt'[u] = ckpt[u]
  BY <1>2 DEF TInv, IInv, StateOK
<1>5. Synced(c)'
  BY <1>3, <1>4 DEF Synced, NodeOf
<1>6. GrantFits(c)'
  BY <1>1, <1>2, <1>3, <1>4 DEF GrantFits, ApprovalInv
<1>. QED
  BY <1>1, <1>2, <1>3, <1>4, <1>5, <1>6, TurnStep

LEMMA DecideTurn ==
  ASSUME ~Overlap, TInv, NEW c \in Call, NEW t \in Thread,
         NEW a \in {"approve", "decline"}, Decide(c, t, a)
  PROVE  Exclusive' /\ \A d \in Call : Synced(d)' /\ GrantFits(d)'
<1> DEFINE g == IF a = "approve" THEN ItemOf(ckpt[t].vals) ELSE None
           r == [call[c] EXCEPT !.pc = "resume", !.thread = t, !.decision = a, !.grant = g]
<1>1. /\ call[c].pc = "idle" /\ Alone(c, t) /\ call[c] \in Run
      /\ ran[c] = <<>> /\ g \in Pending \cup {None}
  BY FreeAlone DEF Decide, TInv, IInv, StateOK, Checkpoint, Channels, Pending, ItemOf, ApprovalInv
<1>2. call' = [call EXCEPT ![c] = r] /\ ran' = ran /\ ckpt' = ckpt
  BY DEF Decide, ItemOf
<1>3. /\ r \in Run /\ r.thread = t /\ r.pc = "resume" /\ r.decision = a /\ r.grant = g
  BY <1>1 DEF Run, Decision
<1>4. call'[c] = r
  BY <1>2 DEF TInv, IInv, StateOK
<1>5. Synced(c)'
  BY <1>3, <1>4 DEF Synced, Busy
<1>6. GrantFits(c)'
  BY <1>1, <1>2, <1>3, <1>4 DEF GrantFits, Busy
<1>. QED
  BY <1>1, <1>2, <1>3, <1>5, <1>6, TurnStep

LEMMA ResumeTurn ==
  ASSUME TInv, NEW c \in Call, Resume(c)
  PROVE  Exclusive' /\ \A d \in Call : Synced(d)' /\ GrantFits(d)'
<1> DEFINE T == call[c].thread
           k == ckpt[T]
           r == [call[c] EXCEPT !.pc = k.next, !.vals = k.vals]
<1>1. /\ call[c].pc = "resume" /\ Active(c) /\ ran' = ran
      /\ Alone(c, T) /\ T \in Thread /\ call[c] \in Run /\ k \in Checkpoint
      /\ k.next # "none" /\ GrantFits(c)
  BY ActiveAlone DEF Resume, Active, TInv, IInv, StateOK, CallInv
<1>2. CASE k.next = "end"
  <2>1. Leave(c, "replayed", k.vals.result) /\ k.vals.result \in Result \cup {None}
    BY <1>1, <1>2 DEF Resume, Checkpoint, Channels
  <2>. QED
    BY <1>1, <2>1, LeaveTurn DEF Outcome
<1>3. CASE k.next # "end"
  <2>1. call' = [call EXCEPT ![c] = r] /\ ckpt' = ckpt
    BY <1>3 DEF Resume
  <2>2. k.next \in Node /\ k.vals \in Channels
    BY <1>1, <1>3 DEF Checkpoint
  <2>3. /\ r \in Run /\ r.thread = T /\ r.pc = k.next /\ r.vals = k.vals
        /\ r.decision = call[c].decision /\ r.grant = call[c].grant
    BY <1>1, <2>2 DEF Run
  <2>4. call'[c] = r
    BY <2>1 DEF TInv, IInv, StateOK
  <2>5. k = [next |-> k.next, vals |-> k.vals]
    BY <1>1 DEF Checkpoint
  <2>6. Synced(c)'
    BY <2>1, <2>2, <2>3, <2>4, <2>5 DEF Synced, NodeOf, Node
  <2>7. GrantFits(c)'
    BY <1>1, <2>1, <2>2, <2>3, <2>4 DEF GrantFits, Node
  <2>. QED
    BY <1>1, <2>1, <2>3, <2>6, <2>7, TurnStep
<1>. QED
  BY <1>2, <1>3

\* The only step that runs something runs what the approval is for.
LEMMA RunFits ==
  ASSUME TInv, NEW c \in Call, RunQuery(c)
  PROVE  /\ \A d \in Call \ {c} : ran'[d] = ran[d]
         /\ \A i \in DOMAIN ran'[c] : ran'[c][i] = call[c].grant
<1>1. /\ call[c].pc = "run" /\ GrantFits(c) /\ ApprovalInv(c)
      /\ ran \in [Call -> Seq(Pending)]
  BY DEF RunQuery, TInv, IInv, StateOK
<1>2. CASE call[c].flagged
  <2>1. ran' = [ran EXCEPT ![c] = Append(ran[c], ItemOf(call[c].vals))]
    BY <1>2 DEF RunQuery, ItemOf
  <2>2. ran[c] = <<>> /\ call[c].grant = ItemOf(call[c].vals)
    BY <1>1, <1>2 DEF ApprovalInv, GrantFits, Busy
  <2>3. ran'[c] = <<ItemOf(call[c].vals)>>
    BY <1>1, <2>1, <2>2
  <2>. QED
    BY <1>1, <2>1, <2>2, <2>3
<1>3. CASE ~call[c].flagged
  BY <1>1, <1>3 DEF RunQuery, GrantFits
<1>. QED
  BY <1>2, <1>3

\* What a node hands over are channels.
LEMMA UpdatesAreChannels ==
  ASSUME NEW v \in Channels
  PROVE  \A u \in {Declined(v), ExecutionFailed(v)}
                 \cup {[v EXCEPT !.blocked = b] : b \in BOOLEAN}
                 \cup {[v EXCEPT !.planFlag = f] : f \in BOOLEAN} :
           u \in Channels /\ u.question = v.question /\ u.generated = v.generated
<1> DEFINE Keeps(u) ==
             u \in Channels /\ u.question = v.question /\ u.generated = v.generated
<1>1. Keeps(Declined(v)) /\ Keeps(ExecutionFailed(v))
  BY DEF Channels, Declined, ExecutionFailed, Error
<1>2. \A b \in BOOLEAN : Keeps([v EXCEPT !.blocked = b])
  BY DEF Channels
<1>3. \A f \in BOOLEAN : Keeps([v EXCEPT !.planFlag = f])
  BY DEF Channels
<1>. QED
  BY <1>1, <1>2, <1>3

\* A super-step hands channels to the node it names; only the generator
\* spends a generation, and no node changes the question.
Step(c) ==
    \E n \in Node, v \in Channels :
      /\ Advance(c, v, n)
      /\ v.question = call[c].vals.question
      /\ call[c].pc # "generate_sql" => v.generated = call[c].vals.generated

\* Nodes up to the executor.
LEMMA StepsBeforeExecute ==
  ASSUME TInv, NEW c \in Call,
         \/ GuardrailsIn(c) \/ LoadSchema(c) \/ Understand(c)
         \/ GenerateSql(c) \/ Validate(c)
  PROVE  Step(c) /\ call[c].pc \in Working /\ ran' = ran
<1> DEFINE u == call[c].vals
<1>1. u \in Channels
  BY DEF TInv, IInv, StateOK, Run
<1>2. CASE GuardrailsIn(c)
  <2>1. \A v : RouteAfterInputGuardrail(v) \in Node
    BY DEF RouteAfterInputGuardrail, Node
  <2>. QED
    BY <1>1, <1>2, <2>1, UpdatesAreChannels DEF GuardrailsIn, Step, Working, Node
<1>3. CASE LoadSchema(c)
  BY <1>1, <1>3 DEF LoadSchema, Step, Working, Node
<1>4. CASE Understand(c)
  BY <1>1, <1>4, UpdatesAreChannels DEF Understand, Step, Working, Node
<1>5. CASE GenerateSql(c)
  <2>1. PICK o \in Output : Advance(c, Generated(u, o), "validate")
    BY <1>5 DEF GenerateSql
  <2>2. Generated(u, o) \in Channels /\ Generated(u, o).question = u.question
    <3>1. u.generated \in Nat /\ u.attempts + 1 \in Nat
      BY <1>1 DEF Channels
    <3>2. CountUpTo(u.generated, MaxSqlRetries + 2) \in Nat
      BY <3>1 DEF CountUpTo
    <3>. QED
      BY <1>1, <3>1, <3>2 DEF Channels, Generated
  <2>. QED
    BY <1>5, <2>1, <2>2 DEF GenerateSql, Step, Working, Node
<1>6. CASE Validate(c)
  <2>1. u.sql \in Output
    BY <1>6, Running DEF TInv, Validate, NodeInv, NodeOf, Node
  <2>2. /\ Validated(u) \in Channels
        /\ Validated(u).question = u.question /\ Validated(u).generated = u.generated
    BY <1>1, <2>1, ExtractAssumption DEF Channels, Validated, Error
  <2>3. \A v : RouteAfterValidate(v) \in Node
    BY DEF RouteAfterValidate, Node
  <2>. QED
    BY <1>6, <2>2, <2>3 DEF Validate, Step, Working, Node
<1>. QED
  BY <1>2, <1>3, <1>4, <1>5, <1>6

\* Nodes behind the executor, and its last part.
LEMMA StepsAfterExecute ==
  ASSUME TInv, NEW c \in Call,
         PutCache(c) \/ Analyze(c) \/ GenerateResponse(c) \/ GuardrailsOut(c)
  PROVE  Step(c) /\ call[c].pc \in Working /\ ran' = ran
<1> DEFINE u == call[c].vals
<1>1. u \in Channels
  BY DEF TInv, IInv, StateOK, Run
<1>2. CASE PutCache(c)
  <2>1. u.sql \in Statement
    BY <1>2, Running DEF TInv, PutCache, NodeInv, NodeOf
  <2>2. /\ Executed(u) \in Channels /\ ~Executed(u).needsApproval
        /\ Executed(u).rows \in Statement
        /\ Executed(u).question = u.question /\ Executed(u).generated = u.generated
    BY <1>1, <2>1 DEF Channels, Executed
  <2>3. RouteAfterExecute(Executed(u)) = "analyze"
    BY <2>2, NoneAssumption DEF RouteAfterExecute
  <2>. QED
    BY <1>2, <2>2, <2>3 DEF PutCache, Step, Working, Node
<1>3. CASE Analyze(c) \/ GenerateResponse(c) \/ GuardrailsOut(c)
  BY <1>1, <1>3 DEF Analyze, GenerateResponse, GuardrailsOut, Step, Working, Node
<1>. QED
  BY <1>2, <1>3

LEMMA StepTurn ==
  ASSUME TInv, NEW c \in Call, Step(c), call[c].pc \in Working, ran' = ran
  PROVE  Exclusive' /\ \A d \in Call : Synced(d)' /\ GrantFits(d)'
<1>1. \A i \in DOMAIN ran[c] : ran[c][i] = call[c].grant
  BY DEF TInv, GrantFits
<1>. QED
  BY <1>1, AdvanceTurn DEF Step

\* A cached result is a super-step, a miss goes on to the estimate.
LEMMA LookUpSteps ==
  ASSUME TInv, NEW c \in Call, LookUp(c)
  PROVE  /\ call[c].pc = "execute" /\ ran' = ran
         /\ \/ Step(c)
            \/ \E f \in BOOLEAN :
                 /\ call' = [call EXCEPT ![c] = [call[c] EXCEPT !.pc = "estimate", !.flagged = f]]
                 /\ ckpt' = ckpt
<1> DEFINE u == call[c].vals
<1>1. /\ call[c].pc = "execute" /\ call[c] \in Run /\ u \in Channels /\ ran' = ran
      /\ u.sql \in Statement
  BY Running DEF LookUp, TInv, IInv, StateOK, NodeInv, NodeOf, Node
<1>2. CASE CacheEnabled /\ CacheHit(u).sql \in cache
  <2>1. /\ CacheHit(u) \in Channels /\ ~CacheHit(u).needsApproval
        /\ CacheHit(u).rows \in Statement
        /\ CacheHit(u).question = u.question /\ CacheHit(u).generated = u.generated
    BY <1>1 DEF Channels, CacheHit
  <2>2. RouteAfterExecute(CacheHit(u)) = "analyze"
    BY <2>1, NoneAssumption DEF RouteAfterExecute
  <2>. QED
    BY <1>1, <1>2, <2>1, <2>2 DEF LookUp, Step, Node
<1>3. CASE ~(CacheEnabled /\ CacheHit(u).sql \in cache)
  <2>1. call' = [call EXCEPT ![c].pc = "estimate"] /\ ckpt' = ckpt
    BY <1>3 DEF LookUp
  <2>2. /\ [call[c] EXCEPT !.pc = "estimate"]
             = [call[c] EXCEPT !.pc = "estimate", !.flagged = call[c].flagged]
        /\ call[c].flagged \in BOOLEAN
    BY <1>1 DEF Run
  <2>3. call' = [call EXCEPT ![c] =
                   [call[c] EXCEPT !.pc = "estimate", !.flagged = call[c].flagged]]
    BY <2>1, <2>2
  <2>. QED
    BY <1>1, <2>1, <2>2, <2>3
<1>. QED
  BY <1>2, <1>3

LEMMA LookUpTurn ==
  ASSUME TInv, NEW c \in Call, LookUp(c)
  PROVE  Exclusive' /\ \A d \in Call : Synced(d)' /\ GrantFits(d)'
<1>1. /\ call[c].pc = "execute" /\ ran' = ran /\ "execute" \in Working
      /\ \A i \in DOMAIN ran[c] : ran[c][i] = call[c].grant
  BY LookUpSteps DEF TInv, GrantFits, Working, Node
<1>. QED
  BY <1>1, LookUpSteps, StepTurn, MoveTurn

LEMMA EstimateTurn ==
  ASSUME TInv, NEW c \in Call, Estimate(c)
  PROVE  Exclusive' /\ \A d \in Call : Synced(d)' /\ GrantFits(d)'
<1> DEFINE v == call[c].vals
<1>1. /\ call[c].pc = "estimate" /\ v \in Channels /\ ran' = ran /\ Active(c)
      /\ GrantFits(c)
  BY DEF Estimate, TInv, IInv, StateOK, Run, Active
<1>2. PICK expensive \in BOOLEAN :
        LET flagged == RequireApproval /\ (v.planFlag \/ expensive)
            asks    == flagged /\ ~v.approved
        IN  \/ /\ asks /\ call[c].decision = "none"
               /\ Leave(c, "paused", v.result)
            \/ /\ asks /\ call[c].decision = "decline"
               /\ Return(c, Declined(v), "declined")
            \/ /\ asks => call[c].decision = "approve"
               /\ call' = [call EXCEPT ![c].pc = "run", ![c].flagged = flagged]
               /\ UNCHANGED ckpt
  BY DEF Estimate
<1> DEFINE flagged == RequireApproval /\ (v.planFlag \/ expensive)
<1>3. CASE Leave(c, "paused", v.result)
  BY <1>1, <1>3, LeaveTurn DEF Outcome, Channels
<1>4. CASE Return(c, Declined(v), "declined")
  BY <1>1, <1>4, UpdatesAreChannels, ReturnTurn DEF Outcome
<1>5. CASE call' = [call EXCEPT ![c].pc = "run", ![c].flagged = flagged] /\ UNCHANGED ckpt
  <2>1. /\ call' = [call EXCEPT ![c] = [call[c] EXCEPT !.pc = "run", !.flagged = flagged]]
        /\ flagged \in BOOLEAN
    BY <1>5
  <2>. QED
    BY <1>1, <1>5, <2>1, MoveTurn DEF GrantFits
<1>. QED
  BY <1>2, <1>3, <1>4, <1>5

LEMMA RunQueryTurn ==
  ASSUME TInv, NEW c \in Call, RunQuery(c)
  PROVE  Exclusive' /\ \A d \in Call : Synced(d)' /\ GrantFits(d)'
<1> DEFINE v == ExecutionFailed(call[c].vals)
<1>1. /\ call[c].pc = "run" /\ call[c] \in Run /\ v \in Channels
      /\ NodeInv("execute", call[c].vals)
  BY UpdatesAreChannels, Running DEF RunQuery, TInv, IInv, StateOK, Run, NodeOf
<1>2. CASE Advance(c, v, RouteAfterExecute(v))
  <2>1. ~v.needsApproval
    BY <1>1 DEF Channels, ExecutionFailed, Run
  <2>2. RouteAfterExecute(v) \in Node
    BY <2>1 DEF RouteAfterExecute, Node
  <2>. QED
    BY <1>1, <1>2, <2>2, RunFits, AdvanceTurn DEF Working
<1>3. CASE call' = [call EXCEPT ![c].pc = "put"] /\ UNCHANGED ckpt
  <2>1. /\ [call[c] EXCEPT !.pc = "put"]
             = [call[c] EXCEPT !.pc = "put", !.flagged = call[c].flagged]
        /\ call[c].flagged \in BOOLEAN
    BY <1>1 DEF Run
  <2>2. call' = [call EXCEPT ![c] =
                   [call[c] EXCEPT !.pc = "put", !.flagged = call[c].flagged]]
    BY <1>3, <2>1
  <2>. QED
    BY <1>1, <1>3, <2>1, <2>2, RunFits, MoveTurn
<1>. QED
  BY <1>2, <1>3 DEF RunQuery

\* The final nodes, exceptions and dropped streams end the call.
LEMMA EndsTurn ==
  ASSUME TInv, NEW c \in Call, Finalize(c) \/ Fail(c) \/ Raise(c) \/ Abandon(c)
  PROVE  Exclusive' /\ \A d \in Call : Synced(d)' /\ GrantFits(d)'
<1> DEFINE u == call[c].vals
<1>1. u \in Channels
  BY DEF TInv, IInv, StateOK, Run
<1>2. CASE Finalize(c)
  <2>1. Active(c) /\ u.question \in Call /\ u.sql \in Statement /\ u.rows = u.sql
    BY <1>2, Running DEF Finalize, Active, TInv, NodeInv, NodeOf, Node, WithRows
  <2>2. (IF u.attempts = 0 THEN 0 ELSE u.attempts - 1) \in Nat
    BY <1>1 DEF Channels
  <2>3. Finalized(u) \in Channels
    BY <1>1, <2>1, <2>2 DEF Finalized, Channels, Result, Error
  <2>. QED
    BY <1>2, <2>1, <2>3, ReturnTurn DEF Finalize, Outcome
<1>3. CASE Fail(c)
  <2>1. Active(c) /\ u.question \in Call
    BY <1>3, Running DEF Fail, Active, TInv, NodeInv, NodeOf, Node
  <2> DEFINE res == [question |-> u.question, sql |-> u.sql, rows |-> None,
                     error |-> IF u.blocked THEN "blocked" ELSE u.lastError,
                     retries |-> u.attempts, cached |-> FALSE,
                     needsApproval |-> u.needsApproval]
  <2>2. res \in Result
    BY <1>1, <2>1 DEF Result, Error, Channels
  <2>3. Failed(u) \in Channels
    BY <1>1, <2>2 DEF Channels, Failed
  <2>. QED
    BY <1>3, <2>1, <2>3, ReturnTurn DEF Fail, Outcome
<1>4. CASE Raise(c)
  BY <1>4, BreakTurn DEF Raise, RaisingNode, Active, Outcome
<1>5. CASE Abandon(c)
  BY <1>5, BreakTurn DEF Abandon, Runs, Node, Active, Outcome
<1>. QED
  BY <1>2, <1>3, <1>4, <1>5

-----------------------------------------------------------------------------
LEMMA TurnInit == Init => TInv
<1> SUFFICES ASSUME Init PROVE TInv
  OBVIOUS
<1>1. IInv
  BY InitInv
<1>2. Exclusive /\ \A c \in Call : Synced(c) /\ GrantFits(c)
  BY DEF Init, Exclusive, Active, Synced, Busy, GrantFits
<1>. QED
  BY <1>1, <1>2 DEF TInv

LEMMA TurnNext == ~Overlap /\ TInv /\ [Next]_vars => TInv'
<1> SUFFICES ASSUME ~Overlap, TInv, [Next]_vars PROVE TInv'
  OBVIOUS
<1>1. IInv'
  BY NextInv DEF TInv
<1>2. Exclusive' /\ \A d \in Call : Synced(d)' /\ GrantFits(d)'
  <2>1. ASSUME NEW c \in Call, Client(c)
        PROVE  Exclusive' /\ \A d \in Call : Synced(d)' /\ GrantFits(d)'
    BY <2>1, AskTurn, DecideTurn, EndsTurn DEF Client
  <2>2. ASSUME NEW c \in Call, CallStep(c)
        PROVE  Exclusive' /\ \A d \in Call : Synced(d)' /\ GrantFits(d)'
    BY <2>2, ResumeTurn, StepsBeforeExecute, StepsAfterExecute, StepTurn,
       LookUpTurn, EstimateTurn, RunQueryTurn, EndsTurn
       DEF CallStep
  <2>3. CASE UNCHANGED <<ckpt, call, ran>>
    BY <2>3 DEF TInv, Exclusive, Active, Synced, Busy, GrantFits
  <2>. QED
    BY <2>1, <2>2, <2>3 DEF Next, Expire, vars
<1>. QED
  BY <1>1, <1>2 DEF TInv

LEMMA TurnInvariance == ASSUME ~Overlap PROVE Spec => []TInv
<1>1. TInv /\ [Next]_vars => TInv'
  BY TurnNext
<1>. QED
  BY <1>1, TurnInit, PTL DEF Spec

\* What the database runs under an approval is the question and the statement
\* the human looked at, when no client sends a call on a thread under way.
THEOREM ApprovedStatementRunsInTurn ==
  ASSUME ~Overlap PROVE Spec => []ApprovedStatementRuns
<1>1. TInv => ApprovedStatementRuns
  BY DEF TInv, GrantFits, ApprovedStatementRuns
<1>. QED
  BY TurnInvariance, <1>1, PTL
=============================================================================

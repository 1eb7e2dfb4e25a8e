----------------------- MODULE SqlAgentPromiseProofs -----------------------
(***************************************************************************)
(* Proof that SqlAgent implements ThreadPromise while clients leave a      *)
(* thread alone until its call has returned (Overlap = FALSE).             *)
(*                                                                         *)
(* A step of the workflow is a step of one call c on one thread t, so the  *)
(* promise's state changes at t only (OnlyHere). What it is at t follows   *)
(* from whether a call is at work there (AtWorkReads, QuietReads).         *)
(***************************************************************************)
EXTENDS SqlAgentTurnProofs

\* The licence a call at work carries.
Carried(c) ==
    IF call[c].decision = "approve" /\ call[c].pc # "put" THEN call[c].grant ELSE None

Quiet(t) == \A d \in Call : Busy(d) => call[d].thread # t
-----------------------------------------------------------------------------
(***************************************************************************)
(* Reading the promise's state off the workflow's.                         *)
(***************************************************************************)
LEMMA AtWorkReads ==
  TInv => \A c \in Call : Busy(c) =>
            /\ call[c].thread \in Thread
            /\ Worker(call[c].thread) = c
            /\ Stage(call[c].thread) = "open"
            /\ Licence(call[c].thread) = Carried(c)
            /\ ckpt[call[c].thread].vals = call[c].vals
<1> SUFFICES ASSUME TInv, NEW c \in Call, Busy(c)
             PROVE  /\ call[c].thread \in Thread
                    /\ Worker(call[c].thread) = c
                    /\ Stage(call[c].thread) = "open"
                    /\ Licence(call[c].thread) = Carried(c)
                    /\ ckpt[call[c].thread].vals = call[c].vals
  OBVIOUS
<1> DEFINE T == call[c].thread
<1>1. /\ Active(c) /\ T \in Thread /\ Alone(c, T)
      /\ ckpt[T] = [next |-> NodeOf(call[c].pc), vals |-> call[c].vals]
      /\ call[c].pc \in Node \cup {"estimate", "run", "put"}
  BY ActiveAlone DEF Busy, Active, Synced, TInv, IInv, StateOK, Run
<1>2. AtWork(T) = {c}
  BY <1>1 DEF AtWork, Alone, Busy, Active
<1>3. Worker(T) = c
  BY <1>2 DEF Worker
<1>4. Stage(T) = "open"
  BY <1>1 DEF Stage, NodeOf, Node
<1>5. Licence(T) = Carried(c)
  BY <1>2, <1>3 DEF Licence, Carried
<1>. QED
  BY <1>1, <1>3, <1>4, <1>5

LEMMA AtWorkReadsNext ==
  TInv' => \A c \in Call : Busy(c)' =>
             /\ call'[c].thread \in Thread
             /\ Worker(call[c].thread)' = c
             /\ Stage(call[c].thread)' = "open"
             /\ Licence(call[c].thread)' = Carried(c)'
<1>1. (TInv => \A c \in Call : Busy(c) =>
            /\ call[c].thread \in Thread
            /\ Worker(call[c].thread) = c
            /\ Stage(call[c].thread) = "open"
            /\ Licence(call[c].thread) = Carried(c)
            /\ ckpt[call[c].thread].vals = call[c].vals)'
  BY AtWorkReads, PTL
<1>. QED
  BY <1>1

LEMMA QuietReads ==
  \A t \in Thread : Quiet(t) => Worker(t) = None /\ Licence(t) = None
<1>1. \A t \in Thread : Quiet(t) => AtWork(t) = {}
  BY DEF Quiet, AtWork, Busy
<1>. QED
  BY <1>1 DEF Worker, Licence

LEMMA QuietReadsNext ==
  \A t \in Thread : Quiet(t)' => Worker(t)' = None /\ Licence(t)' = None
<1>1. (\A t \in Thread : Quiet(t) => Worker(t) = None /\ Licence(t) = None)'
  BY QuietReads, PTL
<1>. QED
  BY <1>1

LEMMA Reads ==
  \A t \in Thread : /\ Stages[t] = Stage(t)
                    /\ Workers[t] = Worker(t)
                    /\ Questions[t] = ckpt[t].vals.question
                    /\ Spent[t] = ckpt[t].vals.generated
                    /\ Licences[t] = Licence(t)
  BY DEF Stages, Workers, Questions, Spent, Licences
-----------------------------------------------------------------------------
(***************************************************************************)
(* What a step leaves alone.                                               *)
(***************************************************************************)

\* A thread whose checkpoint and whose calls at work stay reads the same.
LEMMA Untouched ==
  ASSUME NEW u \in Thread, ckpt'[u] = ckpt[u],
         \A d \in Call : \/ call'[d] = call[d]
                         \/ d \notin AtWork(u) /\ d \notin AtWork(u)'
  PROVE  Stage(u)' = Stage(u) /\ Worker(u)' = Worker(u) /\ Licence(u)' = Licence(u)
<1>1. AtWork(u)' = AtWork(u)
  BY DEF AtWork
<1>2. Stage(u)' = Stage(u)
  BY DEF Stage
<1>3. Worker(u)' = Worker(u)
  BY <1>1 DEF Worker
<1>4. CASE AtWork(u) = {}
  BY <1>1, <1>2, <1>3, <1>4 DEF Licence
<1>5. CASE AtWork(u) # {}
  <2>1. Worker(u) \in AtWork(u)
    BY <1>5 DEF Worker
  <2>2. \A d \in AtWork(u) : d \in Call /\ call'[d] = call[d]
    BY DEF AtWork
  <2>. QED
    BY <1>1, <1>2, <1>3, <2>1, <2>2 DEF Licence
<1>. QED
  BY <1>4, <1>5

\* A call takes a step on thread t and leaves every other call and thread alone.
StepsOn(c, t) ==
    /\ \A d \in Call \ {c} : call'[d] = call[d]
    /\ \A u \in Thread \ {t} : ckpt'[u] = ckpt[u]
    /\ Active(c) => call[c].thread = t
    /\ call'[c].thread = t

LEMMA OnlyHere ==
  ASSUME NEW c \in Call, NEW t \in Thread, StepsOn(c, t)
  PROVE  /\ Stages' = [Stages EXCEPT ![t] = Stage(t)']
         /\ Workers' = [Workers EXCEPT ![t] = Worker(t)']
         /\ Questions' = [Questions EXCEPT ![t] = ckpt'[t].vals.question]
         /\ Spent' = [Spent EXCEPT ![t] = ckpt'[t].vals.generated]
         /\ Licences' = [Licences EXCEPT ![t] = Licence(t)']
<1>1. ASSUME NEW u \in Thread \ {t}
      PROVE  /\ ckpt'[u] = ckpt[u]
             /\ Stage(u)' = Stage(u) /\ Worker(u)' = Worker(u) /\ Licence(u)' = Licence(u)
  <2>1. c \notin AtWork(u) /\ c \notin AtWork(u)'
    BY DEF StepsOn, AtWork, Active
  <2>2. \A d \in Call : \/ call'[d] = call[d]
                        \/ d \notin AtWork(u) /\ d \notin AtWork(u)'
    BY <2>1 DEF StepsOn
  <2>. QED
    BY <2>2, Untouched DEF StepsOn
<1>2. Stages' = [Stages EXCEPT ![t] = Stage(t)']
  BY <1>1 DEF Stages
<1>3. Workers' = [Workers EXCEPT ![t] = Worker(t)']
  BY <1>1 DEF Workers
<1>4. Questions' = [Questions EXCEPT ![t] = ckpt'[t].vals.question]
  BY <1>1 DEF Questions
<1>5. Spent' = [Spent EXCEPT ![t] = ckpt'[t].vals.generated]
  BY <1>1 DEF Spent
<1>6. Licences' = [Licences EXCEPT ![t] = Licence(t)']
  BY <1>1 DEF Licences
<1>. QED
  BY <1>2, <1>3, <1>4, <1>5, <1>6

\* What reads the same at t reads the same everywhere.
LEMMA SameHere ==
  ASSUME NEW c \in Call, NEW t \in Thread, StepsOn(c, t)
  PROVE  /\ Stage(t)' = Stage(t) => Stages' = Stages
         /\ Worker(t)' = Worker(t) => Workers' = Workers
         /\ ckpt'[t].vals.question = ckpt[t].vals.question => Questions' = Questions
         /\ ckpt'[t].vals.generated = ckpt[t].vals.generated => Spent' = Spent
         /\ Licence(t)' = Licence(t) => Licences' = Licences
<1>1. Stage(t)' = Stage(t) => Stages' = Stages
  BY OnlyHere DEF Stages
<1>2. Worker(t)' = Worker(t) => Workers' = Workers
  BY OnlyHere DEF Workers
<1>3. ckpt'[t].vals.question = ckpt[t].vals.question => Questions' = Questions
  BY OnlyHere DEF Questions
<1>4. ckpt'[t].vals.generated = ckpt[t].vals.generated => Spent' = Spent
  BY OnlyHere DEF Spent
<1>5. Licence(t)' = Licence(t) => Licences' = Licences
  BY OnlyHere DEF Licences
<1>. QED
  BY <1>1, <1>2, <1>3, <1>4, <1>5
-----------------------------------------------------------------------------
(***************************************************************************)
(* Each way a call steps is a step of the promise.                         *)
(***************************************************************************)

PromiseStep == [Promise!Next]_(Promise!vars)

\* A call at work hands channels v to node n.
LEMMA AdvancePromise ==
  ASSUME TInv, TInv', NEW c \in Call, NEW n \in Node, NEW v \in Channels,
         Busy(c), Advance(c, v, n), v.question = call[c].vals.question
  PROVE  /\ call[c].thread \in Thread
         /\ StepsOn(c, call[c].thread)
         /\ Workers[call[c].thread] = c
         /\ Licences[call[c].thread] = Carried(c)
         /\ Stages' = Stages /\ Workers' = Workers /\ Questions' = Questions
         /\ Spent[call[c].thread] = call[c].vals.generated
         /\ Spent' = [Spent EXCEPT ![call[c].thread] = v.generated]
         /\ v.generated = call[c].vals.generated => Spent' = Spent
         /\ Licences' = [Licences EXCEPT ![call[c].thread] = None]
<1> DEFINE T == call[c].thread
           r == [call[c] EXCEPT !.pc = n, !.vals = v, !.decision = "none", !.flagged = FALSE]
<1>1. /\ T \in Thread /\ Worker(T) = c /\ Stage(T) = "open" /\ Licence(T) = Carried(c)
      /\ ckpt[T].vals = call[c].vals /\ call[c] \in Run
  BY AtWorkReads DEF TInv, IInv, StateOK
<1>2. /\ call' = [call EXCEPT ![c] = r]
      /\ ckpt' = [ckpt EXCEPT ![T] = [next |-> n, vals |-> v]]
  BY DEF Advance
<1>3. /\ r.pc = n /\ r.thread = T /\ r.decision = "none"
  BY <1>1 DEF Run
<1>4. /\ call'[c] = r /\ ckpt'[T].vals = v /\ StepsOn(c, T)
  BY <1>1, <1>2, <1>3 DEF TInv, IInv, StateOK, StepsOn
<1>5. Busy(c)'
  BY <1>3, <1>4 DEF Busy, Node
<1>6. Worker(T)' = c /\ Stage(T)' = "open" /\ Licence(T)' = None
  BY <1>3, <1>4, <1>5, AtWorkReadsNext DEF Carried
<1>. QED
  BY <1>1, <1>4, <1>6, OnlyHere, SameHere, Reads

\* A super-step that generates nothing and runs nothing.
LEMMA LapsePromise ==
  ASSUME TInv, TInv', NEW c \in Call, NEW n \in Node, NEW v \in Channels,
         Busy(c), Advance(c, v, n), v.question = call[c].vals.question,
         v.generated = call[c].vals.generated, ran' = ran
  PROVE  PromiseStep
<1> DEFINE T == call[c].thread
<1>1. Promise!Lapse(T)
  BY AdvancePromise, NoneAssumption DEF Promise!Lapse
<1>. QED
  BY <1>1, AdvancePromise DEF PromiseStep, Promise!Next

\* A call at work ends; a thread it leaves behind is as it was, or settled.
LEMMA ReplyPromise ==
  ASSUME TInv, TInv', NEW c \in Call, NEW t, t = call[c].thread, Busy(c),
         \A d \in Call \ {c} : call'[d] = call[d],
         call'[c].pc = "done", call'[c].thread = t,
         \A u \in Thread \ {t} : ckpt'[u] = ckpt[u],
         ckpt'[t].next = ckpt[t].next \/ ckpt'[t].next = "end",
         ckpt'[t].vals.question = ckpt[t].vals.question,
         ckpt'[t].vals.generated = ckpt[t].vals.generated,
         ran' = ran
  PROVE  PromiseStep
<1>1. t \in Thread /\ Worker(t) = c /\ Alone(c, t)
  BY AtWorkReads, ActiveAlone DEF Busy, Active
<1>2. StepsOn(c, t)
  BY DEF StepsOn
<1>3. Quiet(t)'
  BY <1>1 DEF Quiet, Alone, Busy, Active
<1>4. Worker(t)' = None /\ Licence(t)' = None
  BY <1>1, <1>3, QuietReadsNext
<1>5. Stage(t)' = Stage(t) \/ Stage(t)' = "settled"
  BY DEF Stage
<1>6. Promise!Reply(t)
  BY <1>1, <1>2, <1>4, <1>5, OnlyHere, SameHere, Reads, NoneAssumption DEF Promise!Reply
<1>. QED
  BY <1>1, <1>6 DEF PromiseStep, Promise!Next

LEMMA ReturnPromise ==
  ASSUME TInv, TInv', NEW c \in Call, NEW v, NEW how, Busy(c), Return(c, v, how),
         v.question = call[c].vals.question, v.generated = call[c].vals.generated,
         ran' = ran
  PROVE  PromiseStep
<1> DEFINE T == call[c].thread
<1>1. T \in Thread /\ ckpt[T].vals = call[c].vals
  BY AtWorkReads
<1>2. /\ \A d \in Call \ {c} : call'[d] = call[d]
      /\ call'[c].pc = "done" /\ call'[c].thread = T
  BY DEF Return, TInv, IInv, StateOK, Run
<1>3. /\ \A u \in Thread \ {T} : ckpt'[u] = ckpt[u]
      /\ ckpt'[T] = [next |-> "end", vals |-> v]
  BY <1>1 DEF Return, TInv, IInv, StateOK
<1>. QED
  BY <1>1, <1>2, <1>3, ReplyPromise

LEMMA LeavePromise ==
  ASSUME TInv, TInv', NEW c \in Call, NEW r, NEW how, Busy(c),
         Leave(c, how, r) \/ Break(c, how), ran' = ran
  PROVE  PromiseStep
<1>1. /\ \A d \in Call \ {c} : call'[d] = call[d]
      /\ call'[c].pc = "done" /\ call'[c].thread = call[c].thread /\ ckpt' = ckpt
  BY DEF Leave, Break, TInv, IInv, StateOK, Run
<1>. QED
  BY <1>1, ReplyPromise

\* A call at work moves on within the executor node, with new licence l.
LEMMA MovePromise ==
  ASSUME TInv, TInv', NEW c \in Call, NEW p \in {"estimate", "run", "put"}, NEW f \in BOOLEAN,
         Busy(c), call' = [call EXCEPT ![c] = [call[c] EXCEPT !.pc = p, !.flagged = f]],
         ckpt' = ckpt
  PROVE  /\ call[c].thread \in Thread
         /\ Workers[call[c].thread] = c
         /\ Licences[call[c].thread] = Carried(c)
         /\ Stages' = Stages /\ Workers' = Workers /\ Questions' = Questions /\ Spent' = Spent
         /\ p = "put" => Licences' = [Licences EXCEPT ![call[c].thread] = None]
         /\ p # "put" /\ call[c].pc # "put" => Licences' = Licences
<1> DEFINE T == call[c].thread
           r == [call[c] EXCEPT !.pc = p, !.flagged = f]
<1>1. /\ T \in Thread /\ Worker(T) = c /\ Stage(T) = "open" /\ Licence(T) = Carried(c)
      /\ call[c] \in Run
  BY AtWorkReads DEF TInv, IInv, StateOK
<1>2. /\ r.pc = p /\ r.thread = T /\ r.decision = call[c].decision /\ r.grant = call[c].grant
  BY <1>1 DEF Run
<1>3. call'[c] = r /\ StepsOn(c, T)
  BY <1>1, <1>2 DEF TInv, IInv, StateOK, StepsOn
<1>4. Busy(c)'
  BY <1>2, <1>3 DEF Busy
<1>5. Worker(T)' = c /\ Stage(T)' = "open" /\ Licence(T)' = Carried(c)'
  BY <1>2, <1>3, <1>4, AtWorkReadsNext
<1>6. /\ p = "put" => Carried(c)' = None
      /\ p # "put" /\ call[c].pc # "put" => Carried(c)' = Carried(c)
  BY <1>2, <1>3 DEF Carried
<1>. QED
  BY <1>1, <1>3, <1>5, <1>6, OnlyHere, SameHere, Reads

\* A step that changes nothing the promise speaks of.
LEMMA Stutter ==
  ASSUME Stages' = Stages, Workers' = Workers, Questions' = Questions,
         Spent' = Spent, Licences' = Licences, ran' = ran
  PROVE  PromiseStep
  BY DEF PromiseStep, Promise!vars

LEMMA AskPromise ==
  ASSUME ~Overlap, TInv, TInv', NEW c \in Call, NEW t \in Thread, Ask(c, t)
  PROVE  PromiseStep
<1> DEFINE v == StartQuestion(ckpt[t].vals, c)
           r == [call[c] EXCEPT !.pc = "guardrails_in", !.thread = t, !.vals = v]
<1>1. /\ call[c].pc = "idle" /\ Alone(c, t) /\ call[c] \in Run /\ ckpt[t].vals \in Channels
      /\ call[c].decision = "none" /\ ran' = ran
  BY FreeAlone DEF Ask, TInv, IInv, StateOK, Checkpoint, ApprovalInv
<1>2. /\ call' = [call EXCEPT ![c] = r]
      /\ ckpt' = [ckpt EXCEPT ![t] = [next |-> "guardrails_in", vals |-> v]]
  BY DEF Ask
<1>3. /\ r.pc = "guardrails_in" /\ r.thread = t /\ r.decision = "none"
      /\ v.question = c /\ v.generated = 0
  BY <1>1 DEF Run, StartQuestion, Channels
<1>4. call'[c] = r /\ ckpt'[t].vals = v /\ StepsOn(c, t)
  BY <1>1, <1>2, <1>3 DEF TInv, IInv, StateOK, StepsOn, Active
<1>5. Quiet(t) /\ Busy(c)'
  BY <1>1, <1>3, <1>4 DEF Quiet, Alone, Active, Busy
<1>6. Worker(t) = None /\ Licence(t) = None
  BY <1>5, QuietReads
<1>7. Worker(t)' = c /\ Stage(t)' = "open" /\ Licence(t)' = None
  <2>1. call'[c].thread = t /\ call'[c].decision = "none"
    BY <1>3, <1>4
  <2>2. Carried(c)' = None
    BY <2>1 DEF Carried
  <2>3. /\ Worker(call[c].thread)' = c /\ Stage(call[c].thread)' = "open"
        /\ Licence(call[c].thread)' = None
    BY <1>5, <2>2, AtWorkReadsNext
  <2>. QED
    BY <2>1, <2>3
<1>8. Promise!Ask(t, c)
  BY <1>1, <1>3, <1>4, <1>6, <1>7, OnlyHere, SameHere, Reads DEF Promise!Ask
<1>. QED
  BY <1>8 DEF PromiseStep, Promise!Next

\* A call that is not at work, before and after the step.
LEMMA AsidePromise ==
  ASSUME NEW c \in Call, ~Busy(c), ~Busy(c)', ckpt' = ckpt, ran' = ran,
         \A d \in Call \ {c} : call'[d] = call[d]
  PROVE  PromiseStep
<1>1. c \in Call /\ \A u \in Thread : c \notin AtWork(u) /\ c \notin AtWork(u)'
  BY DEF AtWork, Busy
<1>2. \A u \in Thread :
        Stage(u)' = Stage(u) /\ Worker(u)' = Worker(u) /\ Licence(u)' = Licence(u)
  BY <1>1, Untouched
<1>. QED
  BY <1>2, Stutter DEF Stages, Workers, Questions, Spent, Licences

LEMMA DecidePromise ==
  ASSUME TInv, NEW c \in Call, NEW t \in Thread, NEW a, Decide(c, t, a)
  PROVE  PromiseStep
<1>1. /\ ~Busy(c) /\ ckpt' = ckpt /\ ran' = ran
      /\ call'[c].pc = "resume"
      /\ \A d \in Call \ {c} : call'[d] = call[d]
  BY DEF Decide, Busy, TInv, IInv, StateOK, Run
<1>2. ~Busy(c)'
  BY <1>1 DEF Busy
<1>. QED
  BY <1>1, <1>2, AsidePromise

LEMMA ResumePromise ==
  ASSUME TInv, TInv', NEW c \in Call, Resume(c)
  PROVE  PromiseStep
<1> DEFINE T == call[c].thread
           k == ckpt[T]
           r == [call[c] EXCEPT !.pc = k.next, !.vals = k.vals]
<1>1. /\ call[c].pc = "resume" /\ Active(c) /\ ran' = ran
      /\ Alone(c, T) /\ T \in Thread /\ call[c] \in Run /\ k \in Checkpoint
      /\ k.next # "none" /\ GrantFits(c) /\ ApprovalInv(c)
  BY ActiveAlone DEF Resume, Active, TInv, IInv, StateOK, CallInv
<1>2. CASE k.next = "end"
  <2>1. Leave(c, "replayed", k.vals.result)
    BY <1>2 DEF Resume
  <2>2. /\ call'[c].pc = "done" /\ ckpt' = ckpt
        /\ \A d \in Call \ {c} : call'[d] = call[d]
    BY <1>1, <2>1 DEF Leave, TInv, IInv, StateOK, Run
  <2>3. ~Busy(c) /\ ~Busy(c)'
    BY <1>1, <2>2 DEF Busy
  <2>. QED
    BY <1>1, <2>2, <2>3, AsidePromise
<1>3. CASE k.next # "end"
  <2>1. call' = [call EXCEPT ![c] = r] /\ ckpt' = ckpt /\ k.next \in Node
    BY <1>1, <1>3 DEF Resume, Checkpoint
  <2>2. /\ r.pc = k.next /\ r.thread = T
        /\ r.decision = call[c].decision /\ r.grant = call[c].grant
    BY <1>1 DEF Run
  <2>3. call'[c] = r /\ StepsOn(c, T)
    BY <1>1, <2>1, <2>2 DEF TInv, IInv, StateOK, StepsOn
  <2>4. Quiet(T) /\ Busy(c)'
    BY <1>1, <2>1, <2>2, <2>3 DEF Quiet, Alone, Active, Busy, Node
  <2>5. Worker(T) = None /\ Stage(T) = "open"
    BY <1>1, <1>3, <2>4, QuietReads DEF Stage
  <2>6. Worker(T)' = c /\ Stage(T)' = "open" /\ Licence(T)' = Carried(c)'
    BY <2>2, <2>3, <2>4, AtWorkReadsNext
  <2>7. Carried(c)' \in {q \in Pending : q.question = k.vals.question} \cup {None}
    <3>1. CASE call[c].decision = "approve"
      <4>1. call[c].grant = ItemOf(k.vals) /\ call[c].grant \in Pending
        BY <1>1, <3>1 DEF GrantFits, ApprovalInv, Run
      <4>2. Carried(c)' = call[c].grant
        BY <2>1, <2>2, <2>3, <3>1 DEF Carried, Node
      <4>. QED
        BY <4>1, <4>2 DEF ItemOf
    <3>2. CASE call[c].decision # "approve"
      BY <2>2, <2>3, <3>2 DEF Carried
    <3>. QED
      BY <3>1, <3>2
  <2>8. Promise!Continue(T, c)
    <3>1. Workers[T] = None /\ Stages[T] = "open" /\ Questions[T] = k.vals.question
      BY <1>1, <2>5, Reads
    <3>2. /\ Workers' = [Workers EXCEPT ![T] = c]
          /\ Licences' = [Licences EXCEPT ![T] = Carried(c)']
          /\ Stages' = Stages /\ Questions' = Questions /\ Spent' = Spent
      BY <1>1, <2>1, <2>3, <2>5, <2>6, OnlyHere, SameHere
    <3>. QED
      BY <1>1, <2>7, <3>1, <3>2 DEF Promise!Continue
  <2>. QED
    BY <1>1, <2>8 DEF PromiseStep, Promise!Next
<1>. QED
  BY <1>2, <1>3
-----------------------------------------------------------------------------
(***************************************************************************)
(* The actions.                                                            *)
(***************************************************************************)
LEMMA StepPromise ==
  ASSUME TInv, TInv', NEW c \in Call, Step(c), call[c].pc \in Working,
         call[c].pc # "generate_sql", ran' = ran
  PROVE  PromiseStep
  BY WorkingBusy, LapsePromise DEF Step

\* A call that generates is within the budget.
LEMMA GeneratePromise ==
  ASSUME TInv, TInv', NEW c \in Call, GenerateSql(c)
  PROVE  PromiseStep
<1> DEFINE T == call[c].thread
           u == call[c].vals
<1>1. /\ call[c].pc = "generate_sql" /\ u \in Channels /\ ran' = ran
      /\ u.generated \in Nat /\ u.generated <= MaxSqlRetries
  BY Running DEF GenerateSql, TInv, NodeInv, NodeOf, Node, BeforeSql, Channels
<1>2. Busy(c)
  BY <1>1 DEF Busy
<1>3. PICK n \in Node, v \in Channels : /\ Advance(c, v, n) /\ v.question = u.question
                                        /\ v.generated = u.generated + 1
  <2>1. PICK o \in Output : Advance(c, Generated(u, o), "validate")
    BY DEF GenerateSql
  <2>2. CountUpTo(u.generated, MaxSqlRetries + 2) = u.generated + 1
    BY <1>1, RetriesAssumption DEF CountUpTo
  <2>3. Generated(u, o).question = u.question /\ Generated(u, o).generated = u.generated + 1
    BY <1>1, <2>2 DEF Generated, Channels
  <2>4. Generated(u, o) \in Channels
    <3>1. u.attempts + 1 \in Nat /\ u.generated + 1 \in Nat
      BY <1>1 DEF Channels
    <3>. QED
      BY <1>1, <2>2, <3>1 DEF Generated, Channels
  <2>. QED
    BY <2>1, <2>3, <2>4 DEF Node
<1>4. Promise!Generate(T)
  <2>1. /\ T \in Thread /\ Workers[T] = c /\ Spent[T] = u.generated
        /\ Stages' = Stages /\ Workers' = Workers /\ Questions' = Questions
        /\ Spent' = [Spent EXCEPT ![T] = u.generated + 1]
        /\ Licences' = [Licences EXCEPT ![T] = None]
    BY <1>2, <1>3, AdvancePromise
  <2>2. Workers[T] # None /\ Spent[T] < MaxSqlRetries + 1
    BY <1>1, <2>1, NoneAssumption, RetriesAssumption
  <2>. QED
    BY <1>1, <2>1, <2>2 DEF Promise!Generate
<1>. QED
  BY <1>2, <1>4, AtWorkReads DEF PromiseStep, Promise!Next

LEMMA LookUpPromise ==
  ASSUME TInv, TInv', NEW c \in Call, LookUp(c)
  PROVE  PromiseStep
<1>1. call[c].pc = "execute" /\ ran' = ran /\ Busy(c) /\ call[c].pc \in Working
  BY LookUpSteps DEF Busy, Working, Node
<1>2. CASE Step(c)
  BY <1>1, <1>2, StepPromise
<1>3. CASE \E f \in BOOLEAN :
             /\ call' = [call EXCEPT ![c] = [call[c] EXCEPT !.pc = "estimate", !.flagged = f]]
             /\ ckpt' = ckpt
  BY <1>1, <1>3, MovePromise, Stutter
<1>. QED
  BY <1>2, <1>3, LookUpSteps

LEMMA EstimatePromise ==
  ASSUME TInv, TInv', NEW c \in Call, Estimate(c)
  PROVE  PromiseStep
<1> DEFINE v == call[c].vals
<1>1. call[c].pc = "estimate" /\ v \in Channels /\ ran' = ran /\ Busy(c)
  BY DEF Estimate, TInv, IInv, StateOK, Run, Busy
<1>2. \/ Leave(c, "paused", v.result)
      \/ Return(c, Declined(v), "declined")
      \/ \E f \in BOOLEAN : call' = [call EXCEPT ![c].pc = "run", ![c].flagged = f]
                            /\ UNCHANGED ckpt
  BY DEF Estimate
<1>3. CASE Leave(c, "paused", v.result)
  BY <1>1, <1>3, LeavePromise
<1>4. CASE Return(c, Declined(v), "declined")
  BY <1>1, <1>4, UpdatesAreChannels, ReturnPromise
<1>5. CASE \E f \in BOOLEAN : call' = [call EXCEPT ![c].pc = "run", ![c].flagged = f]
                              /\ UNCHANGED ckpt
  <2>1. \E f \in BOOLEAN :
          call' = [call EXCEPT ![c] = [call[c] EXCEPT !.pc = "run", !.flagged = f]]
    BY <1>5
  <2>. QED
    BY <1>1, <1>5, <2>1, MovePromise, Stutter
<1>. QED
  BY <1>2, <1>3, <1>4, <1>5

\* The licence of a flagged run is the statement in hand, and it is used up.
LEMMA RunQueryPromise ==
  ASSUME TInv, TInv', NEW c \in Call, RunQuery(c)
  PROVE  PromiseStep
<1> DEFINE T == call[c].thread
           u == call[c].vals
           v == ExecutionFailed(u)
<1>1. /\ call[c].pc = "run" /\ Busy(c) /\ u \in Channels /\ call[c].flagged \in BOOLEAN
      /\ GrantFits(c) /\ ApprovalInv(c) /\ call[c] \in Run
  BY DEF RunQuery, TInv, IInv, StateOK, Run, Busy
<1>2. /\ T \in Thread /\ Workers[T] = c /\ Licences[T] = Carried(c)
      /\ Stages' = Stages /\ Workers' = Workers /\ Questions' = Questions /\ Spent' = Spent
      /\ Licences' = [Licences EXCEPT ![T] = None]
  <2>1. CASE Advance(c, v, RouteAfterExecute(v))
    <3>1. /\ v \in Channels /\ v.question = u.question /\ v.generated = u.generated
          /\ ~v.needsApproval
      BY <1>1, UpdatesAreChannels DEF Channels, ExecutionFailed
    <3>2. RouteAfterExecute(v) \in Node
      BY <3>1 DEF RouteAfterExecute, Node
    <3>. QED
      BY <1>1, <2>1, <3>1, <3>2, AdvancePromise
  <2>2. CASE call' = [call EXCEPT ![c].pc = "put"] /\ UNCHANGED ckpt
    <3>1. [call[c] EXCEPT !.pc = "put"]
            = [call[c] EXCEPT !.pc = "put", !.flagged = call[c].flagged]
      BY <1>1 DEF Run
    <3>2. call' = [call EXCEPT ![c] =
                     [call[c] EXCEPT !.pc = "put", !.flagged = call[c].flagged]]
      BY <2>2, <3>1
    <3>. QED
      BY <1>1, <2>2, <3>2, MovePromise
  <2>. QED
    BY <2>1, <2>2 DEF RunQuery
<1>3. CASE call[c].flagged
  <2>1. /\ Carried(c) = ItemOf(u) /\ Carried(c) # None
        /\ ran' = [ran EXCEPT ![c] = Append(@, ItemOf(u))]
    BY <1>1, <1>3 DEF Carried, GrantFits, ApprovalInv, RunQuery, ItemOf
  <2>2. Promise!RunLicensed(T)
    BY <1>2, <2>1, NoneAssumption DEF Promise!RunLicensed
  <2>. QED
    BY <1>2, <2>2 DEF PromiseStep, Promise!Next
<1>4. CASE ~call[c].flagged
  <2>1. ran' = ran
    BY <1>4 DEF RunQuery
  <2>2. Promise!Lapse(T)
    BY <1>2, <2>1, NoneAssumption DEF Promise!Lapse
  <2>. QED
    BY <1>2, <2>2 DEF PromiseStep, Promise!Next
<1>. QED
  BY <1>3, <1>4

LEMMA EndsPromise ==
  ASSUME TInv, TInv', NEW c \in Call, Finalize(c) \/ Fail(c) \/ Raise(c) \/ Abandon(c)
  PROVE  PromiseStep
<1> DEFINE u == call[c].vals
<1>1. /\ u \in Channels /\ ran' = ran /\ Busy(c)
  BY DEF Finalize, Fail, Raise, Abandon, RaisingNode, Runs, Node, Busy, TInv, IInv, StateOK, Run
<1>2. \A w \in {Finalized(u), Failed(u)} :
        w.question = u.question /\ w.generated = u.generated
  BY <1>1 DEF Channels, Finalized, Failed
<1>. QED
  BY <1>1, <1>2, ReturnPromise, LeavePromise DEF Finalize, Fail, Raise, Abandon
-----------------------------------------------------------------------------
LEMMA InitPromise == Init => Promise!Init
<1> SUFFICES ASSUME Init PROVE Promise!Init
  OBVIOUS
<1>1. \A t \in Thread : /\ Stage(t) = "empty"
                        /\ ckpt[t].vals.question = None /\ ckpt[t].vals.generated = 0
  BY DEF Init, Stage, Blank
<1>2. \A t \in Thread : Quiet(t)
  BY DEF Init, Quiet, Busy
<1>. QED
  BY <1>1, <1>2, QuietReads
     DEF Promise!Init, Init, Stages, Workers, Questions, Spent, Licences

LEMMA NextPromise == ~Overlap /\ TInv /\ TInv' /\ [Next]_vars => PromiseStep
<1> SUFFICES ASSUME ~Overlap, TInv, TInv', [Next]_vars PROVE PromiseStep
  OBVIOUS
<1>1. ASSUME NEW c \in Call, Client(c) PROVE PromiseStep
  BY <1>1, AskPromise, DecidePromise, EndsPromise DEF Client
<1>2. ASSUME NEW c \in Call, CallStep(c) PROVE PromiseStep
  <2>1. CASE GuardrailsIn(c) \/ LoadSchema(c) \/ Understand(c) \/ Validate(c)
    <3>1. call[c].pc # "generate_sql"
      BY <2>1 DEF GuardrailsIn, LoadSchema, Understand, Validate
    <3>. QED
      BY <2>1, <3>1, StepsBeforeExecute, StepPromise
  <2>2. CASE PutCache(c) \/ Analyze(c) \/ GenerateResponse(c) \/ GuardrailsOut(c)
    <3>1. call[c].pc # "generate_sql"
      BY <2>2 DEF PutCache, Analyze, GenerateResponse, GuardrailsOut
    <3>. QED
      BY <2>2, <3>1, StepsAfterExecute, StepPromise
  <2>. QED
    BY <1>2, <2>1, <2>2, ResumePromise, GeneratePromise, LookUpPromise,
       EstimatePromise, RunQueryPromise, EndsPromise
       DEF CallStep
<1>3. CASE UNCHANGED <<ckpt, call, ran>>
  <2>1. \A u \in Thread :
          Stage(u)' = Stage(u) /\ Worker(u)' = Worker(u) /\ Licence(u)' = Licence(u)
    BY <1>3, Untouched
  <2>. QED
    BY <1>3, <2>1, Stutter DEF Stages, Workers, Questions, Spent, Licences
<1>. QED
  BY <1>1, <1>2, <1>3 DEF Next, Expire, vars

\* The workflow implements what the agent promises of a thread: one question
\* after the other within its budget, and an approval that licenses one run of
\* the statement it was given for.
THEOREM PromiseKept ==
  ASSUME ~Overlap PROVE Spec => KeepsPromise
<1>1. TInv /\ TInv' /\ [Next]_vars => [Promise!Next]_(Promise!vars)
  BY NextPromise DEF PromiseStep
<1>. QED
  BY <1>1, InitPromise, TurnInvariance, PTL DEF Spec, KeepsPromise, Promise!Spec
=============================================================================

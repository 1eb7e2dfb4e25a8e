----------------------- MODULE ConversationTurnProofs -----------------------
(***************************************************************************)
(* Proof, for limits that are even, that a follow-up question sees the last*)
(* whole turn of its thread while the workers on that thread take turns.   *)
(*                                                                         *)
(* Beside the invariant of ConversationProofs it takes that one run at most*)
(* is at work on such a thread (Solo), and what the thread remembers: whole*)
(* turns that end with the last summary (WholeTurns), or, between the two  *)
(* appends of a run, that and a question (HalfWay).                        *)
(***************************************************************************)
EXTENDS ConversationProofs

\* A turn is two messages: an odd limit would cut one in half.
EvenLimits == MaxHistory % 2 = 0 /\ PlannerLimit % 2 = 0

\* Questions and answers, in turn, beginning with a question.
WholeMessages(h) ==
    \A i \in DOMAIN h :
        IF i % 2 = 1 THEN i < Len(h) /\ Answers(h[i + 1], h[i]) ELSE h[i].role = "assistant"

Turns(h) == Len(h) % 2 = 0 /\ WholeMessages(h)

\* Turns that end with the question q; those of a full deque begin with an answer.
HalfTurn(h, q) ==
    \E p \in {0, 1} :
        /\ (Len(h) + p) % 2 = 1
        /\ p = 1 => Len(h) = MaxHistory
        /\ \A i \in DOMAIN h :
              IF (i + p) % 2 = 1
                THEN h[i].role = "user" /\ (i < Len(h) => Answers(h[i + 1], h[i]))
                ELSE h[i].role = "assistant"
        /\ h # <<>> /\ h[Len(h)] = q

\* The messages h end with m, if there is an m.
EndsWith(h, m) == IF m = None THEN h = <<>> ELSE h # <<>> /\ h[Len(h)] = m

Solo ==
    \A c, d \in Call : AtWork(c) /\ AtWork(d) /\ on[c] = on[d] /\ on[c] \notin crowded => c = d

WholeTurns ==
    \A t \in Thread \ crowded :
        (\A c \in Call : Owes(c) => on[c] # t) =>
            Turns(history[t]) /\ EndsWith(history[t], written[t])

HalfWay ==
    \A c \in Call : Owes(c) /\ on[c] \notin crowded =>
        HalfTurn(history[on[c]], Question(c)) /\ written[on[c]] = Answer(c, draft[c])

\* A call that has not been made has read nothing.
Unread == \A c \in Call : pc[c] = "idle" => seen[c] = <<>> /\ before[c] = None

TurnInv ==
    /\ IInv
    /\ Solo /\ WholeTurns /\ HalfWay /\ Unread
    /\ FollowUpSeesTheLastTurn

-----------------------------------------------------------------------------
(***************************************************************************)
(* Turns in the deque and in what the planner reads of it.                 *)
(***************************************************************************)
LEMMA QuestionFits ==
  ASSUME EvenLimits, NEW h \in Seq(Message), Len(h) <= MaxHistory, Turns(h),
         NEW m \in Message, m.role = "user"
  PROVE  HalfTurn(Push(h, m), m)
<1>. DEFINE g == Push(h, m)
<1>0. MaxHistory \in Nat \ {0} /\ Len(h) \in Nat
  BY LimitsAssumption
<1>1. /\ MaxHistory \in Nat \ {0} /\ MaxHistory % 2 = 0
      /\ Len(h) \in Nat /\ Len(h) % 2 = 0 /\ DOMAIN h = 1..Len(h)
  BY LimitsAssumption DEF EvenLimits, Turns
<1>3. /\ g \in Seq(Message) /\ Len(g) \in 1..MaxHistory /\ g[Len(g)] = m
      /\ Len(h) < MaxHistory => Len(g) = Len(h) + 1 /\ \A j \in 1..Len(h) : g[j] = h[j]
      /\ Len(h) = MaxHistory =>
           Len(g) = MaxHistory /\ \A j \in 1..(MaxHistory - 1) : g[j] = h[j + 1]
  BY PushFacts
<1>. HIDE DEF g
<1>s. DOMAIN g = 1..Len(g) /\ Len(g) \in Nat \ {0}
  BY <1>0, <1>3
<1>e. g # <<>>
  BY <1>s
<1>4. \A i \in 1..Len(h) :
        IF i % 2 = 1
          THEN i < Len(h) /\ Answers(h[i + 1], h[i])
          ELSE h[i].role = "assistant"
  BY <1>1 DEF Turns, WholeMessages
<1>r. \A i \in 1..Len(h) : i % 2 = 1 => h[i].role = "user"
  BY <1>4 DEF Answers
<1>5. g[Len(g)].role = "user"
  BY <1>3
<1>6. CASE Len(h) < MaxHistory
  <2>1. Len(g) = Len(h) + 1 /\ \A j \in 1..Len(h) : g[j] = h[j]
    BY <1>3, <1>6
  <2>2. (Len(g) + 0) % 2 = 1
    BY <1>1, <2>1
  <2>3. ASSUME NEW i \in 1..Len(g)
        PROVE  IF (i + 0) % 2 = 1
                 THEN g[i].role = "user" /\ (i < Len(g) => Answers(g[i + 1], g[i]))
                 ELSE g[i].role = "assistant"
    <3>1. CASE i = Len(g)
      BY <1>s, <1>5, <2>2, <3>1
    <3>2. CASE i \in 1..Len(h)
      <4>1. g[i] = h[i] /\ (i < Len(h) => g[i + 1] = h[i + 1])
        BY <1>1, <2>1, <3>2
      <4>. QED
        BY <1>1, <1>4, <1>r, <3>2, <4>1
    <3>. QED
      BY <1>1, <2>1, <3>1, <3>2
  <2>4. HalfTurn(g, m)
    <3>1. g[Len(g)] = m
      BY <1>3
    <3>. USE DEF HalfTurn
    <3>. WITNESS 0 \in {0, 1}
    <3>. QED
      BY <1>s, <1>e, <2>2, <2>3, <3>1
  <2>. QED
    BY <2>4 DEF g
<1>7. CASE Len(h) = MaxHistory
  <2>1. Len(g) = MaxHistory /\ \A j \in 1..(MaxHistory - 1) : g[j] = h[j + 1]
    BY <1>3, <1>7
  <2>2. (Len(g) + 1) % 2 = 1
    <3>1. ASSUME NEW n \in Nat, n % 2 = 0 PROVE (n + 1) % 2 = 1
      BY <3>1
    <3>. QED
      BY <1>1, <2>1, <3>1
  <2>3. ASSUME NEW i \in 1..Len(g)
        PROVE  IF (i + 1) % 2 = 1
                 THEN g[i].role = "user" /\ (i < Len(g) => Answers(g[i + 1], g[i]))
                 ELSE g[i].role = "assistant"
    <3>1. CASE i = Len(g)
      BY <1>s, <1>5, <2>2, <3>1
    <3>2. CASE i \in 1..(MaxHistory - 1)
      <4>1. /\ g[i] = h[i + 1] /\ i + 1 \in 1..Len(h)
            /\ i + 1 < Len(h) => g[i + 1] = h[(i + 1) + 1]
        BY <1>1, <1>7, <2>1, <3>2
      <4>2. (i + 1) % 2 = 1 => i + 1 < Len(h)
        BY <1>4, <4>1
      <4>. QED
        BY <1>4, <1>r, <4>1, <4>2
    <3>. QED
      BY <1>1, <2>1, <3>1, <3>2
  <2>4. HalfTurn(g, m)
    BY <1>3, <1>s, <1>e, <2>1, <2>2, <2>3 DEF HalfTurn
  <2>. QED
    BY <2>4 DEF g
<1>. QED
  BY <1>0, <1>6, <1>7

LEMMA AnswerFits ==
  ASSUME EvenLimits, NEW h \in Seq(Message), Len(h) <= MaxHistory,
         NEW q \in Message, HalfTurn(h, q),
         NEW m \in Message, Answers(m, q)
  PROVE  Turns(Push(h, m))
<1>. DEFINE g == Push(h, m)
<1>0. MaxHistory \in Nat \ {0} /\ Len(h) \in Nat
  BY LimitsAssumption
<1>1. /\ MaxHistory \in Nat \ {0} /\ MaxHistory % 2 = 0
      /\ Len(h) \in Nat \ {0} /\ DOMAIN h = 1..Len(h)
  BY LimitsAssumption DEF EvenLimits, HalfTurn
<1>3. /\ g \in Seq(Message) /\ Len(g) \in 1..MaxHistory /\ g[Len(g)] = m
      /\ Len(h) < MaxHistory => Len(g) = Len(h) + 1 /\ \A j \in 1..Len(h) : g[j] = h[j]
      /\ Len(h) = MaxHistory =>
           Len(g) = MaxHistory /\ \A j \in 1..(MaxHistory - 1) : g[j] = h[j + 1]
  BY PushFacts
<1>. HIDE DEF g
<1>s. DOMAIN g = 1..Len(g) /\ Len(g) \in Nat \ {0}
  BY <1>0, <1>3
<1>4. h[Len(h)] = q
  BY DEF HalfTurn
<1>5. PICK p \in {0, 1} :
        /\ (Len(h) + p) % 2 = 1
        /\ p = 1 => Len(h) = MaxHistory
        /\ \A i \in 1..Len(h) :
              IF (i + p) % 2 = 1
                THEN h[i].role = "user" /\ (i < Len(h) => Answers(h[i + 1], h[i]))
                ELSE h[i].role = "assistant"
  BY <1>1 DEF HalfTurn
<1>6. g[Len(g)].role = "assistant" /\ Answers(g[Len(g)], q)
  BY <1>3 DEF Answers
<1>7. CASE p = 0
  <2>1. Len(h) % 2 = 1 /\ Len(h) < MaxHistory
    BY <1>1, <1>5, <1>7
  <2>s. Len(g) = Len(h) + 1 /\ \A j \in 1..Len(h) : g[j] = h[j]
    BY <1>3, <2>1
  <2>2. Len(g) = Len(h) + 1 /\ Len(g) % 2 = 0 /\ \A j \in 1..Len(h) : g[j] = h[j]
    <3>1. ASSUME NEW n \in Nat, n % 2 = 1 PROVE (n + 1) % 2 = 0
      BY <3>1
    <3>. QED
      BY <1>0, <2>1, <2>s, <3>1
  <2>3. ASSUME NEW i \in 1..Len(g)
        PROVE  IF i % 2 = 1
                 THEN i < Len(g) /\ Answers(g[i + 1], g[i])
                 ELSE g[i].role = "assistant"
    <3>1. CASE i = Len(g)
      BY <1>6, <2>2, <3>1
    <3>2. CASE i = Len(h)
      BY <1>1, <1>4, <1>5, <1>6, <1>7, <2>1, <2>2, <3>2
    <3>3. CASE i \in 1..(Len(h) - 1)
      <4>1. g[i] = h[i] /\ g[i + 1] = h[i + 1] /\ i \in 1..Len(h) /\ i < Len(h)
        BY <1>1, <2>2, <3>3
      <4>. QED
        BY <1>1, <1>5, <1>7, <2>2, <4>1
    <3>. QED
      BY <1>0, <2>2, <3>1, <3>2, <3>3
  <2>4. Turns(g)
    BY <1>s, <2>2, <2>3 DEF Turns, WholeMessages
  <2>. QED
    BY <2>4 DEF g
<1>8. CASE p = 1
  <2>1. /\ Len(h) = MaxHistory /\ Len(g) = MaxHistory
        /\ \A j \in 1..(MaxHistory - 1) : g[j] = h[j + 1]
    BY <1>3, <1>5, <1>8
  <2>2. ASSUME NEW i \in 1..Len(g)
        PROVE  IF i % 2 = 1
                 THEN i < Len(g) /\ Answers(g[i + 1], g[i])
                 ELSE g[i].role = "assistant"
    <3>1. CASE i = Len(g)
      BY <1>1, <1>6, <2>1, <3>1
    <3>2. CASE i = MaxHistory - 1
      <4>1. g[i] = h[i + 1] /\ i + 1 = Len(h) /\ g[i + 1] = g[Len(g)] /\ i < Len(g)
        BY <1>1, <2>1, <2>2, <3>2
      <4>2. i % 2 = 1 /\ ((i + 1) + p) % 2 = 1
        BY <1>1, <1>8, <3>2, <2>2
      <4>3. h[i + 1].role = "user"
        BY <1>5, <4>1, <4>2
      <4>. QED
        BY <1>4, <1>6, <4>1, <4>2, <4>3
    <3>3. CASE i \in 1..(MaxHistory - 2)
      <4>1. /\ g[i] = h[i + 1] /\ g[i + 1] = h[(i + 1) + 1]
            /\ i + 1 \in 1..Len(h) /\ i + 1 < Len(h) /\ i < Len(g)
        BY <1>1, <2>1, <3>3
      <4>2. (((i + 1) + p) % 2 = 1) <=> (i % 2 = 1)
        BY <1>8, <2>2
      <4>. QED
        BY <1>5, <4>1, <4>2
    <3>. QED
      BY <1>1, <2>1, <3>1, <3>2, <3>3
  <2>3. Turns(g)
    BY <1>1, <1>s, <2>1, <2>2 DEF Turns, WholeMessages
  <2>. QED
    BY <2>3 DEF g
<1>. QED
  BY <1>7, <1>8

LEMMA RecentFits ==
  ASSUME EvenLimits, NEW h \in Seq(Message), Turns(h)
  PROVE  /\ Turns(Recent(h))
         /\ h = <<>> => Recent(h) = <<>>
         /\ h # <<>> => Recent(h) # <<>> /\ Recent(h)[Len(Recent(h))] = h[Len(h)]
<1>1. /\ PlannerLimit \in Nat \ {0} /\ PlannerLimit % 2 = 0
      /\ Len(h) \in Nat /\ Len(h) % 2 = 0 /\ DOMAIN h = 1..Len(h)
  BY LimitsAssumption DEF EvenLimits, Turns
<1>2. CASE Len(h) <= PlannerLimit
  BY <1>2 DEF Recent
<1>3. CASE Len(h) > PlannerLimit
  <2>. DEFINE k == Len(h) - PlannerLimit
              g == Recent(h)
  <2>1. k \in Nat /\ k % 2 = 0 /\ k + 1 \in 1..Len(h) /\ k + PlannerLimit = Len(h)
    BY <1>1, <1>3
  <2>2. g = SubSeq(h, k + 1, Len(h))
    BY <1>1, <1>3 DEF Recent
  <2>3. /\ g \in Seq(Message) /\ Len(g) = PlannerLimit /\ DOMAIN g = 1..PlannerLimit
        /\ \A i \in 1..PlannerLimit : g[i] = h[k + i]
    <3>. HIDE DEF g
    <3>0. PlannerLimit \in Nat \ {0} /\ Len(h) \in Nat /\ k \in Nat
      BY <1>1, <2>1
    <3>1. /\ g \in Seq(Message)
          /\ Len(g) = Len(h) - (k + 1) + 1
          /\ \A i \in 1..(Len(h) - (k + 1) + 1) : g[i] = h[(k + 1) + i - 1]
      BY <2>1, <2>2, <3>0, SubSeqProperties
    <3>2. Len(h) - (k + 1) + 1 = PlannerLimit
      BY <2>1, <3>0
    <3>3. \A i \in 1..PlannerLimit : (k + 1) + i - 1 = k + i
      BY <3>0
    <3>. QED
      BY <3>0, <3>1, <3>2, <3>3
  <2>. HIDE DEF g, k
  <2>4. ASSUME NEW i \in 1..PlannerLimit
        PROVE  IF i % 2 = 1
                 THEN i < Len(g) /\ Answers(g[i + 1], g[i])
                 ELSE g[i].role = "assistant"
    <3>1. k + i \in 1..Len(h) /\ ((k + i) % 2 = 1 <=> i % 2 = 1)
      BY <1>1, <2>1
    <3>2. i % 2 = 1 => i < PlannerLimit
      BY <1>1
    <3>3. g[i] = h[k + i] /\ (i < PlannerLimit => g[i + 1] = h[(k + i) + 1])
      <4>1. i < PlannerLimit => i + 1 \in 1..PlannerLimit /\ k + (i + 1) = (k + i) + 1
        BY <1>1, <2>1
      <4>. QED
        BY <2>3, <4>1
    <3>4. IF (k + i) % 2 = 1
            THEN Answers(h[(k + i) + 1], h[k + i])
            ELSE h[k + i].role = "assistant"
      BY <1>1, <3>1 DEF Turns, WholeMessages
    <3>. QED
      BY <2>3, <3>1, <3>2, <3>3, <3>4
  <2>5. Turns(g)
    BY <1>1, <2>3, <2>4 DEF Turns, WholeMessages
  <2>6. h # <<>> /\ g # <<>> /\ g[Len(g)] = h[Len(h)]
    BY <1>1, <1>3, <2>1, <2>3
  <2>. QED
    BY <2>5, <2>6 DEF g
<1>. QED
  BY <1>1, <1>2, <1>3

-----------------------------------------------------------------------------
(***************************************************************************)
(* The steps that leave alone what the thread remembers; what was read of  *)
(* it they leave alone, too, or forget.                                    *)
(***************************************************************************)
LEMMA RunSteps ==
  ASSUME TurnInv, IInv',
         UNCHANGED <<history, on, of, draft, written, crowded>>,
         \A d \in Call : \/ seen'[d] = seen[d] /\ before'[d] = before[d]
                         \/ seen'[d] = <<>> /\ before'[d] = None,
         \A d \in Call : /\ AtWork(d)' => AtWork(d)
                         /\ Owes(d)' <=> Owes(d)
                         /\ pc'[d] = "idle" => pc[d] = "idle"
  PROVE  TurnInv'
<1>1. Solo' /\ Unread'
  BY DEF TurnInv, Solo, Unread
<1>f. FollowUpSeesTheLastTurn'
  BY DEF TurnInv, FollowUpSeesTheLastTurn
<1>2. HalfWay'
  <2>. SUFFICES ASSUME NEW d \in Call, (Owes(d) /\ on[d] \notin crowded)'
                PROVE  (HalfTurn(history[on[d]], Question(d)) /\ written[on[d]] = Answer(d, draft[d]))'
    BY DEF HalfWay
  <2>1. HalfTurn(history[on[d]], Question(d)) /\ written[on[d]] = Answer(d, draft[d])
    BY DEF TurnInv, HalfWay
  <2>. QED
    BY <2>1 DEF HalfTurn, Question, Answer
<1>3. WholeTurns'
  BY DEF TurnInv, WholeTurns, Turns, WholeMessages, EndsWith
<1>. QED
  BY <1>1, <1>f, <1>2, <1>3 DEF TurnInv

LEMMA AbandonTurns ==
  ASSUME TurnInv, NEW c \in Call, Abandon(c)
  PROVE  TurnInv'
<1>1. IInv'
  BY AbandonKeeps DEF TurnInv
<1>2. PICK node \in Strays \cup {"dropped"} :
        /\ node \in CASE pc[c] = "format" -> {"stray_format", "dropped"}
                      [] pc[c] = "answer" -> {"stray_answer"}
                      [] pc[c] \in Nodes \ {"format", "answer"} -> {"dropped"}
                      [] OTHER -> {}
        /\ Break(c, node)
  BY DEF Abandon, Strays
<1>3. pc[c] \in Nodes /\ (pc[c] = "answer" <=> node = "stray_answer")
  <2>1. CASE pc[c] = "format"
    BY <1>2, <2>1 DEF Nodes
  <2>2. CASE pc[c] = "answer"
    BY <1>2, <2>2 DEF Nodes
  <2>3. CASE pc[c] \in Nodes \ {"format", "answer"}
    BY <1>2, <2>3 DEF Nodes
  <2>4. CASE pc[c] \notin Nodes
    BY <1>2, <2>4 DEF Nodes
  <2>. QED
    BY <2>1, <2>2, <2>3, <2>4
<1>4. \A d \in Call : /\ AtWork(d)' => AtWork(d)
                      /\ Owes(d)' <=> Owes(d)
                      /\ pc'[d] = "idle" => pc[d] = "idle"
  BY <1>2, <1>3 DEF TurnInv, IInv, TypeOK, Break, To, AtWork, Owes, Nodes, Strays
<1>. QED
  BY <1>1, <1>4, RunSteps DEF Abandon, memory, question, marking

LEMMA GateTurns ==
  ASSUME TurnInv, NEW c \in Call, GateByPattern(c) \/ \E v \in Verdict : GateByVerdict(c, v)
  PROVE  TurnInv'
<1>1. IInv'
  BY GateByPatternKeeps, GateByVerdictKeeps DEF TurnInv
<1>2. /\ pc[c] = "gate" /\ \E node \in {"blocked", "plan", "confused"} : pc' = [pc EXCEPT ![c] = node]
      /\ UNCHANGED <<history, on, of, draft, written, crowded, seen, before>>
  BY DEF GateByPattern, GateByVerdict, End, Advance, Break, To, memory, question, marking
<1>3. \A d \in Call : /\ AtWork(d)' => AtWork(d)
                      /\ Owes(d)' <=> Owes(d)
                      /\ pc'[d] = "idle" => pc[d] = "idle"
  BY <1>2 DEF TurnInv, IInv, TypeOK, AtWork, Owes, Nodes, Strays
<1>. QED
  BY <1>1, <1>2, <1>3, RunSteps

LEMMA WorkTurns ==
  ASSUME TurnInv, NEW c \in Call, Work(c) \/ FormatRaises(c)
  PROVE  TurnInv'
<1>1. IInv'
  BY WorkKeeps, FormatRaisesKeeps DEF TurnInv
<1>2. /\ pc[c] \in {"work", "format", "stray_format"}
      /\ \E node \in {"format", "failed", "paused", "raised", "dropped"} : pc' = [pc EXCEPT ![c] = node]
      /\ UNCHANGED <<history, on, of, draft, written, crowded>>
      /\ \A d \in Call : \/ seen'[d] = seen[d] /\ before'[d] = before[d]
                         \/ seen'[d] = <<>> /\ before'[d] = None
  BY DEF TurnInv, IInv, TypeOK, Work, FormatRaises, End, Advance, Break, To, memory, question,
     marking
<1>3. \A d \in Call : /\ AtWork(d)' => AtWork(d)
                      /\ Owes(d)' <=> Owes(d)
                      /\ pc'[d] = "idle" => pc[d] = "idle"
  BY <1>2 DEF TurnInv, IInv, TypeOK, AtWork, Owes, Nodes, Strays
<1>. QED
  BY <1>1, <1>2, <1>3, RunSteps

LEMMA GuardedTurns ==
  ASSUME TurnInv, NEW c \in Call, Guarded(c)
  PROVE  TurnInv'
<1>1. IInv'
  BY GuardedKeeps DEF TurnInv
<1>2. /\ pc[c] = "judge" /\ \E node \in {"answered", "confused"} : pc' = [pc EXCEPT ![c] = node]
      /\ UNCHANGED <<history, on, of, draft, written, crowded, seen, before>>
  <2>1. UNCHANGED <<history, on, of, draft, written, crowded, seen, before>>
    BY DEF Guarded, PassUnjudged, JudgeOnce, JudgeInVain, JudgeTwice, memory, question, marking
  <2>. QED
    BY <2>1, GuardedOutcome DEF TurnInv, Judged, Broken
<1>3. \A d \in Call : /\ AtWork(d)' => AtWork(d)
                      /\ Owes(d)' <=> Owes(d)
                      /\ pc'[d] = "idle" => pc[d] = "idle"
  BY <1>2 DEF TurnInv, IInv, TypeOK, AtWork, Owes, Nodes, Strays
<1>. QED
  BY <1>1, <1>2, <1>3, RunSteps

-----------------------------------------------------------------------------
(***************************************************************************)
(* A question or a decision comes, and the planner reads.                  *)
(***************************************************************************)
LEMMA BeginTurns ==
  ASSUME TurnInv, NEW c \in Call, NEW t \in Thread,
         Decide(c, t) \/ \E m \in Asked : Ask(c, t, m)
  PROVE  TurnInv'
<1>1. IInv'
  BY AskKeeps, DecideKeeps DEF TurnInv
<1>2. /\ pc[c] = "idle" /\ ~Owes(c) /\ ~AtWork(c)
      /\ seen[c] = <<>> /\ before[c] = None
  BY DEF Decide, Ask, Owes, AtWork, Nodes, Strays, TurnInv, Unread
<1>3. /\ on'[c] = t /\ pc'[c] \in Nodes \ {"answer"} /\ ~Owes(c)'
      /\ \A d \in Call \ {c} : /\ pc'[d] = pc[d] /\ on'[d] = on[d] /\ of'[d] = of[d]
                               /\ draft'[d] = draft[d]
      /\ UNCHANGED <<history, written, seen, before>>
      /\ crowded \subseteq crowded' /\ (Busy(t) => t \in crowded')
  BY DEF Decide, Resumed, Ask, To, memory, answer, verdicts, Owes, Nodes,
         TurnInv, IInv, TypeOK, Checkpoint
<1>4. Solo'
  <2>. SUFFICES ASSUME NEW d \in Call, NEW e \in Call, d # e, AtWork(d)', AtWork(e)',
                       on'[d] = on'[e], on'[d] \notin crowded'
                PROVE  FALSE
    BY DEF Solo, AtWork
  <2>1. CASE d # c /\ e # c
    BY <1>3, <2>1 DEF TurnInv, Solo, AtWork
  <2>2. CASE d = c \/ e = c
    <3>1. PICK f \in {d, e} : f # c
      BY <2>2
    <3>2. AtWork(f) /\ on[f] = t
      BY <1>3, <2>2, <3>1 DEF AtWork
    <3>. QED
      BY <1>3, <2>2, <3>2 DEF Busy
  <2>. QED
    BY <2>1, <2>2
<1>5. WholeTurns'
  <2>. SUFFICES ASSUME NEW u \in Thread \ crowded', \A d \in Call : Owes(d)' => on'[d] # u
                PROVE  Turns(history[u]) /\ EndsWith(history[u], written[u])
    BY <1>3 DEF WholeTurns, Turns, WholeMessages, EndsWith, Owes
  <2>1. \A d \in Call : Owes(d) => on[d] # u
    BY <1>2, <1>3 DEF Owes
  <2>2. u \in Thread \ crowded
    BY <1>3
  <2>. QED
    BY <2>1, <2>2 DEF TurnInv, WholeTurns
<1>6. HalfWay'
  <2>. SUFFICES ASSUME NEW d \in Call, (Owes(d) /\ on[d] \notin crowded)'
                PROVE  (HalfTurn(history[on[d]], Question(d)) /\ written[on[d]] = Answer(d, draft[d]))'
    BY DEF HalfWay
  <2>1. d # c /\ Owes(d) /\ on[d] \notin crowded
    BY <1>3 DEF Owes
  <2>2. HalfTurn(history[on[d]], Question(d)) /\ written[on[d]] = Answer(d, draft[d])
    BY <2>1 DEF TurnInv, HalfWay
  <2>3. Question(d)' = Question(d) /\ Answer(d, draft[d])' = Answer(d, draft[d]) /\ on'[d] = on[d]
    BY <1>3, <2>1 DEF Question, Answer
  <2>. QED
    BY <1>3, <2>2, <2>3
<1>7. Unread' /\ FollowUpSeesTheLastTurn'
  BY <1>2, <1>3 DEF TurnInv, Unread, FollowUpSeesTheLastTurn
<1>. QED
  BY <1>1, <1>4, <1>5, <1>6, <1>7 DEF TurnInv

LEMMA PlanTurns ==
  ASSUME TurnInv, EvenLimits, NEW c \in Call, Plan(c)
  PROVE  TurnInv'
<1>1. IInv'
  BY PlanKeeps DEF TurnInv
<1>2. /\ pc[c] = "plan" /\ pc' = [pc EXCEPT ![c] = "work"]
      /\ seen' = [seen EXCEPT ![c] = Recent(history[on[c]])]
      /\ before' = [before EXCEPT ![c] = written[on[c]]]
      /\ UNCHANGED <<history, on, of, draft, written, crowded>>
  BY DEF Plan, Advance, To, memory, question, marking
<1>3. AtWork(c) /\ on[c] \in Thread
  BY <1>2, RunFacts DEF TurnInv, AtWork, Nodes
<1>4. \A d \in Call : /\ AtWork(d)' => AtWork(d)
                      /\ Owes(d)' <=> Owes(d)
                      /\ pc'[d] = "idle" => pc[d] = "idle" /\ d # c
  BY <1>2 DEF TurnInv, IInv, TypeOK, AtWork, Owes, Nodes, Strays
<1>5. Solo' /\ Unread'
  BY <1>2, <1>4 DEF TurnInv, IInv, TypeOK, Solo, Unread
<1>6. HalfWay'
  <2>. SUFFICES ASSUME NEW d \in Call, (Owes(d) /\ on[d] \notin crowded)'
                PROVE  (HalfTurn(history[on[d]], Question(d)) /\ written[on[d]] = Answer(d, draft[d]))'
    BY DEF HalfWay
  <2>1. HalfTurn(history[on[d]], Question(d)) /\ written[on[d]] = Answer(d, draft[d])
    BY <1>2, <1>4 DEF TurnInv, HalfWay
  <2>. QED
    BY <1>2, <2>1 DEF HalfTurn, Question, Answer
<1>7. WholeTurns'
  BY <1>2, <1>4 DEF TurnInv, WholeTurns, Turns, WholeMessages, EndsWith
<1>8. FollowUpSeesTheLastTurn'
  <2>. SUFFICES ASSUME NEW d \in Call, on[d] \notin crowded
                PROVE  WholeMessages(seen'[d]) /\ EndsWith(seen'[d], before'[d])
    BY <1>2 DEF FollowUpSeesTheLastTurn, WholeMessages, EndsWith
  <2>1. CASE d # c
    <3>1. seen'[d] = seen[d] /\ before'[d] = before[d]
      BY <1>2, <2>1
    <3>2. WholeMessages(seen[d]) /\ EndsWith(seen[d], before[d])
      BY DEF TurnInv, FollowUpSeesTheLastTurn, WholeMessages, EndsWith
    <3>. QED
      BY <3>1, <3>2
  <2>2. CASE d = c
    <3>. DEFINE h == history[on[c]]
    <3>1. seen'[d] = Recent(h) /\ before'[d] = written[on[c]]
      BY <1>2, <2>2 DEF TurnInv, IInv, TypeOK
    <3>2. \A e \in Call : Owes(e) => on[e] # on[c]
      BY <1>2, <1>3, <2>2 DEF TurnInv, Solo, Owes, AtWork, Nodes, Strays
    <3>3. Turns(h) /\ EndsWith(h, written[on[c]])
      BY <1>3, <2>2, <3>2 DEF TurnInv, WholeTurns
    <3>4. h \in Seq(Message)
      BY <1>3 DEF TurnInv, IInv, TypeOK
    <3>. HIDE DEF h
    <3>5. /\ Turns(Recent(h))
          /\ h = <<>> => Recent(h) = <<>>
          /\ h # <<>> => Recent(h) # <<>> /\ Recent(h)[Len(Recent(h))] = h[Len(h)]
      BY <3>3, <3>4, RecentFits
    <3>6. WholeMessages(Recent(h))
      BY <3>5 DEF Turns
    <3>7. EndsWith(Recent(h), written[on[c]])
      BY <3>3, <3>5 DEF EndsWith
    <3>. QED
      BY <3>1, <3>6, <3>7
  <2>. QED
    BY <2>1, <2>2
<1>. QED
  BY <1>1, <1>5, <1>6, <1>7, <1>8 DEF TurnInv

-----------------------------------------------------------------------------
(***************************************************************************)
(* The formatter appends, twice.                                           *)
(***************************************************************************)
LEMMA FormatTurns ==
  ASSUME TurnInv, EvenLimits, NEW c \in Call, NEW x \in {"draft", "empty"}, Format(c, x)
  PROVE  TurnInv'
<1>1. IInv'
  BY FormatKeeps DEF TurnInv
<1>2. /\ pc[c] \in {"format", "stray_format"} /\ AtWork(c) /\ ~Owes(c)
      /\ on[c] \in Thread /\ of[c] \in Call
  BY RunFacts DEF TurnInv, Format, AtWork, Owes, Nodes, Strays
<1>3. /\ Owes(c)' /\ draft'[c] = x
      /\ \A d \in Call \ {c} : pc'[d] = pc[d] /\ draft'[d] = draft[d]
      /\ history'[on[c]] = Push(history[on[c]], Question(c))
      /\ written'[on[c]] = Answer(c, x)
      /\ \A u \in Thread \ {on[c]} : history'[u] = history[u] /\ written'[u] = written[u]
      /\ UNCHANGED <<on, of, seen, before, crowded>>
  BY <1>2 DEF Format, To, question, marking, Owes, TurnInv, IInv, TypeOK
<1>4. \A d \in Call : /\ AtWork(d)' => AtWork(d)
                      /\ d # c => (Owes(d)' <=> Owes(d))
                      /\ pc'[d] = "idle" => pc[d] = "idle"
  BY <1>2, <1>3 DEF AtWork, Owes
<1>5. Solo' /\ Unread' /\ FollowUpSeesTheLastTurn'
  BY <1>3, <1>4 DEF TurnInv, Solo, Unread, FollowUpSeesTheLastTurn
<1>6. on[c] \notin crowded => \A d \in Call : Owes(d) => on[d] # on[c]
  BY <1>2 DEF TurnInv, Solo, AtWork, Owes, Nodes, Strays
<1>7. HalfWay'
  <2>. SUFFICES ASSUME NEW d \in Call, Owes(d)', on[d] \notin crowded
                PROVE  (HalfTurn(history[on[d]], Question(d)) /\ written[on[d]] = Answer(d, draft[d]))'
    BY <1>3 DEF HalfWay
  <2>1. CASE d = c
    <3>1. Turns(history[on[c]])
      BY <1>2, <1>6, <2>1 DEF TurnInv, WholeTurns
    <3>2. history[on[c]] \in Seq(Message) /\ Len(history[on[c]]) <= MaxHistory
      BY <1>2 DEF TurnInv, IInv, TypeOK
    <3>3. Question(c) \in Message /\ Question(c).role = "user"
      BY <1>2, MessageFacts
    <3>4. HalfTurn(Push(history[on[c]], Question(c)), Question(c))
      BY <3>1, <3>2, <3>3, QuestionFits
    <3>. QED
      BY <1>3, <2>1, <3>4 DEF Question, Answer
  <2>2. CASE d # c
    <3>1. Owes(d) /\ on[d] \in Thread
      BY <1>4, <2>2, RunFacts DEF TurnInv, Owes
    <3>2. on[d] # on[c]
      BY <1>6, <3>1
    <3>3. HalfTurn(history[on[d]], Question(d)) /\ written[on[d]] = Answer(d, draft[d])
      BY <3>1 DEF TurnInv, HalfWay
    <3>. QED
      BY <1>3, <2>2, <3>1, <3>2, <3>3 DEF Question, Answer
  <2>. QED
    BY <2>1, <2>2
<1>8. WholeTurns'
  <2>. SUFFICES ASSUME NEW u \in Thread \ crowded, \A d \in Call : Owes(d)' => on[d] # u
                PROVE  Turns(history'[u]) /\ EndsWith(history'[u], written'[u])
    BY <1>3 DEF WholeTurns, Turns, WholeMessages, EndsWith, Owes
  <2>1. u # on[c] /\ \A d \in Call : Owes(d) => on[d] # u
    BY <1>2, <1>3, <1>4
  <2>. QED
    BY <1>3, <2>1 DEF TurnInv, WholeTurns
<1>. QED
  BY <1>1, <1>5, <1>7, <1>8 DEF TurnInv

LEMMA AddAnswerTurns ==
  ASSUME TurnInv, EvenLimits, NEW c \in Call, AddAnswer(c)
  PROVE  TurnInv'
<1>1. IInv'
  BY AddAnswerKeeps DEF TurnInv
<1>2. AtWork(c) /\ Owes(c) /\ on[c] \in Thread /\ of[c] \in Call /\ draft[c] \in Summary
  BY RunFacts DEF TurnInv, IInv, Placed, AddAnswer, AtWork, Owes, Nodes, Strays, Summary
<1>3. PICK m \in Message : m = Answer(c, draft[c])
  BY <1>2, MessageFacts
<1>4. /\ pc'[c] \in {"judge", "late"}
      /\ \A d \in Call \ {c} : pc'[d] = pc[d]
      /\ history'[on[c]] = Push(history[on[c]], m)
      /\ \A u \in Thread \ {on[c]} : history'[u] = history[u]
      /\ UNCHANGED <<on, of, draft, written, seen, before, crowded>>
  BY <1>2, <1>3 DEF AddAnswer, Advance, Break, To, question, marking, TurnInv, IInv, TypeOK
<1>5. \A d \in Call : /\ AtWork(d)' => AtWork(d)
                      /\ Owes(d)' <=> Owes(d) /\ d # c
                      /\ pc'[d] = "idle" => pc[d] = "idle"
  BY <1>2, <1>4 DEF AtWork, Owes
<1>6. Solo' /\ Unread' /\ FollowUpSeesTheLastTurn'
  BY <1>4, <1>5 DEF TurnInv, Solo, Unread, FollowUpSeesTheLastTurn
<1>7. on[c] \notin crowded => \A d \in Call : Owes(d) /\ on[d] = on[c] => d = c
  BY <1>2 DEF TurnInv, Solo, AtWork, Owes, Nodes, Strays
<1>8. HalfWay'
  <2>. SUFFICES ASSUME NEW d \in Call, Owes(d)', on[d] \notin crowded
                PROVE  (HalfTurn(history[on[d]], Question(d)) /\ written[on[d]] = Answer(d, draft[d]))'
    BY <1>4 DEF HalfWay
  <2>1. Owes(d) /\ on[d] \in Thread /\ d # c
    BY <1>5, RunFacts DEF TurnInv, Owes
  <2>2. on[d] # on[c]
    BY <1>7, <2>1
  <2>3. HalfTurn(history[on[d]], Question(d)) /\ written[on[d]] = Answer(d, draft[d])
    BY <2>1 DEF TurnInv, HalfWay
  <2>. QED
    BY <1>4, <2>1, <2>2, <2>3 DEF Question, Answer
<1>9. WholeTurns'
  <2>. SUFFICES ASSUME NEW u \in Thread \ crowded, \A d \in Call : Owes(d)' => on[d] # u
                PROVE  Turns(history'[u]) /\ EndsWith(history'[u], written[u])
    BY <1>4 DEF WholeTurns, Turns, WholeMessages, EndsWith, Owes
  <2>1. CASE u = on[c]
    <3>1. HalfTurn(history[u], Question(c)) /\ written[u] = m
      BY <1>2, <1>3, <2>1 DEF TurnInv, HalfWay
    <3>2. history[u] \in Seq(Message) /\ Len(history[u]) <= MaxHistory
      BY DEF TurnInv, IInv, TypeOK
    <3>3. Question(c) \in Message /\ Answers(m, Question(c))
      BY <1>2, <1>3, MessageFacts DEF Answers
    <3>4. Turns(Push(history[u], m))
      BY <3>1, <3>2, <3>3, AnswerFits
    <3>5. /\ Push(history[u], m) \in Seq(Message) /\ Len(Push(history[u], m)) \in 1..MaxHistory
          /\ Push(history[u], m)[Len(Push(history[u], m))] = m
      BY <3>2, PushFacts
    <3>6. Push(history[u], m) # <<>>
      BY <3>5, LimitsAssumption
    <3>7. m # None
      BY NoMessageAssumption
    <3>. QED
      BY <1>4, <2>1, <3>1, <3>4, <3>5, <3>6, <3>7 DEF EndsWith
  <2>2. CASE u # on[c]
    <3>1. \A d \in Call : Owes(d) => on[d] # u
      BY <1>5, <2>2
    <3>. QED
      BY <1>4, <2>2, <3>1 DEF TurnInv, WholeTurns
  <2>. QED
    BY <2>1, <2>2
<1>. QED
  BY <1>1, <1>6, <1>8, <1>9 DEF TurnInv

-----------------------------------------------------------------------------
LEMMA InitTurnInv == Init => TurnInv
<1>. SUFFICES ASSUME Init PROVE TurnInv
  OBVIOUS
<1>1. IInv
  BY InitIInv
<1>2. Solo /\ HalfWay /\ Unread
  BY DEF Init, Solo, AtWork, Nodes, Strays, HalfWay, Owes, Unread
<1>3. WholeTurns
  BY DEF Init, WholeTurns, Turns, WholeMessages, EndsWith
<1>4. FollowUpSeesTheLastTurn
  BY DEF Init, FollowUpSeesTheLastTurn
<1>. QED
  BY <1>1, <1>2, <1>3, <1>4 DEF TurnInv

LEMMA NextTurnInv == EvenLimits /\ TurnInv /\ [Next]_vars => TurnInv'
<1>. SUFFICES ASSUME EvenLimits, TurnInv, [Next]_vars PROVE TurnInv'
  OBVIOUS
<1>1. ASSUME NEW c \in Call, NEW t \in Thread, Decide(c, t) \/ \E m \in Asked : Ask(c, t, m)
      PROVE  TurnInv'
  BY <1>1, BeginTurns
<1>2. ASSUME NEW c \in Call, Abandon(c) \/ Work(c) \/ FormatRaises(c) PROVE TurnInv'
  BY <1>2, AbandonTurns, WorkTurns
<1>3. ASSUME NEW c \in Call, GateByPattern(c) \/ \E v \in Verdict : GateByVerdict(c, v)
      PROVE  TurnInv'
  BY <1>3, GateTurns
<1>4. ASSUME NEW c \in Call, NEW x \in {"draft", "empty"}, Format(c, x) PROVE TurnInv'
  BY <1>4, FormatTurns
<1>5. ASSUME NEW c \in Call, Plan(c) \/ AddAnswer(c) PROVE TurnInv'
  BY <1>5, PlanTurns, AddAnswerTurns
<1>6. ASSUME NEW c \in Call, Guarded(c) PROVE TurnInv'
  BY <1>6, GuardedTurns
<1>7. CASE UNCHANGED vars
  <2>1. IInv'
    BY <1>7, StutterKeeps DEF TurnInv
  <2>. QED
    BY <1>7, <2>1, RunSteps DEF vars, memory, question, marking, AtWork, Owes
<1>. QED
  BY <1>1, <1>2, <1>3, <1>4, <1>5, <1>6, <1>7 DEF Next, Step, Guarded

LEMMA TurnInvariance == ASSUME EvenLimits PROVE Spec => []TurnInv
BY InitTurnInv, NextTurnInv, PTL DEF Spec

\* If the limits are even, and while the workers on a thread take turns, what the
\* planner reads is whole turns that end with the thread's last summary.
THEOREM FollowUpsSeeTheLastTurn ==
  ASSUME EvenLimits PROVE Spec => []FollowUpSeesTheLastTurn
<1>1. TurnInv => FollowUpSeesTheLastTurn
  BY DEF TurnInv
<1>. QED
  BY <1>1, TurnInvariance, PTL

=============================================================================

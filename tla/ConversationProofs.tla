------------------------- MODULE ConversationProofs -------------------------
(***************************************************************************)
(* Proofs about Conversation, for any number of threads and calls, any     *)
(* limits, questions, texts of the LLM and settings: the memory keeps its  *)
(* turns in order and says what was delivered, and the verdicts of the     *)
(* guardrails are heeded.                                                  *)
(*                                                                         *)
(* A question may be run by several calls. The inductive invariant says of *)
(* one that no decision has taken up twice (it is not in doubled) that at  *)
(* most one run of it is at work (Alone), that its checkpoint is where     *)
(* that run is (Tracks), that nothing of it is in the memory while it may  *)
(* still come to the formatter (Fresh, Recorded), and that what is there   *)
(* was written by one run (Single) and is what the output guardrail judges *)
(* (Judgeable), even if another run does that. Of any question it says     *)
(* which messages a run may have in the memory (Position) and that the     *)
(* question is there when the answer is owed (Kept).                       *)
(***************************************************************************)
EXTENDS Conversation, SequenceTheorems, TLAPS

\* The messages in the memory, and the deques that may have dropped some.
Stored == {m \in Message : \E t \in Thread : \E j \in DOMAIN history[t] : history[t][j] = m}

Full(t) == Len(history[t]) = MaxHistory

\* The run has not appended anything, and may.
Early == {"gate", "plan", "work", "format", "stray_format"}

\* It has appended its question, and not yet its answer.
Owes(c) == pc[c] \in {"answer", "stray_answer"}

\* It may have appended both.
Wrote == {"judge", "answered", "confused", "dropped", "late"}

\* The node the checkpoint is before while a run is at work.
NodeOf(node) == IF node \in {"answer"} \cup Strays THEN "format" ELSE node

\* A call that runs has a thread and a question of that thread, and so has a
\* checkpoint; there is a summary where the judge is next.
Placed ==
    /\ \A c \in Call :
          /\ pc[c] = "idle" => on[c] = None /\ of[c] = None
          /\ pc[c] # "idle" => /\ on[c] \in Thread /\ of[c] \in Call
                               /\ of[of[c]] = of[c] /\ on[of[c]] = on[c]
          /\ Owes(c) \/ pc[c] \in {"judge", "answered"} => draft[c] \in {"draft", "empty"}
    /\ \A t \in Thread :
          /\ ckpt[t].next = "none" => ckpt[t].of = None
          /\ ckpt[t].next # "none" => /\ ckpt[t].of \in Call
                                      /\ of[ckpt[t].of] = ckpt[t].of /\ on[ckpt[t].of] = t
          /\ ckpt[t].next = "judge" => ckpt[t].draft \in {"draft", "empty"}

\* Unless a question is taken up twice, one run of it is at work at a time ...
Alone ==
    \A c, d \in Call : AtWork(c) /\ AtWork(d) /\ of[c] = of[d] /\ of[c] \notin doubled => c = d

\* ... and a checkpoint of that question is where that run is.
Tracks ==
    \A c \in Call : AtWork(c) /\ of[c] \notin doubled /\ ckpt[on[c]].of = of[c] =>
        ckpt[on[c]].next = NodeOf(pc[c])

\* A message belongs to its run's question and says what the run wrote; the run
\* has come that far.
Position ==
    \A m \in Stored :
        /\ of[m.run] = m.of
        /\ pc[m.run] \in Wrote \/ (m.role = "user" /\ Owes(m.run))
        /\ m.role = "assistant" => m.text = draft[m.run]

\* A message is on the thread of its run.
Located == \A t \in Thread : \A j \in DOMAIN history[t] : on[history[t][j].run] = t

\* No message of a run is there twice.
Distinct ==
    \A t \in Thread : \A i, j \in DOMAIN history[t] :
        history[t][i].role = history[t][j].role /\ history[t][i].run = history[t][j].run => i = j

\* An answer stands behind its question, unless the deque is full.
Behind ==
    \A t \in Thread : \A j \in DOMAIN history[t] :
        history[t][j].role = "assistant" =>
            Full(t) \/ \E i \in 1..(j - 1) : Answers(history[t][j], history[t][i])

\* A run about to add its answer finds its question, unless the deque is full.
Kept == \A c \in Call : Owes(c) => Full(on[c]) \/ Question(c) \in Stored

\* Nothing of a question is in the memory while a run has its formatter before it.
Fresh ==
    \A c \in Call : pc[c] \in Early /\ of[c] \notin doubled => \A m \in Stored : m.of # of[c]

\* The same of a checkpoint, but for the worker of a run that is at the formatter
\* or was dropped there.
Recorded ==
    \A t \in Thread : ckpt[t].next \in Early /\ ckpt[t].of \notin doubled =>
        \A m \in Stored : m.of = ckpt[t].of => Owes(m.run) \/ pc[m.run] = "late"

\* What is in the memory of a question was written by one run.
Single ==
    \A m \in Stored : m.of \notin doubled =>
        /\ \A n \in Stored : n.of = m.of => n.run = m.run
        /\ \A c \in Call : Owes(c) /\ of[c] = m.of => m.run = c

\* When a question has been answered, it is over.
Closed ==
    \A c \in Call : pc[c] = "answered" /\ of[c] \notin doubled =>
        /\ \A d \in Call : AtWork(d) => of[d] # of[c]
        /\ ckpt[on[c]].of = of[c] => ckpt[on[c]].next = "end"

\* The memory of thread t has an answer to question q, and that is x.
Remembered(t, q, x) ==
    /\ Full(t) \/ \E m \in Stored : m.role = "assistant" /\ m.of = q
    /\ q \notin doubled => \A m \in Stored : m.role = "assistant" /\ m.of = q => m.text = x

\* What the judge gets, or has got, is remembered.
Judgeable ==
    /\ \A c \in Call : pc[c] \in {"judge", "answered"} => Remembered(on[c], of[c], draft[c])
    /\ \A t \in Thread : ckpt[t].next = "judge" => Remembered(t, ckpt[t].of, ckpt[t].draft)

\* What is delivered is the summary, unless the judge objected to it.
Delivered ==
    \A c \in Call : pc[c] = "answered" => reply[c] = draft[c] \/ draft[c] \in objected[c]

Unobjected == \A c \in Call : pc[c] \notin {"answered", "confused"} => objected[c] = {}

Deque == Located /\ Distinct /\ Behind
Runwise == Alone /\ Tracks /\ Closed
Turnwise == Position /\ Kept /\ Fresh /\ Recorded /\ Single /\ Judgeable
Verdictwise == Delivered /\ Unobjected /\ VerdictsAreHeeded

IInv == TypeOK /\ Placed /\ Deque /\ Runwise /\ Turnwise /\ Verdictwise

-----------------------------------------------------------------------------
(***************************************************************************)
(* The deque and the verdicts.                                             *)
(***************************************************************************)
LEMMA PushFacts ==
  ASSUME NEW h \in Seq(Message), Len(h) <= MaxHistory, NEW m \in Message
  PROVE  /\ Push(h, m) \in Seq(Message)
         /\ Len(Push(h, m)) \in 1..MaxHistory
         /\ Push(h, m)[Len(Push(h, m))] = m
         /\ Len(h) < MaxHistory =>
              /\ Len(Push(h, m)) = Len(h) + 1
              /\ \A j \in 1..Len(h) : Push(h, m)[j] = h[j]
         /\ Len(h) = MaxHistory =>
              /\ Len(Push(h, m)) = MaxHistory
              /\ \A j \in 1..(MaxHistory - 1) : Push(h, m)[j] = h[j + 1]
<1>. MaxHistory \in Nat \ {0} /\ Len(h) \in Nat
  BY LimitsAssumption
<1>1. CASE Len(h) < MaxHistory
  BY <1>1 DEF Push
<1>2. CASE Len(h) = MaxHistory
  <2>1. /\ h # <<>> /\ Tail(h) \in Seq(Message) /\ Len(Tail(h)) = MaxHistory - 1
        /\ \A j \in 1..(MaxHistory - 1) : Tail(h)[j] = h[j + 1]
    BY <1>2
  <2>2. Push(h, m) = Append(Tail(h), m)
    BY <1>2 DEF Push
  <2>. QED
    BY <1>2, <2>1, <2>2
<1>. QED
  BY <1>1, <1>2

\* Where a message of the deque was before the last one was appended.
LEMMA OldMessages ==
  ASSUME NEW h \in Seq(Message), Len(h) <= MaxHistory, NEW m \in Message
  PROVE  \E s \in {0, 1} : \A j \in DOMAIN Push(h, m) :
           \/ j = Len(Push(h, m)) /\ Push(h, m)[j] = m
           \/ /\ j < Len(Push(h, m)) /\ j + s \in DOMAIN h
              /\ Push(h, m)[j] = h[j + s]
<1>. MaxHistory \in Nat \ {0} /\ Len(h) \in Nat
  BY LimitsAssumption
<1>. DEFINE g == Push(h, m)
<1>a. /\ g \in Seq(Message) /\ Len(g) \in 1..MaxHistory /\ g[Len(g)] = m
      /\ Len(h) < MaxHistory => Len(g) = Len(h) + 1 /\ \A j \in 1..Len(h) : g[j] = h[j]
      /\ Len(h) = MaxHistory =>
           Len(g) = MaxHistory /\ \A j \in 1..(MaxHistory - 1) : g[j] = h[j + 1]
  BY PushFacts
<1>. HIDE DEF g
<1>b. DOMAIN g = 1..Len(g) /\ DOMAIN h = 1..Len(h)
  BY <1>a
<1>1. CASE Len(h) < MaxHistory
  <2>1. Len(g) = Len(h) + 1 /\ g[Len(g)] = m /\ \A j \in 1..Len(h) : g[j] = h[j]
    BY <1>1, <1>a
  <2>2. ASSUME NEW j \in 1..Len(g)
        PROVE  \/ j = Len(g) /\ g[j] = m
               \/ j < Len(g) /\ j + 0 \in 1..Len(h) /\ g[j] = h[j + 0]
    <3>1. j + 0 = j
      OBVIOUS
    <3>2. CASE j = Len(g)
      BY <2>1, <3>2
    <3>3. CASE j \in 1..Len(h)
      <4>1. j < Len(g) /\ g[j] = h[j]
        BY <2>1, <3>3
      <4>. QED
        BY <3>1, <3>3, <4>1
    <3>. QED
      BY <2>1, <3>2, <3>3
  <2>3. \A j \in DOMAIN g : \/ j = Len(g) /\ g[j] = m
                            \/ j < Len(g) /\ j + 0 \in DOMAIN h /\ g[j] = h[j + 0]
    BY <1>b, <2>2
  <2>. QED
    BY <2>3 DEF g
<1>2. CASE Len(h) = MaxHistory
  <2>1. \A j \in DOMAIN g : \/ j = Len(g) /\ g[j] = m
                            \/ j < Len(g) /\ j + 1 \in DOMAIN h /\ g[j] = h[j + 1]
    BY <1>2, <1>a, <1>b
  <2>. QED
    BY <2>1 DEF g
<1>. QED
  BY <1>1, <1>2

LEMMA RecentFacts ==
  ASSUME NEW h \in Seq(Message)
  PROVE  Recent(h) \in Seq(Message)
<1>1. CASE Len(h) <= PlannerLimit
  BY <1>1 DEF Recent
<1>2. CASE ~(Len(h) <= PlannerLimit)
  <2>1. Len(h) - PlannerLimit + 1 \in 1..Len(h) + 1 /\ Len(h) \in Nat
    BY <1>2, LimitsAssumption
  <2>. QED
    BY <1>2, <2>1, SubSeqProperties DEF Recent
<1>. QED
  BY <1>1, <1>2

LEMMA VerdictFacts == Verdict \subseteq Json
BY SaidAssumption DEF Verdict, Parse, Text, Json


LEMMA MessageFacts ==
  ASSUME NEW c \in Call, of[c] \in Call
  PROVE  /\ Question(c) \in Message /\ Question(c).role = "user"
         /\ Question(c).of = of[c] /\ Question(c).run = c
         /\ \A x \in Summary :
              /\ Answer(c, x) \in Message /\ Answer(c, x).text = x
              /\ Answer(c, x).role = "assistant"
              /\ Answer(c, x).of = of[c] /\ Answer(c, x).run = c
BY DEF Question, Answer, Message

LEMMA StoredFacts ==
  ASSUME TypeOK
  PROVE  /\ \A m \in Stored : /\ m \in Message /\ m.of \in Call /\ m.run \in Call
                              /\ m.role \in {"user", "assistant"}
         /\ \A t \in Thread : \A j \in DOMAIN history[t] : history[t][j] \in Stored
         /\ \A m \in Stored : \E t \in Thread : \E j \in DOMAIN history[t] : history[t][j] = m
<1>1. ASSUME NEW t \in Thread, NEW j \in DOMAIN history[t] PROVE history[t][j] \in Message
  BY ElementOfSeq DEF TypeOK
<1>2. \A m \in Stored : m \in Message
  BY DEF Stored
<1>. QED
  BY <1>1, <1>2 DEF Stored, Message

-----------------------------------------------------------------------------
(***************************************************************************)
(* The steps of a run that leave the memory alone.                         *)
(***************************************************************************)
Over == {"blocked", "failed", "paused", "raised", "confused", "dropped"}

\* Where run c goes, and what becomes of its checkpoint.
QuietStep(c, node) ==
    /\ pc' = [pc EXCEPT ![c] = node]
    /\ UNCHANGED <<history, on, of, draft, doubled>>
    /\ \/ pc[c] \in {"gate", "plan", "work"} /\ node \in {"plan", "work", "format"} /\ Save(c, node)
       \/ pc[c] \in Early /\ node \in Over /\ (Save(c, "end") \/ UNCHANGED ckpt)
       \/ pc[c] = "format" /\ node = "stray_format" /\ UNCHANGED ckpt
       \/ pc[c] = "answer" /\ node = "stray_answer" /\ UNCHANGED ckpt
       \/ pc[c] = "judge" /\ node = "answered" /\ Save(c, "end")
       \/ pc[c] = "judge" /\ node \in {"confused", "dropped"} /\ UNCHANGED ckpt

LEMMA QuietKeeps ==
  ASSUME IInv, NEW c \in Call, NEW node, QuietStep(c, node)
  PROVE  Placed' /\ Deque' /\ Runwise' /\ Turnwise'
<1>1. /\ AtWork(c) /\ pc[c] # "idle"
      /\ on[c] \in Thread /\ of[c] \in Call /\ of[of[c]] = of[c] /\ on[of[c]] = on[c]
  <2>1. AtWork(c) /\ pc[c] # "idle"
    BY DEF QuietStep, AtWork, Nodes, Strays, Early
  <2>. QED
    BY <2>1 DEF IInv, Placed
<1>2. /\ pc'[c] = node /\ \A d \in Call \ {c} : pc'[d] = pc[d]
      /\ UNCHANGED <<history, on, of, draft, doubled>>
  BY DEF QuietStep, IInv, TypeOK
<1>3. /\ \A t \in Thread \ {on[c]} : ckpt'[t] = ckpt[t]
      /\ \/ ckpt'[on[c]] = ckpt[on[c]]
         \/ /\ ckpt'[on[c]].of = of[c] /\ ckpt'[on[c]].draft = draft[c]
            /\ ckpt'[on[c]].next \in {node, "end"}
  BY <1>1 DEF QuietStep, Save, IInv, TypeOK
<1>4. \/ /\ pc[c] \in {"gate", "plan", "work"} /\ node \in {"plan", "work", "format"}
         /\ ckpt'[on[c]].of = of[c] /\ ckpt'[on[c]].next = node
      \/ /\ pc[c] \in Early /\ node \in Over
         /\ ckpt'[on[c]] = ckpt[on[c]] \/ (ckpt'[on[c]].of = of[c] /\ ckpt'[on[c]].next = "end")
      \/ pc[c] = "format" /\ node = "stray_format" /\ ckpt'[on[c]] = ckpt[on[c]]
      \/ pc[c] = "answer" /\ node = "stray_answer" /\ ckpt'[on[c]] = ckpt[on[c]]
      \/ /\ pc[c] = "judge" /\ node = "answered"
         /\ ckpt'[on[c]].of = of[c] /\ ckpt'[on[c]].next = "end"
      \/ pc[c] = "judge" /\ node \in {"confused", "dropped"} /\ ckpt'[on[c]] = ckpt[on[c]]
  BY <1>1 DEF QuietStep, Save, IInv, TypeOK
<1>5. Stored' = Stored /\ \A t \in Thread : Full(t)' = Full(t)
  BY <1>2 DEF Stored, Full
<1>6. \A m \in Stored : m.of \in Call /\ m.run \in Call /\ m.role \in {"user", "assistant"}
  BY StoredFacts DEF IInv
<1>7. Deque'
  BY <1>2 DEF IInv, Deque, Located, Distinct, Behind, Full
<1>8. Placed'
  BY <1>1, <1>2, <1>3, <1>4 DEF IInv, Placed, Owes, Early, Over
<1>9. Alone'
  BY <1>1, <1>2, <1>4 DEF IInv, Runwise, Alone, AtWork
<1>10. \A d \in Call : AtWork(d)' => AtWork(d)
  BY <1>1, <1>2 DEF AtWork
<1>11. Tracks'
  <2>. SUFFICES ASSUME NEW d \in Call, AtWork(d)', of[d] \notin doubled, ckpt'[on[d]].of = of[d]
                PROVE  ckpt'[on[d]].next = NodeOf(pc'[d])
    BY <1>2 DEF Tracks, NodeOf
  <2>1. AtWork(d) /\ on[d] \in Thread
    BY <1>10 DEF IInv, Placed, AtWork, Nodes, Strays
  <2>2. CASE d = c
    BY <1>1, <1>2, <1>4, <2>1, <2>2
       DEF IInv, Runwise, Tracks, NodeOf, AtWork, Nodes, Strays, Early, Over
  <2>3. CASE d # c
    <3>1. of[d] # of[c]
      BY <1>1, <2>1, <2>3 DEF IInv, Runwise, Alone
    <3>. QED
      BY <1>2, <1>3, <2>1, <2>3, <3>1 DEF IInv, Runwise, Tracks
  <2>. QED
    BY <2>2, <2>3
<1>12. Closed'
  <2>. SUFFICES ASSUME NEW d \in Call, pc'[d] = "answered", of[d] \notin doubled
                PROVE  /\ \A e \in Call : AtWork(e)' => of[e] # of[d]
                       /\ ckpt'[on[d]].of = of[d] => ckpt'[on[d]].next = "end"
    BY <1>2 DEF Closed, AtWork
  <2>1. CASE d = c
    <3>1. ASSUME NEW e \in Call, AtWork(e)', of[e] = of[d] PROVE FALSE
      <4>1. e = c
        BY <1>1, <1>10, <2>1, <3>1 DEF IInv, Runwise, Alone
      <4>. QED
        BY <1>2, <2>1, <3>1, <4>1 DEF AtWork, Nodes, Strays
    <3>2. ckpt'[on[d]].of = of[d] => ckpt'[on[d]].next = "end"
      BY <1>2, <1>4, <2>1 DEF Over
    <3>. QED
      BY <3>1, <3>2
  <2>2. CASE d # c
    <3>1. /\ pc[d] = "answered" /\ on[d] \in Thread /\ of[d] # of[c]
          /\ \A e \in Call : AtWork(e) => of[e] # of[d]
          /\ ckpt[on[d]].of = of[d] => ckpt[on[d]].next = "end"
      BY <1>1, <1>2, <2>2 DEF IInv, Placed, Runwise, Closed
    <3>. QED
      BY <1>3, <1>10, <3>1
  <2>. QED
    BY <2>1, <2>2
<1>13. Position'
  BY <1>2, <1>4, <1>5, <1>6
     DEF IInv, Turnwise, Position, Owes, Wrote, Early
<1>14. Kept'
  <2>. SUFFICES ASSUME NEW d \in Call, Owes(d)'
                PROVE  Full(on[d]) \/ Question(d) \in Stored
    BY <1>2, <1>5 DEF Kept, Full, Question
  <2>1. Owes(d)
    BY <1>2, <1>4 DEF Owes, Over
  <2>. QED
    BY <2>1 DEF IInv, Turnwise, Kept
<1>15. Fresh'
  BY <1>2, <1>4, <1>5 DEF IInv, Turnwise, Fresh, Early, Over
<1>16. Recorded'
  <2>. SUFFICES ASSUME NEW t \in Thread, ckpt'[t].next \in Early, ckpt'[t].of \notin doubled,
                       NEW m \in Stored, m.of = ckpt'[t].of
                PROVE  Owes(m.run)' \/ pc'[m.run] = "late"
    BY <1>2, <1>5 DEF Recorded, Owes
  <2>1. CASE ckpt'[t] = ckpt[t]
    <3>1. Owes(m.run) \/ pc[m.run] = "late"
      BY <2>1 DEF IInv, Turnwise, Recorded
    <3>. QED
      BY <1>2, <1>4, <1>6, <3>1 DEF Owes, Early
  <2>2. CASE ckpt'[t] # ckpt[t]
    <3>1. t = on[c] /\ ckpt'[t].of = of[c] /\ pc[c] \in Early
      BY <1>3, <1>4, <2>2 DEF Early, Over
    <3>. QED
      BY <3>1 DEF IInv, Turnwise, Fresh
  <2>. QED
    BY <2>1, <2>2
<1>17. Single'
  BY <1>2, <1>4, <1>5 DEF IInv, Turnwise, Single, Owes, Over
<1>18. Judgeable'
  <2>1. ASSUME NEW d \in Call, pc'[d] \in {"judge", "answered"}
        PROVE  Remembered(on[d], of[d], draft[d])'
    <3>1. pc[d] \in {"judge", "answered"} /\ on[d] \in Thread
      BY <1>1, <1>2, <1>4, <2>1 DEF Over, IInv, Placed
    <3>2. Remembered(on[d], of[d], draft[d])
      BY <3>1 DEF IInv, Turnwise, Judgeable
    <3>. QED
      BY <1>2, <1>5, <3>2 DEF Remembered, Full
  <2>2. ASSUME NEW t \in Thread, ckpt'[t].next = "judge"
        PROVE  Remembered(t, ckpt[t].of, ckpt[t].draft)'
    <3>1. ckpt'[t] = ckpt[t]
      BY <1>3, <1>4, <2>2 DEF Over
    <3>2. Remembered(t, ckpt[t].of, ckpt[t].draft)
      BY <2>2, <3>1 DEF IInv, Turnwise, Judgeable
    <3>. QED
      BY <1>2, <1>5, <3>1, <3>2 DEF Remembered, Full
  <2>. QED
    BY <2>1, <2>2 DEF Judgeable
<1>. QED
  BY <1>7, <1>8, <1>9, <1>11, <1>12, <1>13, <1>14, <1>15, <1>16, <1>17, <1>18
     DEF Runwise, Turnwise

\* What a run at work, or left behind, is known to have.
LEMMA RunFacts ==
  ASSUME IInv, NEW c \in Call, pc[c] # "idle"
  PROVE  on[c] \in Thread /\ of[c] \in Call /\ of[of[c]] = of[c] /\ on[of[c]] = on[c]
BY DEF IInv, Placed

LEMMA SaveTyped ==
  ASSUME IInv, NEW c \in Call, pc[c] # "idle",
         NEW node \in (Nodes \ {"answer"}) \cup {"end"},
         Save(c, node) \/ UNCHANGED ckpt
  PROVE  ckpt' \in [Thread -> Checkpoint]
<1>1. on[c] \in Thread /\ of[c] \in Call
  BY RunFacts
<1>2. [next |-> node, of |-> of[c], draft |-> draft[c]] \in Checkpoint
  BY <1>1 DEF Checkpoint, IInv, TypeOK
<1>. QED
  BY <1>1, <1>2 DEF IInv, TypeOK, Save

LEMMA GateByPatternKeeps ==
  ASSUME IInv, NEW c \in Call, GateByPattern(c)
  PROVE  IInv'
<1>1. PICK node \in {"blocked", "plan"} :
        /\ QuietStep(c, node)
        /\ node = "blocked" => HeuristicBlocked(marks[of[c]])
  BY DEF GateByPattern, QuietStep, End, Advance, To, Early, Over, memory, question, marking
<1>2. pc[c] = "gate"
  BY DEF GateByPattern
<1>3. ckpt' \in [Thread -> Checkpoint]
  BY <1>2, SaveTyped DEF GateByPattern, End, Advance, Nodes
<1>4. TypeOK'
  BY <1>1, <1>3 DEF IInv, TypeOK, GateByPattern, QuietStep, Nodes, memory, question, answer, verdicts, marking
<1>5. Verdictwise'
  BY <1>1, <1>2 DEF IInv, TypeOK, Verdictwise, Delivered, Unobjected, VerdictsAreHeeded,
     GateByPattern, QuietStep, question, answer, verdicts
<1>. QED
  BY <1>1, <1>4, <1>5, QuietKeeps DEF IInv

LEMMA GateByVerdictKeeps ==
  ASSUME IInv, NEW c \in Call, NEW v \in Verdict, GateByVerdict(c, v)
  PROVE  IInv'
<1>1. PICK node \in {"blocked", "plan", "confused"} :
        /\ QuietStep(c, node)
        /\ node = "blocked" => stopped' = [stopped EXCEPT ![c] = v] /\ v = "yes"
        /\ node = "confused" => stopped' = [stopped EXCEPT ![c] = v] /\ v = "truthy"
        /\ node = "plan" => UNCHANGED stopped
  BY DEF GateByVerdict, QuietStep, End, Advance, Break, To, Early, Over, Blocks, BlockRaises,
     memory, question, marking
<1>2. pc[c] = "gate"
  BY DEF GateByVerdict
<1>3. ckpt' \in [Thread -> Checkpoint]
  BY <1>2, SaveTyped DEF GateByVerdict, End, Advance, Break, Nodes
<1>4. TypeOK'
  BY <1>1, <1>3 DEF IInv, TypeOK, GateByVerdict, QuietStep, Nodes, memory, question, answer, marking
<1>5. Verdictwise'
  BY <1>1, <1>2 DEF IInv, TypeOK, Verdictwise, Delivered, Unobjected, VerdictsAreHeeded,
     GateByVerdict, QuietStep, question, answer
<1>. QED
  BY <1>1, <1>4, <1>5, QuietKeeps DEF IInv

LEMMA PlanKeeps ==
  ASSUME IInv, NEW c \in Call, Plan(c)
  PROVE  IInv'
<1>1. QuietStep(c, "work")
  BY DEF Plan, QuietStep, Advance, To, memory, question, marking
<1>2. pc[c] = "plan"
  BY DEF Plan
<1>3. on[c] \in Thread
  BY <1>2, RunFacts
<1>4. ckpt' \in [Thread -> Checkpoint]
  BY <1>2, SaveTyped DEF Plan, Advance, Nodes
<1>5. Recent(history[on[c]]) \in Seq(Message)
  BY <1>3, RecentFacts DEF IInv, TypeOK
<1>6. TypeOK'
  BY <1>1, <1>3, <1>4, <1>5 DEF IInv, TypeOK, Plan, QuietStep, Nodes, memory, question, answer, verdicts, marking
<1>7. Verdictwise'
  BY <1>1, <1>2 DEF IInv, TypeOK, Verdictwise, Delivered, Unobjected, VerdictsAreHeeded,
     Plan, QuietStep, question, answer, verdicts
<1>. QED
  BY <1>1, <1>6, <1>7, QuietKeeps DEF IInv

LEMMA WorkKeeps ==
  ASSUME IInv, NEW c \in Call, Work(c)
  PROVE  IInv'
<1>1. PICK node \in {"format", "failed", "paused", "raised"} : QuietStep(c, node)
  BY DEF Work, QuietStep, Advance, End, Break, To, Early, Over, memory, question, marking
<1>2. pc[c] = "work"
  BY DEF Work
<1>3. ckpt' \in [Thread -> Checkpoint]
  BY <1>2, SaveTyped DEF Work, Advance, End, Break, Nodes
<1>4. TypeOK'
  BY <1>1, <1>3 DEF IInv, TypeOK, Work, QuietStep, Nodes, memory, question, answer, verdicts, marking
<1>5. Verdictwise'
  BY <1>1, <1>2 DEF IInv, TypeOK, Verdictwise, Delivered, Unobjected, VerdictsAreHeeded,
     Work, QuietStep, question, answer, verdicts
<1>. QED
  BY <1>1, <1>4, <1>5, QuietKeeps DEF IInv

LEMMA FormatRaisesKeeps ==
  ASSUME IInv, NEW c \in Call, FormatRaises(c)
  PROVE  IInv'
<1>1. PICK node \in {"raised", "dropped"} : QuietStep(c, node)
  BY DEF FormatRaises, QuietStep, Break, To, Early, Over, memory, question, marking
<1>2. pc[c] \in {"format", "stray_format"}
  BY DEF FormatRaises
<1>3. TypeOK'
  BY <1>1 DEF IInv, TypeOK, FormatRaises, Break, QuietStep, memory, question, answer, verdicts, marking
<1>4. Verdictwise'
  BY <1>1, <1>2 DEF IInv, TypeOK, Verdictwise, Delivered, Unobjected, VerdictsAreHeeded,
     FormatRaises, QuietStep, question, answer, verdicts
<1>. QED
  BY <1>1, <1>3, <1>4, QuietKeeps DEF IInv

LEMMA AbandonKeeps ==
  ASSUME IInv, NEW c \in Call, Abandon(c)
  PROVE  IInv'
<1>1. PICK node \in Strays \cup {"dropped"} :
        /\ node \in CASE pc[c] = "format" -> {"stray_format", "dropped"}
                      [] pc[c] = "answer" -> {"stray_answer"}
                      [] pc[c] \in Nodes \ {"format", "answer"} -> {"dropped"}
                      [] OTHER -> {}
        /\ Break(c, node)
  BY DEF Abandon, Strays
<1>2. /\ pc[c] \in Nodes
      /\ \/ pc[c] = "format" /\ node = "stray_format"
         \/ pc[c] = "answer" /\ node = "stray_answer"
         \/ pc[c] \in Early \cup {"judge"} /\ node = "dropped"
  <2>1. CASE pc[c] = "format"
    BY <1>1, <2>1 DEF Nodes, Early
  <2>2. CASE pc[c] = "answer"
    BY <1>1, <2>2 DEF Nodes
  <2>3. CASE pc[c] \in Nodes \ {"format", "answer"}
    BY <1>1, <2>3 DEF Nodes, Early
  <2>4. CASE pc[c] \notin Nodes
    BY <1>1, <2>4 DEF Nodes
  <2>. QED
    BY <2>1, <2>2, <2>3, <2>4
<1>3. QuietStep(c, node)
  BY <1>1, <1>2 DEF Abandon, QuietStep, Break, To, Over, memory, question, marking
<1>4. TypeOK'
  BY <1>1, <1>3 DEF IInv, TypeOK, Abandon, Break, QuietStep, memory, question, answer, verdicts, marking
<1>5. Verdictwise'
  BY <1>2, <1>3 DEF IInv, TypeOK, Verdictwise, Delivered, Unobjected, VerdictsAreHeeded, Nodes,
     Abandon, QuietStep, question, answer, verdicts
<1>. QED
  BY <1>3, <1>4, <1>5, QuietKeeps DEF IInv

-----------------------------------------------------------------------------
(***************************************************************************)
(* The output guardrail: a call is given a text, or it breaks.             *)
(***************************************************************************)
Judged(c, text, objections) ==
    /\ pc' = [pc EXCEPT ![c] = "answered"] /\ Save(c, "end")
    /\ reply' = [reply EXCEPT ![c] = text]
    /\ faithful' = [faithful EXCEPT ![c] = text \notin objections]
    /\ text = draft[c] \/ draft[c] \in objections
    /\ UNCHANGED stopped

Broken(c, v) ==
    /\ pc' = [pc EXCEPT ![c] = "confused"] /\ UNCHANGED ckpt
    /\ stopped' = [stopped EXCEPT ![c] = v]
    /\ UNCHANGED <<reply, faithful>>

Guarded(c) ==
    \/ PassUnjudged(c)
    \/ \E v \in Verdict : JudgeOnce(c, v) \/ JudgeInVain(c, v)
    \/ \E v, w \in Verdict : JudgeTwice(c, v, w)

LEMMA GuardedOutcome ==
  ASSUME IInv, NEW c \in Call, Guarded(c)
  PROVE  /\ pc[c] = "judge" /\ draft[c] \in {"draft", "empty"}
         /\ \E objections \in SUBSET Summary :
              /\ objected' = [objected EXCEPT ![c] = objections]
              /\ \/ \E text \in {draft[c], "corrected"} : Judged(c, text, objections)
                 \/ \E v \in Verdict \cap {"truthy", "falsy"} : Broken(c, v)
<1>1. pc[c] = "judge"
  BY DEF Guarded, PassUnjudged, JudgeOnce, JudgeInVain, JudgeTwice
<1>2. draft[c] \in {"draft", "empty"} /\ objected[c] = {}
  BY <1>1 DEF IInv, Placed, Verdictwise, Unobjected
<1>3. objected = [objected EXCEPT ![c] = {}]
  BY <1>2 DEF IInv, TypeOK
<1>4. ASSUME PassUnjudged(c)
      PROVE  /\ objected' = [objected EXCEPT ![c] = {}]
             /\ Judged(c, draft[c], {})
  BY <1>3, <1>4 DEF PassUnjudged, Deliver, Judged, End, To
<1>5. ASSUME NEW v \in Verdict, JudgeOnce(c, v)
      PROVE  /\ objected' = [objected EXCEPT ![c] = {}]
             /\ Judged(c, draft[c], {}) \/ (v \in {"truthy", "falsy"} /\ Broken(c, v))
  BY <1>3, <1>5 DEF JudgeOnce, JudgeRaises, Break, End, To, CheckRaises, Deliver, Judged, Broken, answer
<1>6. ASSUME NEW v \in Verdict, ~CheckRaises(v), ~Accepts(v) PROVE v = "no"
  BY <1>6, VerdictFacts DEF CheckRaises, Accepts, Json
<1>7. ASSUME NEW v \in Verdict, JudgeInVain(c, v)
      PROVE  /\ objected' = [objected EXCEPT ![c] = {draft[c]}]
             /\ Judged(c, draft[c], {draft[c]})
  <2>1. v = "no"
    BY <1>6, <1>7 DEF JudgeInVain
  <2>. QED
    BY <1>7, <2>1 DEF JudgeInVain, Deliver, Judged, End, To
<1>8. ASSUME NEW v \in Verdict, NEW w \in Verdict, JudgeTwice(c, v, w)
      PROVE  \E objections \in SUBSET Summary :
               /\ objected' = [objected EXCEPT ![c] = objections]
               /\ Judged(c, "corrected", objections) \/ (w \in {"truthy", "falsy"} /\ Broken(c, w))
  <2>. DEFINE objections == {draft[c]} \cup (IF w = "no" THEN {"corrected"} ELSE {})
  <2>1. v = "no" /\ objected' = [objected EXCEPT ![c] = objections] /\ objections \in SUBSET Summary
    BY <1>2, <1>6, <1>8 DEF JudgeTwice, Summary
  <2>2. CASE CheckRaises(w) /\ JudgeRaises(c, w)
    BY <2>1, <2>2 DEF CheckRaises, JudgeRaises, Break, To, Broken, answer
  <2>3. CASE ~CheckRaises(w) /\ Deliver(c, "corrected", Accepts(w))
    <3>1. Accepts(w) <=> "corrected" \notin objections
      BY <1>2, <1>6, <2>3 DEF Accepts
    <3>2. Accepts(w) = ("corrected" \notin objections)
      BY <3>1 DEF Accepts
    <3>3. draft[c] \in objections
      OBVIOUS
    <3>. HIDE DEF objections
    <3>4. Judged(c, "corrected", objections)
      BY <2>3, <3>2, <3>3 DEF Deliver, Judged, End, To
    <3>. QED
      BY <2>1, <3>4
  <2>. QED
    BY <1>8, <2>2, <2>3 DEF JudgeTwice
<1>. QED
  BY <1>1, <1>2, <1>4, <1>5, <1>7, <1>8 DEF Guarded, To, Deliver, Summary

LEMMA GuardedKeeps ==
  ASSUME IInv, NEW c \in Call, Guarded(c)
  PROVE  IInv'
<1>1. PICK objections \in SUBSET Summary :
        /\ objected' = [objected EXCEPT ![c] = objections]
        /\ \/ \E text \in {draft[c], "corrected"} : Judged(c, text, objections)
           \/ \E v \in Verdict \cap {"truthy", "falsy"} : Broken(c, v)
  BY GuardedOutcome
<1>2. /\ pc[c] = "judge" /\ draft[c] \in {"draft", "empty"} /\ draft[c] # "corrected"
      /\ UNCHANGED <<history, noted, on, of, marks, seen, draft, written, before, crowded, doubled>>
  BY GuardedOutcome
     DEF Guarded, PassUnjudged, JudgeOnce, JudgeInVain, JudgeTwice, memory, question, marking
<1>3. ASSUME NEW text \in {draft[c], "corrected"}, Judged(c, text, objections) PROVE IInv'
  <2>1. QuietStep(c, "answered")
    BY <1>2, <1>3 DEF QuietStep, Judged
  <2>2. ckpt' \in [Thread -> Checkpoint]
    BY <1>2, <1>3, SaveTyped DEF Judged
  <2>3. TypeOK'
    BY <1>1, <1>2, <1>3, <2>2 DEF IInv, TypeOK, Judged, Summary
  <2>4. Verdictwise'
    BY <1>1, <1>2, <1>3
       DEF IInv, TypeOK, Verdictwise, Delivered, Unobjected, VerdictsAreHeeded, Judged
  <2>. QED
    BY <2>1, <2>3, <2>4, QuietKeeps DEF IInv
<1>4. ASSUME NEW v \in Verdict \cap {"truthy", "falsy"}, Broken(c, v) PROVE IInv'
  <2>1. QuietStep(c, "confused")
    BY <1>2, <1>4 DEF QuietStep, Broken
  <2>2. TypeOK'
    BY <1>1, <1>2, <1>4 DEF IInv, TypeOK, Broken
  <2>3. Verdictwise'
    BY <1>1, <1>2, <1>4
       DEF IInv, TypeOK, Verdictwise, Delivered, Unobjected, VerdictsAreHeeded, Broken
  <2>. QED
    BY <2>1, <2>2, <2>3, QuietKeeps DEF IInv
<1>. QED
  BY <1>1, <1>3, <1>4

-----------------------------------------------------------------------------
(***************************************************************************)
(* The steps that begin a run: of a new question, or of the checkpoint.    *)
(***************************************************************************)

\* Nothing is known of a call that has not been made.
LEMMA IdleFacts ==
  ASSUME IInv, NEW c \in Call, pc[c] = "idle"
  PROVE  /\ on[c] = None /\ of[c] = None
         /\ \A d \in Call : of[d] # c
         /\ \A m \in Stored : m.run \in Call \ {c} /\ m.of # c /\ pc[m.run] # "idle"
         /\ \A u \in Thread : ckpt[u].of # c
         /\ ~AtWork(c) /\ ~Owes(c)
<1>1. on[c] = None /\ of[c] = None /\ None \notin Call
  BY NothingAssumption DEF IInv, Placed
<1>2. \A d \in Call : of[d] # c
  BY <1>1 DEF IInv, Placed
<1>3. ASSUME NEW m \in Stored PROVE m.run \in Call \ {c} /\ m.of # c /\ pc[m.run] # "idle"
  <2>1. m.run \in Call /\ of[m.run] = m.of /\ (pc[m.run] \in Wrote \/ Owes(m.run))
    BY StoredFacts DEF IInv, Turnwise, Position
  <2>. QED
    BY <1>2, <2>1 DEF Wrote, Owes
<1>4. \A u \in Thread : ckpt[u].of # c
  BY <1>1 DEF IInv, Placed
<1>. QED
  BY <1>1, <1>2, <1>3, <1>4 DEF AtWork, Owes, Nodes, Strays

LEMMA AskKeeps ==
  ASSUME IInv, NEW c \in Call, NEW t \in Thread, NEW m \in Asked, Ask(c, t, m)
  PROVE  IInv'
<1>1. pc[c] = "idle"
  BY DEF Ask
<1>2. /\ on[c] = None /\ of[c] = None
      /\ \A d \in Call : of[d] # c
      /\ \A n \in Stored : n.run \in Call \ {c} /\ n.of # c /\ pc[n.run] # "idle"
      /\ \A u \in Thread : ckpt[u].of # c
  BY <1>1, IdleFacts
<1>3. /\ pc'[c] = "gate" /\ on'[c] = t /\ of'[c] = c
      /\ \A d \in Call \ {c} : /\ pc'[d] = pc[d] /\ on'[d] = on[d] /\ of'[d] = of[d]
                               /\ marks'[d] = marks[d]
      /\ ckpt'[t].next = "gate" /\ ckpt'[t].of = c
      /\ \A u \in Thread \ {t} : ckpt'[u] = ckpt[u]
      /\ UNCHANGED <<history, draft, doubled, reply, faithful, stopped, objected>>
  BY DEF Ask, To, memory, answer, verdicts, IInv, TypeOK
<1>4. Stored' = Stored /\ \A u \in Thread : Full(u)' = Full(u)
  BY <1>3 DEF Stored, Full
<1>5. TypeOK'
  BY AskedAssumption DEF IInv, TypeOK, Ask, To, memory, answer, verdicts, Checkpoint, Nodes, Draft
<1>6. Placed'
  BY <1>2, <1>3 DEF IInv, Placed, Owes
<1>7. Deque'
  <2>1. \A u \in Thread : \A j \in DOMAIN history[u] :
          history[u][j] \in Stored /\ on'[history[u][j].run] = on[history[u][j].run]
    BY <1>2, <1>3, StoredFacts DEF IInv
  <2>. QED
    BY <1>3, <1>4, <2>1 DEF IInv, Deque, Located, Distinct, Behind, Full
<1>8. Runwise'
  <2>1. Alone'
    BY <1>2, <1>3 DEF IInv, Runwise, Alone, AtWork
  <2>2. Tracks'
    <3>. SUFFICES ASSUME NEW d \in Call, AtWork(d)', of'[d] \notin doubled', ckpt'[on'[d]].of = of'[d]
                  PROVE  ckpt'[on'[d]].next = NodeOf(pc'[d])
      BY DEF Tracks, NodeOf
    <3>1. CASE d = c
      BY <1>3, <3>1 DEF NodeOf, Strays
    <3>2. CASE d # c
      <4>1. AtWork(d) /\ on[d] \in Thread /\ of[d] # c
        BY <1>2, <1>3, <3>2 DEF AtWork, Nodes, Strays, IInv, Placed
      <4>. QED
        BY <1>3, <3>2, <4>1 DEF IInv, Runwise, Tracks
    <3>. QED
      BY <3>1, <3>2
  <2>3. Closed'
    <3>. SUFFICES ASSUME NEW d \in Call, pc'[d] = "answered", of'[d] \notin doubled'
                  PROVE  /\ \A e \in Call : AtWork(e)' => of'[e] # of'[d]
                         /\ ckpt'[on'[d]].of = of'[d] => ckpt'[on'[d]].next = "end"
      BY DEF Closed, AtWork
    <3>1. d # c /\ pc[d] = "answered" /\ on[d] \in Thread /\ of[d] # c
      BY <1>2, <1>3 DEF IInv, Placed
    <3>2. \A e \in Call : AtWork(e)' => AtWork(e) \/ e = c
      BY <1>3 DEF AtWork
    <3>. QED
      BY <1>3, <3>1, <3>2 DEF IInv, Runwise, Closed
  <2>. QED
    BY <2>1, <2>2, <2>3 DEF Runwise
<1>9. Turnwise'
  <2>1. Position'
    BY <1>2, <1>3, <1>4 DEF IInv, Turnwise, Position, Owes
  <2>2. Kept'
    <3>. SUFFICES ASSUME NEW d \in Call, Owes(d)' PROVE (Full(on[d]) \/ Question(d) \in Stored)'
      BY DEF Kept
    <3>1. d # c /\ Owes(d) /\ on[d] \in Thread
      BY <1>3 DEF Owes, IInv, Placed
    <3>. QED
      BY <1>3, <1>4, <3>1 DEF IInv, Turnwise, Kept, Question, Full
  <2>3. Fresh' /\ Recorded' /\ Single'
    BY <1>2, <1>3, <1>4 DEF IInv, Turnwise, Fresh, Recorded, Single, Owes
  <2>4. Judgeable'
    <3>1. ASSUME NEW d \in Call, pc'[d] \in {"judge", "answered"}
          PROVE  Remembered(on[d], of[d], draft[d])'
      <4>1. d # c /\ on[d] \in Thread /\ Remembered(on[d], of[d], draft[d])
        BY <1>3, <3>1 DEF IInv, Placed, Turnwise, Judgeable
      <4>. QED
        BY <1>3, <1>4, <4>1 DEF Remembered, Full
    <3>2. ASSUME NEW u \in Thread, ckpt'[u].next = "judge"
          PROVE  Remembered(u, ckpt[u].of, ckpt[u].draft)'
      <4>1. u # t /\ ckpt'[u] = ckpt[u]
        BY <1>3, <3>2
      <4>2. Remembered(u, ckpt[u].of, ckpt[u].draft)
        BY <3>2, <4>1 DEF IInv, Turnwise, Judgeable
      <4>. QED
        BY <1>3, <1>4, <4>1, <4>2 DEF Remembered, Full
    <3>. QED
      BY <3>1, <3>2 DEF Judgeable
  <2>. QED
    BY <2>1, <2>2, <2>3, <2>4 DEF Turnwise
<1>10. Verdictwise'
  <2>1. \A d \in Call : pc'[d] = "blocked" => marks'[of'[d]] = marks[of[d]]
    BY <1>2, <1>3 DEF IInv, Placed
  <2>. QED
    BY <1>1, <1>3, <2>1 DEF IInv, Verdictwise, Delivered, Unobjected, VerdictsAreHeeded
<1>. QED
  BY <1>5, <1>6, <1>7, <1>8, <1>9, <1>10 DEF IInv

LEMMA DecideKeeps ==
  ASSUME IInv, NEW c \in Call, NEW t \in Thread, Decide(c, t)
  PROVE  IInv'
<1>. DEFINE x == ckpt[t]
            q == x.of
<1>1. /\ pc[c] = "idle"
      /\ x.next \in Nodes \ {"answer"} /\ x.draft \in Draft
      /\ q \in Call /\ of[q] = q /\ on[q] = t
  BY DEF Decide, IInv, Placed, TypeOK, Checkpoint
<1>2. /\ on[c] = None /\ of[c] = None /\ q # c
      /\ \A d \in Call : of[d] # c
      /\ \A n \in Stored : n.run \in Call \ {c} /\ n.of # c /\ pc[n.run] # "idle"
      /\ \A u \in Thread : ckpt[u].of # c
  BY <1>1, IdleFacts
<1>3. /\ pc'[c] = x.next /\ on'[c] = t /\ of'[c] = q /\ draft'[c] = x.draft
      /\ \A d \in Call \ {c} : /\ pc'[d] = pc[d] /\ on'[d] = on[d] /\ of'[d] = of[d]
                               /\ draft'[d] = draft[d]
      /\ UNCHANGED <<history, ckpt, marks, reply, faithful, stopped, objected>>
  BY DEF Decide, Resumed, To, memory, answer, verdicts, IInv, TypeOK
<1>4. /\ doubled \subseteq doubled' /\ doubled' \subseteq Call
      /\ q \notin doubled' => \A d \in Call : of[d] = q => ~AtWork(d) /\ pc[d] # "late"
  BY <1>1 DEF Decide, IInv, TypeOK
<1>5. Stored' = Stored /\ \A u \in Thread : Full(u)' = Full(u)
  BY <1>3 DEF Stored, Full
<1>6. TypeOK'
  BY <1>1, <1>4 DEF IInv, TypeOK, Decide, Resumed, To, memory, answer, verdicts
<1>. HIDE DEF x, q
<1>7. Placed'
  BY <1>1, <1>2, <1>3 DEF IInv, Placed, Owes, Nodes, x, q
<1>8. Deque'
  <2>1. \A u \in Thread : \A j \in DOMAIN history[u] :
          history[u][j] \in Stored /\ on'[history[u][j].run] = on[history[u][j].run]
    BY <1>2, <1>3, StoredFacts DEF IInv
  <2>. QED
    BY <1>3, <1>5, <2>1 DEF IInv, Deque, Located, Distinct, Behind, Full
<1>9. Runwise'
  <2>1. Alone'
    BY <1>2, <1>3, <1>4 DEF IInv, Runwise, Alone, AtWork
  <2>2. Tracks'
    <3>. SUFFICES ASSUME NEW d \in Call, AtWork(d)', of'[d] \notin doubled', ckpt'[on'[d]].of = of'[d]
                  PROVE  ckpt'[on'[d]].next = NodeOf(pc'[d])
      BY DEF Tracks, NodeOf
    <3>1. CASE d = c
      BY <1>1, <1>3, <3>1 DEF NodeOf, Strays, Nodes, x
    <3>2. CASE d # c
      <4>1. AtWork(d) /\ of[d] \notin doubled
        BY <1>3, <1>4, <3>2 DEF AtWork
      <4>. QED
        BY <1>3, <3>2, <4>1 DEF IInv, Runwise, Tracks
    <3>. QED
      BY <3>1, <3>2
  <2>3. Closed'
    <3>. SUFFICES ASSUME NEW d \in Call, pc'[d] = "answered", of'[d] \notin doubled'
                  PROVE  /\ \A e \in Call : AtWork(e)' => of'[e] # of'[d]
                         /\ ckpt'[on'[d]].of = of'[d] => ckpt'[on'[d]].next = "end"
      BY DEF Closed, AtWork
    <3>1. /\ d # c /\ pc[d] = "answered" /\ on[of[d]] = on[d]
          /\ of'[d] = of[d] /\ of[d] \notin doubled
      BY <1>1, <1>3, <1>4 DEF IInv, Placed, Nodes
    <3>2. /\ \A e \in Call : AtWork(e) => of[e] # of[d]
          /\ ckpt[on[d]].of = of[d] => ckpt[on[d]].next = "end"
      BY <3>1 DEF IInv, Runwise, Closed
    <3>3. of[d] # q
      <4>1. ASSUME of[d] = q PROVE FALSE
        <5>1. on[d] = t
          BY <1>1, <3>1, <4>1
        <5>. QED
          BY <1>1, <3>2, <4>1, <5>1 DEF x, q, Nodes
      <4>. QED
        BY <4>1
    <3>4. \A e \in Call : AtWork(e)' => AtWork(e) \/ e = c
      BY <1>3 DEF AtWork
    <3>. QED
      BY <1>3, <3>1, <3>2, <3>3, <3>4
  <2>. QED
    BY <2>1, <2>2, <2>3 DEF Runwise
<1>10. Turnwise'
  <2>1. Position'
    BY <1>2, <1>3, <1>5 DEF IInv, Turnwise, Position, Owes
  <2>2. Kept'
    <3>. SUFFICES ASSUME NEW d \in Call, Owes(d)' PROVE (Full(on[d]) \/ Question(d) \in Stored)'
      BY DEF Kept
    <3>1. d # c /\ Owes(d) /\ on[d] \in Thread
      BY <1>1, <1>3 DEF Owes, IInv, Placed, Nodes
    <3>. QED
      BY <1>3, <1>5, <3>1 DEF IInv, Turnwise, Kept, Question, Full
  <2>3. Fresh'
    <3>. SUFFICES ASSUME NEW d \in Call, pc'[d] \in Early, of'[d] \notin doubled',
                         NEW n \in Stored, n.of = of'[d]
                  PROVE  FALSE
      BY <1>5 DEF Fresh
    <3>1. CASE d = c
      <4>1. Owes(n.run) \/ pc[n.run] = "late"
        BY <1>1, <1>3, <1>4, <3>1 DEF IInv, Turnwise, Recorded, x, q
      <4>2. n.run \in Call /\ of[n.run] = q
        BY <1>2, <1>3, <3>1 DEF IInv, Turnwise, Position
      <4>. QED
        BY <1>3, <1>4, <3>1, <4>1, <4>2 DEF Owes, AtWork, Nodes, Strays
    <3>2. CASE d # c
      BY <1>3, <1>4, <3>2 DEF IInv, Turnwise, Fresh
    <3>. QED
      BY <3>1, <3>2
  <2>4. Recorded'
    BY <1>2, <1>3, <1>4, <1>5 DEF IInv, Turnwise, Recorded, Owes
  <2>5. Single'
    <3>1. \A d \in Call : Owes(d)' => d # c /\ Owes(d)
      BY <1>1, <1>3 DEF Owes, Nodes
    <3>. QED
      BY <1>3, <1>4, <1>5, <3>1 DEF IInv, Turnwise, Single
  <2>6. Judgeable'
    <3>2. \A u \in Thread : ckpt[u].next = "judge" => Remembered(u, ckpt[u].of, ckpt[u].draft)
      BY DEF IInv, Turnwise, Judgeable
    <3>4. ASSUME NEW d \in Call, pc'[d] \in {"judge", "answered"}
          PROVE  Remembered(on[d], of[d], draft[d])'
      <4>1. CASE d = c
        <5>1. Remembered(t, q, x.draft) /\ x.next = "judge"
          BY <1>1, <1>3, <3>2, <3>4, <4>1 DEF x, q, Nodes
        <5>. QED
          BY <1>3, <1>4, <1>5, <4>1, <5>1 DEF Remembered, Full
      <4>2. CASE d # c
        <5>1. on[d] \in Thread /\ Remembered(on[d], of[d], draft[d])
          BY <1>3, <3>4, <4>2 DEF IInv, Placed, Turnwise, Judgeable
        <5>. QED
          BY <1>3, <1>4, <1>5, <4>2, <5>1 DEF Remembered, Full
      <4>. QED
        BY <4>1, <4>2
    <3>5. ASSUME NEW u \in Thread, ckpt'[u].next = "judge"
          PROVE  Remembered(u, ckpt[u].of, ckpt[u].draft)'
      BY <1>3, <1>4, <1>5, <3>2, <3>5 DEF Remembered, Full
    <3>. QED
      BY <3>4, <3>5 DEF Judgeable
  <2>. QED
    BY <2>1, <2>2, <2>3, <2>4, <2>5, <2>6 DEF Turnwise
<1>11. Verdictwise'
  <2>1. \A d \in Call : pc'[d] \in {"blocked", "answered", "confused"} => d # c
    BY <1>1, <1>3 DEF Nodes
  <2>. QED
    BY <1>1, <1>3, <2>1 DEF IInv, Verdictwise, Delivered, Unobjected, VerdictsAreHeeded
<1>. QED
  BY <1>6, <1>7, <1>8, <1>9, <1>10, <1>11 DEF IInv

-----------------------------------------------------------------------------
(***************************************************************************)
(* The steps that append: a run's question, and then its answer.           *)
(***************************************************************************)
LEMMA SameShift == \A i, j \in Int : \A s \in {0, 1} : i + s = j + s => i = j
OBVIOUS

\* What an append does to the memory, whatever the order of the workers.
LEMMA Appended ==
  ASSUME IInv, NEW c \in Call, NEW m \in Message, m.run = c, m.of = of[c],
         on[c] \in Thread, of[c] \in Call, UNCHANGED <<on, of>>,
         history' = [history EXCEPT ![on[c]] = Push(history[on[c]], m)],
         \A n \in Stored : n.run = c => n.role # m.role,
         m.role = "assistant" => Owes(c)
  PROVE  /\ history' \in [Thread -> Seq(Message)]
         /\ \A u \in Thread : Len(history'[u]) <= MaxHistory
         /\ Deque'
         /\ m \in Stored' /\ Stored' \subseteq Stored \cup {m}
         /\ \A u \in Thread : Full(u) => Full(u)'
         /\ \A n \in Stored : n \in Stored' \/ Full(on[n.run])'
<1>. DEFINE t == on[c]
            h == history[t]
            g == Push(h, m)
<1>1. /\ h \in Seq(Message) /\ Len(h) <= MaxHistory /\ Len(h) \in Nat
      /\ MaxHistory \in Nat \ {0} /\ t \in Thread
      /\ history'[t] = g /\ \A u \in Thread \ {t} : history'[u] = history[u]
  BY LimitsAssumption DEF IInv, TypeOK
<1>2. /\ g \in Seq(Message) /\ Len(g) \in 1..MaxHistory /\ g[Len(g)] = m
      /\ Len(h) < MaxHistory => Len(g) = Len(h) + 1 /\ \A j \in 1..Len(h) : g[j] = h[j]
      /\ Len(h) = MaxHistory => Len(g) = MaxHistory
  <2>. HIDE DEF h, t
  <2>. QED
    BY <1>1, PushFacts
<1>3. PICK s \in {0, 1} : \A j \in DOMAIN g :
        \/ j = Len(g) /\ g[j] = m
        \/ j < Len(g) /\ j + s \in DOMAIN h /\ g[j] = h[j + s]
  <2>. HIDE DEF h, t
  <2>. QED
    BY <1>1, OldMessages
<1>4. DOMAIN g = 1..Len(g) /\ DOMAIN h = 1..Len(h) /\ DOMAIN g \subseteq Int
      /\ Len(g) \in DOMAIN g
  BY <1>1, <1>2
<1>5. history' \in [Thread -> Seq(Message)] /\ \A u \in Thread : Len(history'[u]) <= MaxHistory
  BY <1>1, <1>2 DEF IInv, TypeOK
<1>6. \/ Len(g) = MaxHistory
      \/ \A i \in DOMAIN h : i \in DOMAIN g /\ g[i] = h[i]
  BY <1>1, <1>2, <1>4
<1>7. \A u \in Thread : \A j \in DOMAIN history'[u] :
        \/ u = t /\ history'[u][j] = m
        \/ \E i \in DOMAIN history[u] : history'[u][j] = history[u][i]
  BY <1>1, <1>3
<1>8. m.role = "user" \/ m.role = "assistant"
  BY DEF Message
<1>9. \A j \in DOMAIN h : h[j] \in Stored /\ ~(h[j].run = c /\ h[j].role = m.role)
  BY <1>1, StoredFacts DEF IInv
<1>. HIDE DEF g, h, t
<1>10. \A u \in Thread : Full(u) => Full(u)'
  BY <1>1, <1>2 DEF Full, h
<1>11. m \in Stored' /\ Stored' \subseteq Stored \cup {m}
  <2>1. m \in Stored'
    <3>1. Len(g) \in DOMAIN history'[t] /\ history'[t][Len(g)] = m /\ t \in Thread
      BY <1>1, <1>2, <1>4
    <3>. QED
      BY <3>1 DEF Stored
  <2>2. \A n \in Stored' : n \in Stored \cup {m}
    BY <1>7 DEF Stored
  <2>. QED
    BY <2>1, <2>2
<1>12. ASSUME NEW n \in Stored PROVE n \in Stored' \/ Full(on[n.run])'
  <2>1. PICK u \in Thread : \E j \in DOMAIN history[u] : history[u][j] = n
    BY DEF Stored
  <2>2. PICK j \in DOMAIN history[u] : history[u][j] = n
    BY <2>1
  <2>3. on[n.run] = u
    BY <2>2 DEF IInv, Deque, Located
  <2>4. n \in Message
    BY DEF Stored
  <2>5. CASE u = t
    <3>1. CASE Len(g) = MaxHistory
      BY <1>1, <2>3, <2>5, <3>1 DEF Full
    <3>2. CASE Len(g) # MaxHistory
      <4>1. j \in DOMAIN history'[t] /\ history'[t][j] = n
        BY <1>1, <1>6, <2>2, <2>5, <3>2 DEF h
      <4>. QED
        BY <1>1, <2>4, <4>1 DEF Stored
    <3>. QED
      BY <3>1, <3>2
  <2>6. CASE u # t
    BY <1>1, <2>2, <2>4, <2>6 DEF Stored
  <2>. QED
    BY <2>5, <2>6
<1>13. Located'
  BY <1>7 DEF IInv, Deque, Located, t
<1>14. Distinct'
  <2>1. ASSUME NEW i \in DOMAIN g, NEW j \in DOMAIN g,
               g[i].role = g[j].role, g[i].run = g[j].run
        PROVE  i = j
    <3>1. i \in Int /\ j \in Int
      BY <1>2, <1>4
    <3>2. CASE i = Len(g) \/ j = Len(g)
      BY <1>2, <1>3, <1>9, <2>1, <3>2
    <3>3. CASE i # Len(g) /\ j # Len(g)
      <4>1. /\ i + s \in DOMAIN h /\ g[i] = h[i + s]
            /\ j + s \in DOMAIN h /\ g[j] = h[j + s]
        BY <1>3, <3>3
      <4>2. i + s = j + s
        BY <1>1, <2>1, <4>1 DEF IInv, Deque, Distinct, h
      <4>. QED
        BY <3>1, <4>2, SameShift
    <3>. QED
      BY <3>2, <3>3
  <2>. QED
    BY <1>1, <2>1 DEF IInv, Deque, Distinct
<1>15. Behind'
  <2>1. ASSUME NEW j \in DOMAIN g, g[j].role = "assistant", Len(g) # MaxHistory
        PROVE  \E i \in 1..(j - 1) : Answers(g[j], g[i])
    <3>1. Len(h) < MaxHistory /\ Len(g) = Len(h) + 1 /\ \A k \in 1..Len(h) : g[k] = h[k]
      BY <1>1, <1>2, <2>1 DEF h, g
    <3>2. CASE j = Len(g)
      <4>1. Owes(c) /\ ~Full(t)
        BY <1>2, <2>1, <3>1, <3>2 DEF Full, h
      <4>2. Question(c) \in Stored /\ Question(c).run = c /\ Question(c).of = of[c]
            /\ Question(c).role = "user"
        BY <4>1, MessageFacts DEF IInv, Turnwise, Kept, t
      <4>3. PICK u \in Thread : \E i \in DOMAIN history[u] : history[u][i] = Question(c)
        BY <4>2 DEF Stored
      <4>4. u = t
        BY <4>2, <4>3 DEF IInv, Deque, Located, t
      <4>5. PICK i \in DOMAIN h : h[i] = Question(c)
        BY <4>3, <4>4 DEF h
      <4>6. i \in 1..(j - 1) /\ g[i] = Question(c)
        BY <1>1, <1>4, <3>1, <3>2, <4>5
      <4>7. Answers(g[j], g[i])
        BY <1>2, <2>1, <3>2, <4>2, <4>6 DEF Answers
      <4>. QED
        BY <4>6, <4>7
    <3>3. CASE j \in 1..Len(h)
      <4>1. g[j] = h[j] /\ j \in DOMAIN h
        BY <1>4, <3>1, <3>3
      <4>2. PICK i \in 1..(j - 1) : Answers(h[j], h[i])
        BY <1>1, <2>1, <3>1, <4>1 DEF IInv, Deque, Behind, Full, h
      <4>3. i \in 1..Len(h)
        BY <1>1, <3>3
      <4>. QED
        BY <3>1, <4>1, <4>2, <4>3
    <3>. QED
      BY <1>1, <1>4, <3>1, <3>2, <3>3
  <2>. QED
    BY <1>1, <2>1 DEF IInv, Deque, Behind, Full
<1>. QED
  BY <1>5, <1>10, <1>11, <1>12, <1>13, <1>14, <1>15 DEF Deque

\* What is remembered stays so, unless another answer of the question comes in.
LEMMA StillRemembered ==
  ASSUME IInv, NEW m, Stored' \subseteq Stored \cup {m}, UNCHANGED <<on, doubled>>,
         \A u \in Thread : Full(u) => Full(u)',
         \A n \in Stored : n \in Stored' \/ Full(on[n.run])',
         NEW u \in Thread, NEW q \in Call, on[q] = u, NEW x, Remembered(u, q, x),
         m.role # "assistant" \/ m.of # q \/ q \in doubled
  PROVE  /\ Full(u)' \/ \E n \in Stored' : n.role = "assistant" /\ n.of = q
         /\ q \notin doubled => \A n \in Stored' : n.role = "assistant" /\ n.of = q => n.text = x
<1>1. ASSUME NEW n \in Stored, n.of = q PROVE on[n.run] = u
  <2>1. n.run \in Call /\ of[n.run] = q /\ pc[n.run] # "idle"
    BY <1>1, StoredFacts DEF IInv, Turnwise, Position, Wrote, Owes
  <2>. QED
    BY <2>1 DEF IInv, Placed
<1>2. Full(u)' \/ \E n \in Stored' : n.role = "assistant" /\ n.of = q
  <2>1. CASE Full(u)
    BY <2>1
  <2>2. CASE \E n \in Stored : n.role = "assistant" /\ n.of = q
    <3>1. PICK n \in Stored : n.role = "assistant" /\ n.of = q
      BY <2>2
    <3>2. n \in Stored' \/ Full(u)'
      BY <1>1, <3>1 DEF Full
    <3>. QED
      BY <3>1, <3>2
  <2>. QED
    BY <2>1, <2>2 DEF Remembered
<1>3. q \notin doubled => \A n \in Stored' : n.role = "assistant" /\ n.of = q => n.text = x
  BY DEF Remembered
<1>. QED
  BY <1>2, <1>3

LEMMA FormatKeeps ==
  ASSUME IInv, NEW c \in Call, NEW x \in {"draft", "empty"}, Format(c, x)
  PROVE  IInv'
<1>1. /\ pc[c] \in {"format", "stray_format"} /\ pc[c] \in Early /\ AtWork(c)
      /\ on[c] \in Thread /\ of[c] \in Call
  BY RunFacts DEF Format, Early, AtWork, Nodes, Strays
<1>2. PICK m \in Message : m = Question(c)
  BY <1>1, MessageFacts
<1>3. m.role = "user" /\ m.of = of[c] /\ m.run = c
  BY <1>1, <1>2, MessageFacts
<1>4. /\ pc'[c] = IF pc[c] = "format" THEN "answer" ELSE "stray_answer"
      /\ draft'[c] = x
      /\ \A d \in Call \ {c} : pc'[d] = pc[d] /\ draft'[d] = draft[d]
      /\ history' = [history EXCEPT ![on[c]] = Push(history[on[c]], m)]
      /\ UNCHANGED <<on, of, ckpt, marks, reply, faithful, stopped, objected, doubled>>
  BY <1>2 DEF Format, To, question, answer, verdicts, marking, IInv, TypeOK
<1>5. \A n \in Stored : n.run # c
  BY <1>1 DEF IInv, Turnwise, Position, Wrote, Owes
<1>6. /\ history' \in [Thread -> Seq(Message)]
      /\ \A u \in Thread : Len(history'[u]) <= MaxHistory
      /\ Deque'
      /\ m \in Stored' /\ Stored' \subseteq Stored \cup {m}
      /\ \A u \in Thread : Full(u) => Full(u)'
      /\ \A n \in Stored : n \in Stored' \/ Full(on[n.run])'
  BY <1>1, <1>3, <1>4, <1>5, Appended
<1>7. TypeOK'
  <2>1. Answer(c, x) \in Message
    BY <1>1, MessageFacts DEF Summary
  <2>. QED
    BY <1>1, <1>6, <2>1
       DEF IInv, TypeOK, Format, To, question, answer, verdicts, marking, Draft, Nodes, Strays
<1>8. Placed'
  BY <1>1, <1>4 DEF IInv, Placed, Owes
<1>9. \A d \in Call : (AtWork(d)' <=> AtWork(d)) /\ NodeOf(pc'[d]) = NodeOf(pc[d])
  BY <1>1, <1>4 DEF AtWork, NodeOf, Nodes, Strays
<1>10. Runwise'
  BY <1>1, <1>4, <1>9 DEF IInv, Runwise, Alone, Tracks, Closed, NodeOf
<1>11. \A d \in Call : of[d] = of[c] /\ AtWork(d) /\ of[c] \notin doubled => d = c
  BY <1>1 DEF IInv, Runwise, Alone
<1>12. of[c] \notin doubled => \A n \in Stored : n.of # of[c]
  BY <1>1 DEF IInv, Turnwise, Fresh
<1>13. Owes(c)' /\ \A d \in Call \ {c} : Owes(d)' => Owes(d) /\ AtWork(d)
  BY <1>1, <1>4 DEF Owes, AtWork, Nodes, Strays
<1>14. \A n \in Stored : n.run \in Call /\ n.of \in Call
  BY StoredFacts DEF IInv
<1>15. Position'
  <2>. SUFFICES ASSUME NEW n \in Stored'
                PROVE  /\ of[n.run] = n.of
                       /\ pc'[n.run] \in Wrote \/ (n.role = "user" /\ Owes(n.run)')
                       /\ n.role = "assistant" => n.text = draft'[n.run]
    BY <1>4 DEF Position, Owes
  <2>1. CASE n = m
    BY <1>3, <1>13, <2>1
  <2>2. CASE n \in Stored
    BY <1>4, <1>5, <1>14, <2>2 DEF IInv, Turnwise, Position, Owes
  <2>. QED
    BY <1>6, <2>1, <2>2
<1>16. Kept'
  <2>. SUFFICES ASSUME NEW d \in Call, Owes(d)' PROVE Full(on[d])' \/ Question(d) \in Stored'
    BY <1>4 DEF Kept, Full, Question
  <2>1. CASE d = c
    BY <1>2, <1>6, <2>1
  <2>2. CASE d # c
    <3>1. Owes(d) /\ on[d] \in Thread /\ of[d] \in Call
      BY <1>13, <2>2, RunFacts DEF Owes
    <3>2. CASE Full(on[d])
      BY <1>4, <1>6, <3>1, <3>2 DEF Full
    <3>3. CASE Question(d) \in Stored
      <4>1. Question(d).run = d
        BY <3>1, MessageFacts
      <4>2. \A n \in Stored : n.run = d => n \in Stored' \/ Full(on[d])'
        BY <1>4, <1>6 DEF Full
      <4>. QED
        BY <3>3, <4>1, <4>2
    <3>. QED
      BY <3>1, <3>2, <3>3 DEF IInv, Turnwise, Kept
  <2>. QED
    BY <2>1, <2>2
<1>17. Fresh'
  <2>. SUFFICES ASSUME NEW d \in Call, pc'[d] \in Early, of[d] \notin doubled,
                       NEW n \in Stored', n.of = of[d]
                PROVE  FALSE
    BY <1>4 DEF Fresh
  <2>1. d # c /\ pc[d] \in Early /\ AtWork(d)
    BY <1>1, <1>4 DEF Early, AtWork, Nodes, Strays
  <2>. QED
    BY <1>3, <1>6, <1>11, <2>1 DEF IInv, Turnwise, Fresh
<1>18. Recorded'
  <2>. SUFFICES ASSUME NEW u \in Thread, ckpt[u].next \in Early, ckpt[u].of \notin doubled,
                       NEW n \in Stored', n.of = ckpt[u].of
                PROVE  Owes(n.run)' \/ pc'[n.run] = "late"
    BY <1>4 DEF Recorded, Owes
  <2>1. CASE n = m
    BY <1>3, <1>13, <2>1
  <2>2. CASE n \in Stored
    <3>1. Owes(n.run) \/ pc[n.run] = "late"
      BY <2>2 DEF IInv, Turnwise, Recorded
    <3>. QED
      BY <1>4, <1>5, <1>14, <2>2, <3>1 DEF Owes
  <2>. QED
    BY <1>6, <2>1, <2>2
<1>19. Single'
  <2>. SUFFICES ASSUME NEW n \in Stored', n.of \notin doubled
                PROVE  /\ \A o \in Stored' : o.of = n.of => o.run = n.run
                       /\ \A d \in Call : Owes(d)' /\ of[d] = n.of => n.run = d
    BY <1>4 DEF Single, Owes
  <2>1. CASE n = m
    BY <1>3, <1>6, <1>11, <1>12, <1>13, <2>1
  <2>2. CASE n \in Stored
    <3>1. n.of # of[c]
      BY <1>12, <2>2
    <3>. QED
      BY <1>3, <1>6, <1>13, <2>2, <3>1 DEF IInv, Turnwise, Single
  <2>. QED
    BY <1>6, <2>1, <2>2
<1>20. Judgeable'
  <2>1. ASSUME NEW d \in Call, pc'[d] \in {"judge", "answered"}
        PROVE  Remembered(on[d], of[d], draft[d])'
    <3>1. d # c /\ pc[d] \in {"judge", "answered"}
      BY <1>4, <2>1
    <3>2. on[d] \in Thread /\ of[d] \in Call /\ on[of[d]] = on[d]
      BY <3>1, RunFacts
    <3>3. Remembered(on[d], of[d], draft[d])
      BY <3>1 DEF IInv, Turnwise, Judgeable
    <3>4. /\ Full(on[d])' \/ \E n \in Stored' : n.role = "assistant" /\ n.of = of[d]
          /\ of[d] \notin doubled =>
               \A n \in Stored' : n.role = "assistant" /\ n.of = of[d] => n.text = draft[d]
      BY <1>3, <1>4, <1>6, <3>2, <3>3, StillRemembered
    <3>. QED
      BY <1>4, <3>1, <3>4 DEF Remembered, Full
  <2>2. ASSUME NEW u \in Thread, ckpt'[u].next = "judge"
        PROVE  Remembered(u, ckpt[u].of, ckpt[u].draft)'
    <3>1. ckpt[u].of \in Call /\ on[ckpt[u].of] = u /\ Remembered(u, ckpt[u].of, ckpt[u].draft)
      BY <1>4, <2>2 DEF IInv, Placed, Turnwise, Judgeable
    <3>2. /\ Full(u)' \/ \E n \in Stored' : n.role = "assistant" /\ n.of = ckpt[u].of
          /\ ckpt[u].of \notin doubled =>
               \A n \in Stored' : n.role = "assistant" /\ n.of = ckpt[u].of => n.text = ckpt[u].draft
      BY <1>3, <1>4, <1>6, <3>1, StillRemembered
    <3>. QED
      BY <1>4, <3>2 DEF Remembered
  <2>. QED
    BY <2>1, <2>2 DEF Judgeable
<1>21. Verdictwise'
  BY <1>1, <1>4 DEF IInv, Verdictwise, Delivered, Unobjected, VerdictsAreHeeded
<1>. QED
  BY <1>6, <1>7, <1>8, <1>10, <1>15, <1>16, <1>17, <1>18, <1>19, <1>20, <1>21 DEF IInv, Turnwise

LEMMA AddAnswerKeeps ==
  ASSUME IInv, NEW c \in Call, AddAnswer(c)
  PROVE  IInv'
<1>1. /\ Owes(c) /\ AtWork(c)
      /\ on[c] \in Thread /\ of[c] \in Call /\ of[of[c]] = of[c] /\ on[of[c]] = on[c]
      /\ draft[c] \in {"draft", "empty"}
  <2>1. Owes(c) /\ AtWork(c)
    BY DEF AddAnswer, Owes, AtWork, Nodes, Strays
  <2>2. pc[c] # "idle"
    BY <2>1 DEF Owes
  <2>. QED
    BY <2>1, <2>2, RunFacts DEF IInv, Placed
<1>2. PICK m \in Message : m = Answer(c, draft[c])
  BY <1>1, MessageFacts DEF Summary
<1>3. m.role = "assistant" /\ m.of = of[c] /\ m.run = c /\ m.text = draft[c]
  BY <1>1, <1>2, MessageFacts DEF Summary
<1>4. /\ \A d \in Call \ {c} : pc'[d] = pc[d]
      /\ \/ /\ pc[c] = "answer" /\ pc'[c] = "judge"
            /\ ckpt'[on[c]].next = "judge" /\ ckpt'[on[c]].of = of[c]
            /\ ckpt'[on[c]].draft = draft[c]
         \/ pc[c] = "stray_answer" /\ pc'[c] = "late" /\ UNCHANGED ckpt
      /\ \A u \in Thread \ {on[c]} : ckpt'[u] = ckpt[u]
      /\ history' = [history EXCEPT ![on[c]] = Push(history[on[c]], m)]
      /\ UNCHANGED <<on, of, draft, marks, reply, faithful, stopped, objected, doubled>>
  BY <1>1, <1>2
     DEF AddAnswer, Advance, Save, Break, To, question, answer, verdicts, marking, IInv, TypeOK
<1>5. \A n \in Stored : n.run = c => n.role # m.role
  BY <1>1, <1>3 DEF IInv, Turnwise, Position, Wrote, Owes
<1>5h. UNCHANGED <<on, of>> /\ history' = [history EXCEPT ![on[c]] = Push(history[on[c]], m)]
  BY <1>4
<1>6. /\ history' \in [Thread -> Seq(Message)]
      /\ \A u \in Thread : Len(history'[u]) <= MaxHistory
      /\ Deque'
      /\ m \in Stored' /\ Stored' \subseteq Stored \cup {m}
      /\ \A u \in Thread : Full(u) => Full(u)'
      /\ \A n \in Stored : n \in Stored' \/ Full(on[n.run])'
  BY <1>1, <1>3, <1>5, <1>5h, Appended
<1>7. TypeOK'
  <2>1. pc[c] # "idle"
    BY <1>1 DEF Owes
  <2>2. ckpt' \in [Thread -> Checkpoint]
    BY <2>1, SaveTyped DEF AddAnswer, Advance, Break, Nodes
  <2>. QED
    BY <1>1, <1>6, <2>2
       DEF IInv, TypeOK, AddAnswer, Advance, Break, To, question, answer, verdicts, marking, Nodes
<1>8. Placed'
  <2>1. \A d \in Call : Owes(d)' => Owes(d)
    BY <1>4 DEF Owes
  <2>. QED
    BY <1>1, <1>4, <2>1 DEF IInv, Placed, Owes
<1>9. \A d \in Call : /\ AtWork(d)' => AtWork(d)
                      /\ d # c /\ of[d] = of[c] /\ of[c] \notin doubled => ~AtWork(d)
  BY <1>1, <1>4 DEF AtWork, IInv, Runwise, Alone
<1>10. \A u \in Thread : ckpt[u].of = of[c] => u = on[c]
  BY <1>1, NothingAssumption DEF IInv, Placed
<1>11. \A d \in Call : AtWork(d) \/ pc[d] = "answered" => on[d] \in Thread /\ on[of[d]] = on[d]
  BY RunFacts DEF AtWork, Nodes, Strays
<1>12. Runwise'
  <2>1. Alone'
    BY <1>4, <1>9 DEF IInv, Runwise, Alone
  <2>2. Tracks'
    <3>. SUFFICES ASSUME NEW d \in Call, AtWork(d)', of[d] \notin doubled, ckpt'[on[d]].of = of[d]
                  PROVE  ckpt'[on[d]].next = NodeOf(pc'[d])
      BY <1>4 DEF Tracks, NodeOf
    <3>1. CASE d = c
      BY <1>4, <3>1 DEF NodeOf, Strays, AtWork, Nodes
    <3>2. CASE d # c
      <4>1. AtWork(d) /\ of[d] # of[c] /\ on[d] \in Thread
        BY <1>9, <1>11, <3>2
      <4>2. ckpt'[on[d]] = ckpt[on[d]]
        BY <1>4, <4>1
      <4>. QED
        BY <1>4, <3>2, <4>1, <4>2 DEF IInv, Runwise, Tracks
    <3>. QED
      BY <3>1, <3>2
  <2>3. Closed'
    <3>. SUFFICES ASSUME NEW d \in Call, pc'[d] = "answered", of[d] \notin doubled
                  PROVE  /\ \A e \in Call : AtWork(e)' => of[e] # of[d]
                         /\ ckpt'[on[d]].of = of[d] => ckpt'[on[d]].next = "end"
      BY <1>4 DEF Closed, AtWork
    <3>1. d # c /\ pc[d] = "answered" /\ on[d] \in Thread
      BY <1>4, <1>11
    <3>2. /\ \A e \in Call : AtWork(e) => of[e] # of[d]
          /\ ckpt[on[d]].of = of[d] => ckpt[on[d]].next = "end"
      BY <3>1 DEF IInv, Runwise, Closed
    <3>3. ckpt'[on[d]].of = of[d] => ckpt'[on[d]] = ckpt[on[d]]
      BY <1>1, <1>4, <3>1, <3>2
    <3>. QED
      BY <1>9, <3>2, <3>3
  <2>. QED
    BY <2>1, <2>2, <2>3 DEF Runwise
<1>13. \A d \in Call : Owes(d)' => d # c /\ Owes(d) /\ AtWork(d)
  BY <1>4 DEF Owes, AtWork, Nodes, Strays
<1>14. \A n \in Stored : n.run \in Call /\ n.of \in Call
  BY StoredFacts DEF IInv
<1>15. Position'
  <2>. SUFFICES ASSUME NEW n \in Stored'
                PROVE  /\ of[n.run] = n.of
                       /\ pc'[n.run] \in Wrote \/ (n.role = "user" /\ Owes(n.run)')
                       /\ n.role = "assistant" => n.text = draft[n.run]
    BY <1>4 DEF Position, Owes
  <2>1. pc'[c] \in Wrote
    BY <1>4 DEF Wrote
  <2>2. CASE n = m
    BY <1>3, <2>1, <2>2
  <2>3. CASE n \in Stored
    BY <1>4, <1>14, <2>1, <2>3 DEF IInv, Turnwise, Position, Owes
  <2>. QED
    BY <1>6, <2>2, <2>3
<1>16. Kept'
  <2>. SUFFICES ASSUME NEW d \in Call, Owes(d)' PROVE Full(on[d])' \/ Question(d) \in Stored'
    BY <1>4 DEF Kept, Full, Question
  <2>1. Owes(d) /\ on[d] \in Thread /\ of[d] \in Call
    BY <1>13, RunFacts DEF Owes
  <2>2. CASE Full(on[d])
    BY <1>4, <1>6, <2>1, <2>2 DEF Full
  <2>3. CASE Question(d) \in Stored
    <3>1. Question(d).run = d
      BY <2>1, MessageFacts
    <3>2. \A n \in Stored : n.run = d => n \in Stored' \/ Full(on[d])'
      BY <1>4, <1>6 DEF Full
    <3>. QED
      BY <2>3, <3>1, <3>2
  <2>. QED
    BY <2>1, <2>2, <2>3 DEF IInv, Turnwise, Kept
<1>17. Fresh'
  <2>. SUFFICES ASSUME NEW d \in Call, pc'[d] \in Early, of[d] \notin doubled,
                       NEW n \in Stored', n.of = of[d]
                PROVE  FALSE
    BY <1>4 DEF Fresh
  <2>1. d # c /\ pc[d] \in Early /\ AtWork(d)
    BY <1>4 DEF Early, AtWork, Nodes, Strays
  <2>. QED
    BY <1>3, <1>6, <1>9, <2>1 DEF IInv, Turnwise, Fresh
<1>18. Recorded'
  <2>. SUFFICES ASSUME NEW u \in Thread, ckpt'[u].next \in Early, ckpt'[u].of \notin doubled,
                       NEW n \in Stored', n.of = ckpt'[u].of
                PROVE  Owes(n.run)' \/ pc'[n.run] = "late"
    BY <1>4 DEF Recorded, Owes
  <2>1. CASE n.run = c
    <3>1. n.of = of[c]
      BY <1>3, <1>6, <2>1 DEF IInv, Turnwise, Position
    <3>2. pc[c] = "stray_answer"
      BY <1>4, <1>10, <3>1 DEF Early
    <3>. QED
      BY <1>4, <2>1, <3>2
  <2>2. CASE n.run # c
    <3>1. n \in Stored
      BY <1>3, <1>6, <2>2
    <3>2. ckpt'[u] = ckpt[u]
      BY <1>1, <1>4 DEF Early
    <3>3. Owes(n.run) \/ pc[n.run] = "late"
      BY <3>1, <3>2 DEF IInv, Turnwise, Recorded
    <3>. QED
      BY <1>4, <1>14, <2>2, <3>1, <3>3 DEF Owes
  <2>. QED
    BY <2>1, <2>2
<1>19. of[c] \notin doubled => \A n \in Stored : n.of = of[c] => n.run = c
  BY <1>1 DEF IInv, Turnwise, Single
<1>20. Single'
  <2>. SUFFICES ASSUME NEW n \in Stored', n.of \notin doubled
                PROVE  /\ \A o \in Stored' : o.of = n.of => o.run = n.run
                       /\ \A d \in Call : Owes(d)' /\ of[d] = n.of => n.run = d
    BY <1>4 DEF Single, Owes
  <2>1. CASE n = m
    BY <1>3, <1>6, <1>9, <1>13, <1>19, <2>1
  <2>2. CASE n \in Stored
    BY <1>3, <1>6, <1>13, <1>19, <2>2 DEF IInv, Turnwise, Single
  <2>. QED
    BY <1>6, <2>1, <2>2
<1>21. Judgeable'
  <2>1. ASSUME NEW q, q = of[c]
        PROVE  /\ Full(on[c])' \/ \E n \in Stored' : n.role = "assistant" /\ n.of = q
               /\ q \notin doubled =>
                    \A n \in Stored' : n.role = "assistant" /\ n.of = q => n.text = draft[c]
    BY <1>3, <1>5, <1>6, <1>19, <2>1
  <2>2. ASSUME NEW d \in Call, pc'[d] \in {"judge", "answered"}
        PROVE  Remembered(on[d], of[d], draft[d])'
    <3>1. CASE d = c
      BY <1>4, <2>1, <3>1 DEF Remembered, Full
    <3>2. CASE d # c
      <4>1. pc[d] \in {"judge", "answered"}
        BY <1>4, <2>2, <3>2
      <4>2. on[d] \in Thread /\ of[d] \in Call /\ on[of[d]] = on[d]
        BY <4>1, RunFacts
      <4>3. Remembered(on[d], of[d], draft[d])
        BY <4>1 DEF IInv, Turnwise, Judgeable
      <4>4. of[d] = of[c] => of[d] \in doubled
        BY <1>1, <1>9, <3>2, <4>1 DEF AtWork, Nodes, IInv, Runwise, Closed
      <4>5. /\ Full(on[d])' \/ \E n \in Stored' : n.role = "assistant" /\ n.of = of[d]
            /\ of[d] \notin doubled =>
                 \A n \in Stored' : n.role = "assistant" /\ n.of = of[d] => n.text = draft[d]
        BY <1>3, <1>4, <1>6, <4>2, <4>3, <4>4, StillRemembered
      <4>. QED
        BY <1>4, <4>5 DEF Remembered, Full
    <3>. QED
      BY <3>1, <3>2
  <2>3. ASSUME NEW u \in Thread, ckpt'[u].next = "judge"
        PROVE  Remembered(u, ckpt[u].of, ckpt[u].draft)'
    <3>1. CASE pc[c] = "answer" /\ u = on[c]
      BY <1>4, <2>1, <3>1 DEF Remembered, Full
    <3>2. CASE ~(pc[c] = "answer" /\ u = on[c])
      <4>1. ckpt'[u] = ckpt[u]
        BY <1>4, <3>2
      <4>2. ckpt[u].of \in Call /\ on[ckpt[u].of] = u /\ Remembered(u, ckpt[u].of, ckpt[u].draft)
        BY <2>3, <4>1 DEF IInv, Placed, Turnwise, Judgeable
      <4>3. ckpt[u].of = of[c] => of[c] \in doubled
        <5>1. CASE u = on[c]
          BY <1>1, <1>4, <2>3, <3>2, <4>1, <5>1 DEF IInv, Runwise, Tracks, NodeOf, Strays
        <5>2. CASE u # on[c]
          BY <1>10, <5>2
        <5>. QED
          BY <5>1, <5>2
      <4>4. /\ Full(u)' \/ \E n \in Stored' : n.role = "assistant" /\ n.of = ckpt[u].of
            /\ ckpt[u].of \notin doubled =>
                 \A n \in Stored' : n.role = "assistant" /\ n.of = ckpt[u].of => n.text = ckpt[u].draft
        BY <1>3, <1>4, <1>6, <4>2, <4>3, StillRemembered
      <4>. QED
        BY <1>4, <4>1, <4>4 DEF Remembered
    <3>. QED
      BY <3>1, <3>2
  <2>. QED
    BY <2>2, <2>3 DEF Judgeable
<1>22. Verdictwise'
  BY <1>1, <1>4 DEF IInv, Verdictwise, Delivered, Unobjected, VerdictsAreHeeded, Owes
<1>. QED
  BY <1>6, <1>7, <1>8, <1>12, <1>15, <1>16, <1>17, <1>18, <1>20, <1>21, <1>22 DEF IInv, Turnwise

-----------------------------------------------------------------------------
LEMMA InitIInv == Init => IInv
<1>. SUFFICES ASSUME Init PROVE IInv
  OBVIOUS
<1>1. TypeOK
  BY LimitsAssumption DEF Init, TypeOK, Checkpoint, Draft
<1>2. Stored = {} /\ \A c \in Call : pc[c] = "idle"
  BY DEF Init, Stored
<1>3. Placed /\ Deque
  BY DEF Init, Placed, Owes, Deque, Located, Distinct, Behind
<1>4. Runwise
  BY <1>2 DEF Runwise, Alone, Tracks, Closed, AtWork, Nodes, Strays
<1>5. Turnwise
  <2>1. Position /\ Fresh /\ Recorded /\ Single
    BY <1>2 DEF Position, Fresh, Recorded, Single
  <2>2. Kept /\ Judgeable
    BY <1>2 DEF Init, Kept, Judgeable, Owes
  <2>. QED
    BY <2>1, <2>2 DEF Turnwise
<1>6. Verdictwise
  BY DEF Init, Verdictwise, Delivered, Unobjected, VerdictsAreHeeded
<1>. QED
  BY <1>1, <1>3, <1>4, <1>5, <1>6 DEF IInv

LEMMA StutterKeeps ==
  ASSUME IInv, UNCHANGED vars
  PROVE  IInv'
<1>1. UNCHANGED <<history, noted, ckpt, pc, on, of, marks, seen, draft, reply, faithful,
                  stopped, objected, written, before, crowded, doubled>>
  BY DEF vars, memory, question, answer, verdicts, marking
<1>2. TypeOK' /\ Placed' /\ Deque'
  BY <1>1 DEF IInv, TypeOK, Placed, Owes, Deque, Located, Distinct, Behind, Full
<1>3. Runwise'
  BY <1>1 DEF IInv, Runwise, Alone, Tracks, Closed, AtWork, NodeOf
<1>4. Turnwise'
  <2>1. Stored' = Stored /\ \A u \in Thread : Full(u)' = Full(u)
    BY <1>1 DEF Stored, Full
  <2>2. Position' /\ Fresh' /\ Recorded' /\ Single'
    BY <1>1, <2>1 DEF IInv, Turnwise, Position, Fresh, Recorded, Single, Owes
  <2>3. Kept' /\ Judgeable'
    BY <1>1, <2>1
       DEF IInv, Turnwise, Kept, Judgeable, Remembered, Full, Question, Owes
  <2>. QED
    BY <2>2, <2>3 DEF Turnwise
<1>5. Verdictwise'
  BY <1>1 DEF IInv, Verdictwise, Delivered, Unobjected, VerdictsAreHeeded
<1>. QED
  BY <1>2, <1>3, <1>4, <1>5 DEF IInv

LEMMA NextIInv == IInv /\ [Next]_vars => IInv'
<1>. SUFFICES ASSUME IInv, [Next]_vars PROVE IInv'
  OBVIOUS
<1>1. ASSUME NEW c \in Call, NEW t \in Thread, NEW m \in Asked, Ask(c, t, m) PROVE IInv'
  BY <1>1, AskKeeps
<1>2. ASSUME NEW c \in Call, NEW t \in Thread, Decide(c, t) PROVE IInv'
  BY <1>2, DecideKeeps
<1>3. ASSUME NEW c \in Call, Abandon(c) \/ FormatRaises(c) \/ AddAnswer(c) PROVE IInv'
  BY <1>3, AbandonKeeps, FormatRaisesKeeps, AddAnswerKeeps
<1>4. ASSUME NEW c \in Call, GateByPattern(c) \/ Plan(c) \/ Work(c) PROVE IInv'
  BY <1>4, GateByPatternKeeps, PlanKeeps, WorkKeeps
<1>5. ASSUME NEW c \in Call, NEW v \in Verdict, GateByVerdict(c, v) PROVE IInv'
  BY <1>5, GateByVerdictKeeps
<1>6. ASSUME NEW c \in Call, NEW x \in {"draft", "empty"}, Format(c, x) PROVE IInv'
  BY <1>6, FormatKeeps
<1>7. ASSUME NEW c \in Call, Guarded(c) PROVE IInv'
  BY <1>7, GuardedKeeps
<1>8. CASE UNCHANGED vars
  BY <1>8, StutterKeeps
<1>. QED
  BY <1>1, <1>2, <1>3, <1>4, <1>5, <1>6, <1>7, <1>8 DEF Next, Step, Guarded

\* What the place of a run says of its messages and verdicts stays true.
THEOREM ConversationInvariance == Spec => []IInv
BY InitIInv, NextIInv, PTL DEF Spec

\* The state of a conversation has its types, and no deque outgrows its limit.
THEOREM TypeCorrectness == Spec => []TypeOK
BY ConversationInvariance, PTL DEF IInv

\* Whatever is paused, dropped and taken up again, the memory of a thread holds the
\* two messages of a question once, unless a decision took the question up while a run
\* of it was at work or after a dropped one had remembered it, and then once for each
\* run; and every answer behind its question, until the deque has dropped that.
THEOREM OrderedTurns == Spec => []TurnsStayInOrder
<1>1. IInv => TurnsStayInOrder
  <2>. SUFFICES ASSUME IInv, NEW t \in Thread, NEW j \in DOMAIN history[t]
                PROVE  LET m == history[t][j] IN
                       /\ \A i \in DOMAIN history[t] \ {j} :
                             history[t][i].of = m.of /\ history[t][i].role = m.role =>
                               history[t][i].run # m.run /\ m.of \in doubled
                       /\ m.role = "assistant" =>
                             \/ Len(history[t]) = MaxHistory
                             \/ \E i \in 1..(j - 1) : Answers(m, history[t][i])
    BY DEF TurnsStayInOrder
  <2>1. \A i \in DOMAIN history[t] : history[t][i] \in Stored
    BY StoredFacts DEF IInv
  <2>2. ASSUME NEW i \in DOMAIN history[t] \ {j},
               history[t][i].of = history[t][j].of, history[t][i].role = history[t][j].role
        PROVE  history[t][i].run # history[t][j].run /\ history[t][j].of \in doubled
    <3>1. history[t][i].run # history[t][j].run
      BY <2>2 DEF IInv, Deque, Distinct
    <3>. QED
      BY <2>1, <2>2, <3>1 DEF IInv, Turnwise, Single
  <2>. QED
    BY <2>2 DEF IInv, Deque, Behind, Full
<1>. QED
  BY <1>1, ConversationInvariance, PTL

\* The memory has what a call answered, unless it is full, in the text that was
\* delivered or one the judge objected to, if the call wrote it or the question
\* was not taken up twice.
THEOREM RememberedText == Spec => []RememberedAsDelivered
<1>1. IInv => RememberedAsDelivered
  <2>. SUFFICES ASSUME IInv, NEW c \in Call, pc[c] = "answered",
                       NEW h, h = history[on[c]],
                       NEW turn, turn = {j \in DOMAIN h : h[j].role = "assistant" /\ h[j].of = of[c]}
                PROVE  /\ turn # {} \/ Len(h) = MaxHistory
                       /\ \A j \in turn :
                            h[j].run = c \/ of[c] \notin doubled =>
                              reply[c] = h[j].text \/ h[j].text \in objected[c]
    BY DEF RememberedAsDelivered
  <2>1. on[c] \in Thread /\ of[c] \in Call /\ on[of[c]] = on[c]
    BY RunFacts
  <2>2. Remembered(on[c], of[c], draft[c]) /\ (reply[c] = draft[c] \/ draft[c] \in objected[c])
    BY DEF IInv, Turnwise, Judgeable, Verdictwise, Delivered
  <2>3. turn # {} \/ Len(h) = MaxHistory
    <3>1. SUFFICES ASSUME NEW m \in Stored, m.role = "assistant", m.of = of[c] PROVE turn # {}
      BY <2>2 DEF Remembered, Full
    <3>2. PICK u \in Thread : \E j \in DOMAIN history[u] : history[u][j] = m
      BY DEF Stored
    <3>3. m.run \in Call /\ of[m.run] = m.of /\ pc[m.run] # "idle" /\ on[m.run] = u
      BY <3>2, StoredFacts DEF IInv, Turnwise, Position, Wrote, Owes, Deque, Located
    <3>4. u = on[c]
      BY <2>1, <3>1, <3>3, RunFacts
    <3>. QED
      BY <3>1, <3>2, <3>4
  <2>4. ASSUME NEW j \in turn, h[j].run = c \/ of[c] \notin doubled
        PROVE  reply[c] = h[j].text \/ h[j].text \in objected[c]
    <3>1. h[j] \in Stored /\ h[j].role = "assistant" /\ h[j].of = of[c]
      BY <2>1, StoredFacts DEF IInv
    <3>2. h[j].text = draft[c]
      BY <2>2, <2>4, <3>1 DEF IInv, Turnwise, Position, Remembered
    <3>. QED
      BY <2>2, <3>2
  <2>. QED
    BY <2>3, <2>4
<1>. QED
  BY <1>1, ConversationInvariance, PTL

\* A guardrail stops a call for its text or by a verdict, and marks what it objects to.
THEOREM HeededVerdicts == Spec => []VerdictsAreHeeded
BY ConversationInvariance, PTL DEF IInv, Verdictwise
=============================================================================

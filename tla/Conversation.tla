---------------------------- MODULE Conversation ----------------------------
(***************************************************************************)
(* What surrounds the SQL of a question: the input guardrail, the planner's*)
(* look at the conversation so far, the summary, the conversation memory   *)
(* and the output guardrail (backend/agents/guardrails.py, planner.py,     *)
(* formatter.py, backend/memory, backend/providers/memory).                *)
(*                                                                         *)
(* A node is one action, except the formatter: it appends to the memory    *)
(* twice, each time under the lock, and other calls may run in between.    *)
(* A call is a run of the graph: of a question, or of what a decision finds*)
(* in the thread's checkpoint, whether that question is paused, broken off *)
(* or still running. When the client of a streamed question goes away, the *)
(* graph loop is cancelled but not the worker thread that runs the         *)
(* formatter: it still appends its turn. How the SQL is made and run is    *)
(* left to module SqlAgent: here it works, pauses, fails or raises.        *)
(*                                                                         *)
(* Left out: questions without a thread, which leave the memory alone, and *)
(* decisions on a question that is over, which run nothing.                *)
(***************************************************************************)
EXTENDS Naturals, Sequences

CONSTANTS
    Thread,        \* conversation threads
    Call,          \* questions, named after the call that asks them, and decisions
    Asked,         \* the questions: for each, which patterns its text matches
    MaxHistory,    \* InMemoryMemoryBackend.max_history: messages kept per thread
    PlannerLimit,  \* how many of them the planner reads
    Said,          \* the texts an LLM writes when asked for JSON
    InputGuard, OutputGuard, PiiBlock,   \* settings
    None

Mark == {"strong", "weak", "pii"}

(***************************************************************************)
(* A JSON value: an object that says yes, no or nothing of what is asked,  *)
(* null, or another value, which Python takes for true or for false. A     *)
(* text, by what json.loads makes of the whole, of the first fenced block  *)
(* and of what stands between the first and the last brace.                *)
(***************************************************************************)
Json == {"yes", "no", "silent", "null", "truthy", "falsy"}

Text == [whole: Json \cup {"bad"}, fence: Json \cup {"bad", "absent"},
         braces: {"yes", "no", "silent", "bad", "absent"}]

ASSUME SaidAssumption == Said \subseteq Text
ASSUME AskedAssumption == Asked \subseteq SUBSET Mark
ASSUME LimitsAssumption == /\ MaxHistory \in Nat \ {0}
                           /\ PlannerLimit \in Nat \ {0}
ASSUME FlagsAssumption == {InputGuard, OutputGuard, PiiBlock} \subseteq BOOLEAN
ASSUME NothingAssumption == None \notin Thread \cup Call

VARIABLES
    history,    \* history[t]: the deque of messages of thread t
    noted,      \* the threads with a context summary
    ckpt,       \* ckpt[t]: the checkpoint of t: next node, question, summary channel
    pc,         \* pc[c]: the node call c is about to run, or how it ended
    on,         \* on[c]: its thread
    of,         \* of[c]: the question it runs, named after the call that asked it
    marks,      \* marks[c]: the patterns the text of question c matches
    seen,       \* seen[c]: the messages the planner put into its prompt, until there is SQL
    draft,      \* draft[c]: the summary channel when the formatter is done
    reply,      \* reply[c]: and when the output guardrail is
    faithful,   \* faithful[c]: the channel of that name
    stopped,    \* stopped[c]: history, the verdict that ended the call, if one did
    objected,   \* objected[c]: history, the texts the judge objected to
    written,    \* written[t]: history, the answer with the last summary on t
    before,     \* before[c]: history, written[on[c]] when c was planned, kept as long
    crowded,    \* history, the threads on which two workers have run at once
    doubled     \* history, the questions a decision took up while a run of it was at
                \* work, or after one that was dropped had remembered it

memory == <<history, noted>>
question == <<on, of, marks>>
answer == <<reply, faithful>>
verdicts == <<stopped, objected>>
marking == <<crowded, doubled>>
vars == <<memory, ckpt, pc, question, seen, draft, answer, verdicts, written, before, marking>>

-----------------------------------------------------------------------------
(***************************************************************************)
(* What an LLM answers when asked for JSON, and what is made of it.        *)
(***************************************************************************)

\* parse_json_content: the first of the three that is JSON, else {}.
Parse(x) ==
    IF x.whole # "bad" THEN x.whole
    ELSE IF x.fence \notin {"bad", "absent"} THEN x.fence
    ELSE IF x.braces \notin {"bad", "absent"} THEN x.braces
    ELSE "silent"

\* What the judge may be taken to say. An LLM that cannot be reached counts
\* as null: _llm_verdict and _check return None for it.
Verdict == {Parse(x) : x \in Said} \cup {"null"}

\* Seeded fault: no verdict is a refusal.
BlocksOnOutage(v) == v \in {"yes", "null"}

\* verdict and verdict.get("blocked"): only an object has get.
Blocks(v) == v = "yes"
BlockRaises(v) == v = "truthy"

\* Seeded fault: a verdict that does not say "faithful" is an objection.
AcceptsOnlyYes(v) == v \in {"yes", "null"}

\* verdict is None or verdict.get("faithful", True)
Accepts(v) == v \in {"yes", "silent", "null"}
CheckRaises(v) == v \in {"truthy", "falsy"}

-----------------------------------------------------------------------------
(***************************************************************************)
(* Messages and the bounded deque.                                         *)
(***************************************************************************)
Summary == {"draft", "corrected", "empty"}

\* Which question a message belongs to, and whose formatter appended it, is history.
Message == [role: {"user", "assistant"}, of: Call, text: {"question"} \cup Summary, run: Call]

ASSUME NoMessageAssumption == None \notin Message

Question(c) == [role |-> "user", of |-> of[c], text |-> "question", run |-> c]
Answer(c, x) == [role |-> "assistant", of |-> of[c], text |-> x, run |-> c]

\* Message a answers message q.
Answers(a, q) == a.role = "assistant" /\ q.role = "user" /\ a.of = q.of /\ a.run = q.run

\* Seeded fault: the deque has no limit.
PushUnbounded(h, m) == Append(h, m)

\* deque(maxlen=max_history).append
Push(h, m) == IF Len(h) < MaxHistory THEN Append(h, m) ELSE Append(Tail(h), m)

\* Seeded fault: the first messages instead of the last.
RecentFromStart(h) == SubSeq(h, 1, IF Len(h) <= PlannerLimit THEN Len(h) ELSE PlannerLimit)

\* list(history)[-limit:]
Recent(h) == IF Len(h) <= PlannerLimit THEN h ELSE SubSeq(h, Len(h) - PlannerLimit + 1, Len(h))

-----------------------------------------------------------------------------
Init ==
    /\ history = [t \in Thread |-> <<>>]
    /\ noted = {}
    /\ ckpt = [t \in Thread |-> [next |-> "none", of |-> None, draft |-> "none"]]
    /\ pc = [c \in Call |-> "idle"]
    /\ on = [c \in Call |-> None]
    /\ of = [c \in Call |-> None]
    /\ marks = [c \in Call |-> {}]
    /\ seen = [c \in Call |-> <<>>]
    /\ draft = [c \in Call |-> "none"]
    /\ reply = [c \in Call |-> "none"]
    /\ faithful = [c \in Call |-> TRUE]
    /\ stopped = [c \in Call |-> "unasked"]
    /\ objected = [c \in Call |-> {}]
    /\ written = [t \in Thread |-> None]
    /\ before = [c \in Call |-> None]
    /\ crowded = {}
    /\ doubled = {}

\* The graph of the call is running, ...
Nodes == {"gate", "plan", "work", "format", "answer", "judge"}

\* ... or the worker its stream left behind is, before the LLM or the second append.
Strays == {"stray_format", "stray_answer"}

AtWork(c) == pc[c] \in Nodes \cup Strays

Busy(t) == \E d \in Call : on[d] = t /\ AtWork(d)

To(c, node) == pc' = [pc EXCEPT ![c] = node]

\* The checkpoint at the end of a super-step.
Save(c, node) ==
    ckpt' = [ckpt EXCEPT ![on[c]] = [next |-> node, of |-> of[c], draft |-> draft[c]]]

Advance(c, node) == To(c, node) /\ Save(c, node)
End(c, how) == To(c, how) /\ Save(c, "end")

\* A node raises, or waits for a decision: the checkpoint stays before it.
Break(c, how) == To(c, how) /\ UNCHANGED ckpt

\* A client asks a question on a thread. (An earlier summary may be left in the
\* channel: nobody reads it before this question's formatter has replaced it.)
Ask(c, t, m) ==
    /\ pc[c] = "idle"
    /\ To(c, "gate")
    /\ on' = [on EXCEPT ![c] = t]
    /\ of' = [of EXCEPT ![c] = c]
    /\ marks' = [marks EXCEPT ![c] = m]
    /\ ckpt' = [ckpt EXCEPT ![t] = [next |-> "gate", of |-> c, draft |-> "none"]]
    /\ crowded' = IF Busy(t) THEN crowded \cup {t} ELSE crowded
    /\ UNCHANGED <<memory, seen, draft, answer, verdicts, written, before, doubled>>

\* Seeded fault: the question is run again from its formatter.
FromFormatter(x) == IF x.next = "judge" THEN "format" ELSE x.next

\* Where the graph goes on from checkpoint x.
Resumed(x) == x.next

\* A decision runs the graph from the checkpoint of the thread, whatever became of
\* the run that wrote it: nobody asks whether that waits for one.
Decide(c, t) ==
    LET x == ckpt[t] IN
    /\ pc[c] = "idle"
    /\ x.next \notin {"none", "end"}
    /\ To(c, Resumed(x))
    /\ on' = [on EXCEPT ![c] = t]
    /\ of' = [of EXCEPT ![c] = x.of]
    /\ draft' = [draft EXCEPT ![c] = x.draft]
    /\ crowded' = IF Busy(t) THEN crowded \cup {t} ELSE crowded
    /\ doubled' = IF \E d \in Call : of[d] = x.of /\ (AtWork(d) \/ pc[d] = "late")
                  THEN doubled \cup {x.of} ELSE doubled
    /\ UNCHANGED <<memory, ckpt, marks, seen, answer, verdicts, written, before>>

(***************************************************************************)
(* The client of a streamed question disconnects: the checkpoint stays     *)
(* before the node at work. Of the nodes only the formatter writes outside *)
(* the graph, if it had begun: its worker thread goes on. What a decision  *)
(* resumed runs on a thread of its own and is not cancelled.               *)
(***************************************************************************)
Abandon(c) ==
    /\ of[c] = c
    /\ \E how \in CASE pc[c] = "format" -> {"stray_format", "dropped"}
                    [] pc[c] = "answer" -> {"stray_answer"}
                    [] pc[c] \in Nodes \ {"format", "answer"} -> {"dropped"}
                    [] OTHER -> {} :
         Break(c, how)
    /\ UNCHANGED <<memory, question, seen, draft, answer, verdicts, written, before, marking>>

\* InputGuardrailNode._heuristic_blocked
HeuristicBlocked(m) == "strong" \in m \/ (PiiBlock /\ "pii" \in m)

\* InputGuardrailNode.__call__, without the LLM ...
GateByPattern(c) ==
    /\ pc[c] = "gate"
    /\ LET m == marks[of[c]] IN
       \/ InputGuard /\ HeuristicBlocked(m) /\ End(c, "blocked")
       \/ (~InputGuard \/ (~HeuristicBlocked(m) /\ "weak" \notin m)) /\ Advance(c, "plan")
    /\ UNCHANGED <<memory, question, seen, draft, answer, verdicts, written, before, marking>>

\* ... and with it, for a question that looks suspicious.
GateByVerdict(c, v) ==
    /\ pc[c] = "gate"
    /\ InputGuard /\ ~HeuristicBlocked(marks[of[c]]) /\ "weak" \in marks[of[c]]
    /\ \/ BlockRaises(v) /\ Break(c, "confused")
       \/ ~BlockRaises(v) /\ Blocks(v) /\ End(c, "blocked")
       \/ ~BlockRaises(v) /\ ~Blocks(v) /\ Advance(c, "plan")
    /\ stopped' = IF BlockRaises(v) \/ Blocks(v) THEN [stopped EXCEPT ![c] = v] ELSE stopped
    /\ UNCHANGED <<memory, question, seen, draft, answer, objected, written, before, marking>>

\* PlannerNode.__call__: the prompt ends with the recent messages. Whatever
\* the LLM answers there is a plan, so only what it reads is modelled.
Plan(c) ==
    /\ pc[c] = "plan"
    /\ seen' = [seen EXCEPT ![c] = Recent(history[on[c]])]
    /\ before' = [before EXCEPT ![c] = written[on[c]]]
    /\ Advance(c, "work")
    /\ UNCHANGED <<memory, question, draft, answer, verdicts, written, marking>>

\* The SQL between planner and formatter: there are rows, it fails for good, it
\* waits for a decision, or a node raises.
Work(c) ==
    /\ pc[c] = "work"
    /\ Advance(c, "format") \/ End(c, "failed") \/ Break(c, "paused") \/ Break(c, "raised")
    /\ seen' = [seen EXCEPT ![c] = <<>>]
    /\ before' = [before EXCEPT ![c] = None]
    /\ UNCHANGED <<memory, question, draft, answer, verdicts, written, marking>>

\* FormatterNode.__call__: the LLM raises ...
FormatRaises(c) ==
    /\ \/ pc[c] = "format" /\ Break(c, "raised")
       \/ pc[c] = "stray_format" /\ Break(c, "dropped")
    /\ UNCHANGED <<memory, question, seen, draft, answer, verdicts, written, before, marking>>

\* ... or writes a summary, perhaps an empty one, and ConversationMemory.remember
\* appends the question ...
Format(c, x) ==
    /\ \/ pc[c] = "format" /\ To(c, "answer")
       \/ pc[c] = "stray_format" /\ To(c, "stray_answer")
    /\ draft' = [draft EXCEPT ![c] = x]
    /\ written' = [written EXCEPT ![on[c]] = Answer(c, x)]
    /\ history' = [history EXCEPT ![on[c]] = Push(@, Question(c))]
    /\ UNCHANGED <<noted, ckpt, question, seen, answer, verdicts, before, marking>>

\* ... and then, under the lock again, the answer. The context summary it stores
\* last is always empty and read by nobody: it is stored along with the answer.
AddAnswer(c) ==
    /\ \/ pc[c] = "answer" /\ Advance(c, "judge")
       \/ pc[c] = "stray_answer" /\ Break(c, "late")
    /\ history' = [history EXCEPT ![on[c]] = Push(@, Answer(c, draft[c]))]
    /\ noted' = noted \cup {on[c]}
    /\ UNCHANGED <<question, seen, draft, answer, verdicts, written, before, marking>>

\* The end of OutputGuardrailNode.__call__ and the nodes after it: text is in
\* the summary channel, fine in the channel faithful.
Deliver(c, text, fine) ==
    /\ reply' = [reply EXCEPT ![c] = text]
    /\ faithful' = [faithful EXCEPT ![c] = fine]
    /\ End(c, "answered")
    /\ UNCHANGED stopped

JudgeRaises(c, v) ==
    /\ Break(c, "confused")
    /\ stopped' = [stopped EXCEPT ![c] = v]
    /\ UNCHANGED answer

\* Without a judge, or without a text to judge, the summary passes.
PassUnjudged(c) ==
    /\ pc[c] = "judge"
    /\ ~OutputGuard \/ draft[c] = "empty"
    /\ Deliver(c, draft[c], TRUE)
    /\ UNCHANGED <<memory, question, seen, draft, objected, written, before, marking>>

\* The judge has no objection to the summary, or raises.
JudgeOnce(c, v) ==
    /\ pc[c] = "judge"
    /\ OutputGuard /\ draft[c] # "empty"
    /\ \/ CheckRaises(v) /\ JudgeRaises(c, v)
       \/ Accepts(v) /\ Deliver(c, draft[c], TRUE)
    /\ UNCHANGED <<memory, question, seen, draft, objected, written, before, marking>>

\* The judge objects and the LLM writes no other text.
JudgeInVain(c, v) ==
    /\ pc[c] = "judge"
    /\ OutputGuard /\ draft[c] # "empty"
    /\ ~CheckRaises(v) /\ ~Accepts(v)
    /\ objected' = IF v = "no" THEN [objected EXCEPT ![c] = {draft[c]}] ELSE objected
    /\ Deliver(c, draft[c], FALSE)
    /\ UNCHANGED <<memory, question, seen, draft, written, before, marking>>

\* The judge objects, the LLM writes another text, and w is the verdict on that.
JudgeTwice(c, v, w) ==
    /\ pc[c] = "judge"
    /\ OutputGuard /\ draft[c] # "empty"
    /\ ~CheckRaises(v) /\ ~Accepts(v)
    /\ objected' = [objected EXCEPT ![c] = (IF v = "no" THEN {draft[c]} ELSE {})
                       \cup (IF w = "no" THEN {"corrected"} ELSE {})]
    /\ \/ CheckRaises(w) /\ JudgeRaises(c, w)
       \/ ~CheckRaises(w) /\ Deliver(c, "corrected", Accepts(w))
    /\ UNCHANGED <<memory, question, seen, draft, written, before, marking>>

-----------------------------------------------------------------------------
Step(c) ==
    \/ \E t \in Thread : Decide(c, t) \/ \E m \in Asked : Ask(c, t, m)
    \/ Abandon(c)
    \/ GateByPattern(c)
    \/ \E v \in Verdict : GateByVerdict(c, v)
    \/ Plan(c) \/ Work(c)
    \/ FormatRaises(c) \/ AddAnswer(c)
    \/ \E x \in {"draft", "empty"} : Format(c, x)
    \/ PassUnjudged(c)
    \/ \E v \in Verdict : JudgeOnce(c, v) \/ JudgeInVain(c, v)
    \/ \E v, w \in Verdict : JudgeTwice(c, v, w)

Next == \E c \in Call : Step(c)

Spec == Init /\ [][Next]_vars

-----------------------------------------------------------------------------
(***************************************************************************)
(* Properties.                                                             *)
(***************************************************************************)
Draft == {"none", "draft", "empty"}

Checkpoint == [next: (Nodes \ {"answer"}) \cup {"none", "end"}, of: Call \cup {None},
               draft: Draft]

\* The state is of the declared types; no thread keeps more messages than the
\* limit of the in-memory backend.
TypeOK ==
    /\ history \in [Thread -> Seq(Message)]
    /\ \A t \in Thread : Len(history[t]) <= MaxHistory
    /\ noted \subseteq Thread
    /\ ckpt \in [Thread -> Checkpoint]
    /\ pc \in [Call -> Nodes \cup Strays \cup
                 {"idle", "answered", "blocked", "failed", "paused", "raised", "confused",
                  "dropped", "late"}]
    /\ on \in [Call -> Thread \cup {None}]
    /\ of \in [Call -> Call \cup {None}]
    /\ marks \in [Call -> SUBSET Mark]
    /\ seen \in [Call -> Seq(Message)]
    /\ draft \in [Call -> Draft]
    /\ reply \in [Call -> {"none"} \cup Summary]
    /\ faithful \in [Call -> BOOLEAN]
    /\ stopped \in [Call -> Verdict \cup {"unasked"}]
    /\ objected \in [Call -> SUBSET Summary]
    /\ written \in [Thread -> Message \cup {None}]
    /\ before \in [Call -> Message \cup {None}]
    /\ crowded \subseteq Thread
    /\ doubled \subseteq Call

\* However the runs of a thread interleave, raise, pause and are resumed, the memory
\* holds the two messages of a question once, unless a decision took it up while
\* another run of it was at work or after a dropped one had remembered it; and then
\* once for each run. An answer stands behind its own run's question unless the full
\* deque has dropped that.
TurnsStayInOrder ==
    \A t \in Thread : \A j \in DOMAIN history[t] :
        LET m == history[t][j] IN
        /\ \A i \in DOMAIN history[t] \ {j} :
              history[t][i].of = m.of /\ history[t][i].role = m.role =>
                history[t][i].run # m.run /\ m.of \in doubled
        /\ m.role = "assistant" =>
              \/ Len(history[t]) = MaxHistory
              \/ \E i \in 1..(j - 1) : Answers(m, history[t][i])

\* While no two workers have run on a thread at once (one a dropped stream left
\* behind counts), the planner reads whole turns, and the last of them is the
\* last one written on the thread, so "and by region?" meets the question it
\* refers to. (Needs limits that are even: a turn is two messages.)
FollowUpSeesTheLastTurn ==
    \A c \in Call : on[c] \notin crowded =>
        LET s == seen[c] IN
        /\ \A i \in DOMAIN s :
              IF i % 2 = 1 THEN i < Len(s) /\ Answers(s[i + 1], s[i]) ELSE s[i].role = "assistant"
        /\ IF before[c] = None THEN s = <<>> ELSE s # <<>> /\ s[Len(s)] = before[c]

\* The formatter stores a summary before the output guardrail has seen it, and a
\* decision may run the guardrail alone. Memory and client still agree: what a call
\* answers is in the memory of its thread, unless that is full; with the text the
\* client is given or one the judge objected to, if the call wrote it or the
\* question was not taken up twice.
RememberedAsDelivered ==
    \A c \in Call : pc[c] = "answered" =>
        LET h == history[on[c]]
            turn == {j \in DOMAIN h : h[j].role = "assistant" /\ h[j].of = of[c]}
        IN /\ turn # {} \/ Len(h) = MaxHistory
           /\ \A j \in turn :
                h[j].run = c \/ of[c] \notin doubled =>
                  reply[c] = h[j].text \/ h[j].text \in objected[c]

\* What the judge says is what happens, and its silence or outage costs
\* nothing: a question is refused for its text or for an explicit verdict,
\* a guardrail raises only on an answer that is JSON but no object, and a
\* summary is marked unfaithful if the judge objected to that very text, and
\* only then.
VerdictsAreHeeded ==
    \A c \in Call :
        /\ pc[c] = "blocked" => HeuristicBlocked(marks[of[c]]) \/ stopped[c] = "yes"
        /\ pc[c] = "confused" => stopped[c] \in {"truthy", "falsy"}
        /\ pc[c] = "answered" =>
              /\ reply[c] \in {draft[c], "corrected"}
              /\ faithful[c] <=> reply[c] \notin objected[c]

=============================================================================

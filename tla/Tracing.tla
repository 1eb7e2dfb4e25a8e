------------------------------ MODULE Tracing ------------------------------
(***************************************************************************)
(* What a run of the graph leaves behind and what its client is told: the  *)
(* LangFuse trace and generations (backend/core/observability.py,          *)
(* backend/providers/llms/traced.py, backend/agents/sql_agent.py), the     *)
(* event stream (backend/api.py), the Streamlit client that reads it, and  *)
(* the evaluation harness that traces and scores its cases.                *)
(*                                                                         *)
(* The current trace is a context variable. A request has a context of its *)
(* own; Main is the one context of a script, in which the generators of    *)
(* SQLAgent.stream run whenever the script takes their next item.          *)
(*                                                                         *)
(* LangFuse is best effort: each call that opens, updates, closes or scores*)
(* a trace may fail on its own, and a generation that is not recorded is   *)
(* as good as one not made.                                                *)
(* The graph is only a number of LLM calls and an end here (see SqlAgent); *)
(* its result channel is kept, because it outlives a question. Left out:   *)
(* two runs at once on one thread, and the snapshots a client is sent,     *)
(* which only change the stage it displays.                                *)
(***************************************************************************)
EXTENDS Naturals

CONSTANTS
    Run,          \* runs of the agent
    Thread,       \* conversation threads; a run without one gets a thread of its own
    MaxLlmCalls,  \* bound: LLM calls of a run
    TracerWorks,  \* what may come of a call of LangFuse; {FALSE}: tracing is off
    Main, None

ASSUME TracerAssumption == TracerWorks \in (SUBSET BOOLEAN) \ {{}}
ASSUME BoundAssumption == MaxLlmCalls \in Nat
ASSUME NamesAssumption ==
    /\ Thread \cap Run = {}
    /\ Main \notin Run
    /\ None \notin Run \cup Thread \cup {Main}

\* What AgentResult says: whose question it answers and whether its error is None.
Result == [of: Run, ok: BOOLEAN]
NoResult == [of |-> None, ok |-> FALSE]

Kind == {"invoke", "resume", "stream", "astream", "eval"}
Context == Run \cup {Main}
Trace == Run \X {"run", "eval"}
Generation == [by: Run, nth: 1..MaxLlmCalls + 1, on: Trace, late: BOOLEAN, open: BOOLEAN]

VARIABLES
    pc,          \* pc[r]: where run r stands
    kind,        \* kind[r]: the entry point that was called
    place,       \* place[r]: the context it runs in
    on,          \* on[r]: its thread
    asked,       \* asked[r]: LLM calls so far
    channel,     \* channel[t]: the result channel of thread t
    current,     \* current[p]: _current_trace in context p
    previous,    \* previous[r]: what trace_context will restore
    trace,       \* trace[x]: none, open or ended
    status,      \* status[x]: the status of its last update
    generations, \* what was recorded of the LLM calls
    last,        \* last[r]: last_result of SQLAgent.stream and astream
    held,        \* held[r]: last_result of _event_stream
    reply,       \* reply[r]: what invoke or resume returned
    wire,        \* wire[r]: the last frame, sent and not yet read
    away,        \* away[r]: the client has closed the connection
    shown,       \* shown[r]: the exchange in the client's history
    paused,      \* history: the runs that ended without a result of their own
    mixed,       \* history: contexts in which one run began while another was open
    verdict,     \* verdict[r]: what the evaluator found
    scores,      \* scores[r]: the scores attached to the case's trace
    exit         \* exit code of run_eval

run == <<pc, kind, place, on, asked, paused>>
tracing == <<current, previous, trace, status, generations, mixed>>
client == <<wire, away, shown>>
streams == <<last, held>>
cases == <<verdict, scores, exit>>
vars == <<run, channel, tracing, streams, reply, client, cases>>

-----------------------------------------------------------------------------
\* What of the calls of LangFuse in S gets through: each is guarded by itself.
Taken(S) == {{x \in S : works[x]} : works \in [S -> TracerWorks]}

Streaming(r) == kind[r] \in {"stream", "astream"}

\* A snapshot has been handed out and the consumer has not asked for the next.
Suspended == {"yielded", "last"}

Ended == {"done", "raised", "dropped"}

\* Main is one thread: at most one of its runs is not suspended.
Free(p) == \A q \in Run : place[q] = p => pc[q] \in {"new"} \cup Suspended \cup Ended

Outermost(r) == <<r, IF kind[r] = "eval" THEN "eval" ELSE "run">>

\* Seeded fault: the context is restored when the block ends without exception.
RestoredIfReturned(p, r, raising) == IF raising THEN current[p] ELSE previous[r]

\* The finally clause of trace_context; a case of the evaluator leaves both blocks.
Restored(p, r, raising) == previous[r]

Leave(r, raising) ==
    current' = IF kind[r] = "resume" THEN current
               ELSE [current EXCEPT ![place[r]] = Restored(place[r], r, raising)]

\* Seeded fault: a trace that could not be started is taken for one.
StartedAnyway(r, ok) == <<r, "run">>

\* start_trace of a run: None if LangFuse is off or raises.
Started(r, ok) == IF ok THEN <<r, "run">> ELSE None

\* start_generation on the trace of the context, if there is one.
StartGeneration(r) ==
    LET x == current[place[r]]
    IN generations' =
         IF x = None THEN generations
         ELSE generations \cup {[by |-> r, nth |-> asked[r] + 1, on |-> x,
                                 late |-> trace[x] = "ended", open |-> TRUE]}

EndGeneration(r) ==
    generations' = {IF g.by = r THEN [g EXCEPT !.open = FALSE] ELSE g : g \in generations}

\* update_trace and end_trace, on a trace that was started.
Finish(x, ok) ==
    \E taken \in Taken(IF trace[x] = "none" THEN {} ELSE {"update", "end"}) :
      /\ status' = IF "update" \in taken
                   THEN [status EXCEPT ![x] = IF ok THEN "success" ELSE "error"] ELSE status
      /\ trace' = IF "end" \in taken THEN [trace EXCEPT ![x] = "ended"] ELSE trace

\* Seeded fault: the first result of the stream is kept.
FirstResult(seen, x) == IF seen = None THEN x ELSE seen

\* if snapshot.get("result") is not None: last_result = snapshot["result"]
LastResult(seen, x) == IF x = None THEN seen ELSE x

\* Seeded fault: the result goes out with the snapshot that shows it.
EagerFrames(sent, x) == IF x = None THEN sent ELSE x

\* The frame of _event_stream for a snapshot with result x is no result.
SnapshotFrames(sent, x) == sent

-----------------------------------------------------------------------------
Init ==
    /\ pc = [r \in Run |-> "new"]
    /\ kind = [r \in Run |-> "invoke"]
    /\ place = [r \in Run |-> r]
    /\ on = [r \in Run |-> r]
    /\ asked = [r \in Run |-> 0]
    /\ channel = [t \in Thread \cup Run |-> None]
    /\ current = [p \in Context |-> None]
    /\ previous = [r \in Run |-> None]
    /\ trace = [x \in Trace |-> "none"]
    /\ status = [x \in Trace |-> "unset"]
    /\ generations = {}
    /\ last = [r \in Run |-> None]
    /\ held = [r \in Run |-> None]
    /\ reply = [r \in Run |-> None]
    /\ wire = [r \in Run |-> None]
    /\ away = [r \in Run |-> FALSE]
    /\ shown = [r \in Run |-> None]
    /\ paused = {}
    /\ mixed = {}
    /\ verdict = [r \in Run |-> None]
    /\ scores = [r \in Run |-> {}]
    /\ exit = None

\* The context an entry point is called in. A request that invokes or resumes
\* is like a script that does nothing else.
PlaceOf(r, k) == IF k = "astream" THEN r ELSE Main

\* The traces it starts; a case of the evaluator has one around the run's.
Opens(r, k) == CASE k = "resume" -> {}
                 [] k = "eval" -> {<<r, "eval">>, <<r, "run">>}
                 [] OTHER -> {<<r, "run">>}

(***************************************************************************)
(* The call starts: its trace, if it could be started, is made the current *)
(* one. A resumed run has none. A stream hands out the channels it found   *)
(* first. What a decision resumes is in SqlAgent: here it is a thread that *)
(* was asked something.                                                    *)
(***************************************************************************)
Begin(r, k, t) ==
    LET p == PlaceOf(r, k) IN
    /\ pc[r] = "new"
    /\ Free(p)
    /\ t \in Thread \cup {r}
    /\ k = "eval" => t = r /\ exit = None
    /\ k = "resume" => \E q \in Run : on[q] = t /\ pc[q] \in Ended
    /\ \A q \in Run : on[q] = t /\ q # r => pc[q] \in Ended \cup {"new"}
    /\ \E opened \in Taken(Opens(r, k)) :
         /\ trace' = [x \in Trace |-> IF x \in opened THEN "open" ELSE trace[x]]
         /\ current' = IF k = "resume" THEN current
                       ELSE [current EXCEPT ![p] = Started(r, <<r, "run">> \in opened)]
    /\ previous' = [previous EXCEPT ![r] = current[p]]
    /\ mixed' = IF \E q \in Run : place[q] = p /\ pc[q] \in Suspended
                THEN mixed \cup {p} ELSE mixed
    /\ kind' = [kind EXCEPT ![r] = k]
    /\ place' = [place EXCEPT ![r] = p]
    /\ on' = [on EXCEPT ![r] = t]
    /\ pc' = [pc EXCEPT ![r] = IF k \in {"stream", "astream"} THEN "yielded" ELSE "node"]
    /\ last' = [last EXCEPT ![r] = IF k \in {"stream", "astream"} THEN channel[t] ELSE None]
    /\ UNCHANGED <<asked, paused, channel, status, generations, held, reply, client, cases>>

\* TracedLLMProvider.complete: a generation around the provider's call.
AskLlm(r) ==
    /\ pc[r] = "node"
    /\ asked[r] < MaxLlmCalls
    /\ StartGeneration(r)
    /\ asked' = [asked EXCEPT ![r] = @ + 1]
    /\ pc' = [pc EXCEPT ![r] = "llm"]
    /\ UNCHANGED <<kind, place, on, paused, channel, current, previous, trace, status, mixed,
                   streams, reply, client, cases>>

\* The provider answers, or fails and the node makes do without: a stream hands
\* out a snapshot. (A node that calls twice is two nodes here.)
LlmAnswers(r) ==
    /\ pc[r] = "llm"
    /\ EndGeneration(r)
    /\ pc' = [pc EXCEPT ![r] = IF Streaming(r) THEN "yielded" ELSE "node"]
    /\ last' = IF Streaming(r) THEN [last EXCEPT ![r] = LastResult(@, channel[on[r]])] ELSE last
    /\ UNCHANGED <<kind, place, on, asked, paused, channel, current, previous, trace, status,
                   mixed, held, reply, client, cases>>

\* What the client of a stream is sent when the run raises.
SendError(r) ==
    wire' = IF kind[r] = "astream" /\ ~away[r]
            THEN [wire EXCEPT ![r] = NoResult] ELSE wire

\* An exception leaves the with block and the run: nobody ends the trace, and
\* nobody catches it for the evaluator.
Raise(r) ==
    /\ Leave(r, TRUE)
    /\ SendError(r)
    /\ pc' = [pc EXCEPT ![r] = "raised"]
    /\ exit' = IF kind[r] = "eval" THEN "aborted" ELSE exit
    /\ UNCHANGED <<kind, place, on, asked, paused, channel, previous, trace, status, mixed,
                   streams, reply, away, shown, verdict, scores>>

LlmRaises(r) ==
    /\ pc[r] = "llm"
    /\ EndGeneration(r)
    /\ Raise(r)

NodeRaises(r) ==
    /\ pc[r] = "node"
    /\ Raise(r)
    /\ UNCHANGED generations

\* finalize or fail writes a result, or the run stops for a decision without one.
GraphEnds(r) ==
    /\ pc[r] = "node"
    /\ \E x \in [of: {r}, ok: BOOLEAN] \cup {None} :
         LET c == IF x = None THEN channel[on[r]] ELSE x
         IN /\ channel' = [channel EXCEPT ![on[r]] = c]
            /\ paused' = IF x = None THEN paused \cup {r} ELSE paused
            /\ last' = IF Streaming(r) THEN [last EXCEPT ![r] = LastResult(@, c)] ELSE last
    /\ pc' = [pc EXCEPT ![r] = IF Streaming(r) THEN "last" ELSE "over"]
    /\ UNCHANGED <<kind, place, on, asked, tracing, held, reply, client, cases>>

Continued(r) == IF pc[r] = "last" THEN "over" ELSE "node"

\* A script takes the next item of a generator.
TakeSnapshot(r) ==
    /\ kind[r] = "stream"
    /\ pc[r] \in Suspended
    /\ Free(Main)
    /\ pc' = [pc EXCEPT ![r] = Continued(r)]
    /\ UNCHANGED <<kind, place, on, asked, paused, channel, tracing, streams, reply, client, cases>>

\* _event_stream turns the snapshot into a frame.
ForwardSnapshot(r) ==
    /\ kind[r] = "astream"
    /\ pc[r] \in Suspended
    /\ held' = [held EXCEPT ![r] = LastResult(@, channel[on[r]])]
    /\ wire' = IF away[r] THEN wire
               ELSE [wire EXCEPT ![r] = SnapshotFrames(@, channel[on[r]])]
    /\ pc' = [pc EXCEPT ![r] = Continued(r)]
    /\ UNCHANGED <<kind, place, on, asked, paused, channel, tracing, last, reply, away, shown, cases>>

\* invoke, resume: what the graph's state says.
ReturnValue(r) == IF channel[on[r]] = None THEN NoResult ELSE channel[on[r]]

\* The end of a run: the context is restored, then the trace updated and ended.
Return(r) ==
    /\ pc[r] = "over"
    /\ LET x == IF Streaming(r) THEN last[r] ELSE ReturnValue(r)
       IN /\ IF kind[r] = "resume" THEN UNCHANGED <<trace, status>>
             ELSE Finish(<<r, "run">>, x # None /\ x.ok)
          /\ reply' = IF Streaming(r) THEN reply ELSE [reply EXCEPT ![r] = x]
    /\ Leave(r, FALSE)
    /\ pc' = [pc EXCEPT ![r] = CASE kind[r] = "astream" -> "closing"
                                 [] kind[r] = "eval" -> "judge"
                                 [] OTHER -> "done"]
    /\ UNCHANGED <<kind, place, on, asked, paused, channel, previous, generations, mixed,
                   streams, client, cases>>

\* The last frame of _event_stream.
CloseStream(r) ==
    /\ pc[r] = "closing"
    /\ wire' = IF away[r] THEN wire
               ELSE [wire EXCEPT ![r] = IF held[r] = None THEN NoResult ELSE held[r]]
    /\ pc' = [pc EXCEPT ![r] = "done"]
    /\ UNCHANGED <<kind, place, on, asked, paused, channel, tracing, streams, reply, away, shown, cases>>

\* The script abandons a generator.
Abandon(r) ==
    /\ kind[r] = "stream"
    /\ pc[r] \in Suspended
    /\ Free(Main)
    /\ Leave(r, TRUE)
    /\ pc' = [pc EXCEPT ![r] = "dropped"]
    /\ UNCHANGED <<kind, place, on, asked, paused, channel, previous, trace, status, mixed,
                   generations, streams, reply, client, cases>>

\* The server notices that the client is gone and cancels the run. An LLM call
\* in progress goes on in its thread and ends its generation.
Cancel(r) ==
    /\ kind[r] = "astream"
    /\ away[r]
    /\ pc[r] \in {"node", "llm"} \cup Suspended
    /\ Leave(r, TRUE)
    /\ EndGeneration(r)
    /\ pc' = [pc EXCEPT ![r] = "dropped"]
    /\ UNCHANGED <<kind, place, on, asked, paused, channel, previous, trace, status, mixed,
                   streams, reply, client, cases>>

-----------------------------------------------------------------------------
(***************************************************************************)
(* The Streamlit client.                                                   *)
(***************************************************************************)
Waiting(r) == kind[r] = "astream" /\ pc[r] # "new" /\ ~away[r]

\* What ends the reading of a stream: stream_query returns or raises, run_query
\* appends the exchange, and the connection is closed.
Conclude(r, x) ==
    /\ Waiting(r)
    /\ shown' = [shown EXCEPT ![r] = x]
    /\ wire' = [wire EXCEPT ![r] = None]
    /\ away' = [away EXCEPT ![r] = TRUE]
    /\ UNCHANGED <<run, channel, tracing, streams, reply, cases>>

ReadFrame(r) == wire[r] # None /\ Conclude(r, wire[r])

\* The connection breaks, ends without a result, or is silent for
\* MAX_TIMEOUT_SECONDS.
CutOff(r) == Conclude(r, NoResult)

\* The page is rerun or closed: no exchange is recorded.
WalkAway(r) == Conclude(r, None)

-----------------------------------------------------------------------------
(***************************************************************************)
(* The evaluation harness. What its judges say is left out, because no     *)
(* accuracy counts it; their calls are not.                                *)
(***************************************************************************)
Verdict == [valid: BOOLEAN, sql: BOOLEAN, rows: BOOLEAN]

ASSUME NothingAssumption ==
    None \notin Result \cup {NoResult} \cup Verdict \cup {"aborted", "passed", "failed"}

\* A failed case is neither compared nor judged.
FailedCase == [valid |-> FALSE, sql |-> FALSE, rows |-> FALSE]

\* _run_case after the with block. A judge, if there is one, calls the LLM in
\* the context of the script.
Judge(r) ==
    /\ pc[r] = "judge"
    /\ \E v \in Verdict :
         /\ v.valid = reply[r].ok
         /\ ~v.valid => v = FailedCase
         /\ verdict' = [verdict EXCEPT ![r] = v]
         /\ \/ v.valid /\ StartGeneration(r)
            \/ UNCHANGED generations
    /\ pc' = [pc EXCEPT ![r] = "score"]
    /\ UNCHANGED <<kind, place, on, asked, paused, channel, current, previous, trace, status,
                   mixed, streams, reply, client, scores, exit>>

\* A judge that answers with other JSON than an object ends the suite.
JudgeRaises(r) ==
    /\ pc[r] = "judge"
    /\ reply[r].ok
    /\ pc' = [pc EXCEPT ![r] = "raised"]
    /\ exit' = "aborted"
    /\ UNCHANGED <<kind, place, on, asked, paused, channel, tracing, streams, reply, client,
                   verdict, scores>>

ScoresOf(v) ==
    {<<"sql_validity", v.valid /\ v.sql>>, <<"execution_accuracy", v.rows>>}

\* _score, one call for each, and end_trace, which leaves the status alone.
Score(r) ==
    /\ pc[r] = "score"
    /\ LET x == <<r, "eval">> IN
       \E told \in Taken(IF trace[x] = "none" THEN {} ELSE ScoresOf(verdict[r])),
          taken \in Taken(IF trace[x] = "none" THEN {} ELSE {"end"}) :
         /\ scores' = [scores EXCEPT ![r] = told]
         /\ trace' = IF taken = {} THEN trace ELSE [trace EXCEPT ![x] = "ended"]
    /\ pc' = [pc EXCEPT ![r] = "done"]
    /\ UNCHANGED <<kind, place, on, asked, paused, channel, current, previous, status,
                   generations, mixed, streams, reply, client, verdict, exit>>

Cases == {r \in Run : kind[r] = "eval" /\ verdict[r] # None}

\* Seeded fault: the accuracies leave out the failed cases.
PassesIfValid(vs) == \A v \in vs : v.valid => v.sql /\ v.rows

\* sql_accuracy and execution_accuracy are 1.0
Passes(vs) == \A v \in vs : v.valid /\ v.sql /\ v.rows

\* The suite is over: main returns 0 or 1. It has no cases: 1.
Report ==
    /\ exit = None
    /\ \A r \in Run : kind[r] = "eval" => pc[r] = "done"
    /\ exit' = IF Cases # {} /\ Passes({verdict[r] : r \in Cases}) THEN "passed" ELSE "failed"
    /\ UNCHANGED <<run, channel, tracing, streams, reply, client, verdict, scores>>

-----------------------------------------------------------------------------
BeginSome(r) == \E k \in Kind, t \in Thread \cup {r} : Begin(r, k, t)

Step(r) ==
    \/ BeginSome(r)
    \/ AskLlm(r) \/ LlmAnswers(r) \/ LlmRaises(r) \/ NodeRaises(r)
    \/ GraphEnds(r) \/ TakeSnapshot(r) \/ ForwardSnapshot(r) \/ Return(r)
    \/ CloseStream(r) \/ Abandon(r) \/ Cancel(r)
    \/ ReadFrame(r) \/ CutOff(r) \/ WalkAway(r)
    \/ Judge(r) \/ JudgeRaises(r) \/ Score(r)

Next == Report \/ \E r \in Run : Step(r)

Spec == Init /\ [][Next]_vars

-----------------------------------------------------------------------------
\* The values of the variables; a trace that is current has been started.
TypeOK ==
    /\ pc \in [Run -> {"new", "node", "llm", "over", "closing", "judge", "score"}
                      \cup Suspended \cup Ended]
    /\ kind \in [Run -> Kind]
    /\ place \in [Run -> Context]
    /\ on \in [Run -> Thread \cup Run]
    /\ asked \in [Run -> 0..MaxLlmCalls]
    /\ channel \in [Thread \cup Run -> Result \cup {None}]
    /\ current \in [Context -> {x \in Trace : trace[x] # "none"} \cup {None}]
    /\ previous \in [Run -> Trace \cup {None}]
    /\ trace \in [Trace -> {"none", "open", "ended"}]
    /\ status \in [Trace -> {"unset", "success", "error"}]
    /\ generations \subseteq Generation
    /\ last \in [Run -> Result \cup {None}]
    /\ held \in [Run -> Result \cup {None}]
    /\ reply \in [Run -> Result \cup {None, NoResult}]
    /\ wire \in [Run -> Result \cup {None, NoResult}]
    /\ away \in [Run -> BOOLEAN]
    /\ shown \in [Run -> Result \cup {None, NoResult}]
    /\ paused \subseteq Run
    /\ mixed \subseteq Context
    /\ verdict \in [Run -> Verdict \cup {None}]
    /\ scores \in [Run -> SUBSET ({"sql_validity", "execution_accuracy"} \X BOOLEAN)]
    /\ exit \in {None, "aborted", "passed", "failed"}

\* Observability: a generation is on the trace of the run whose LLM call it
\* records, and that trace had not ended, whatever raised or was dropped in the
\* same context before; unless the script took turns between its streams.
GenerationsAreOwn ==
    \A g \in generations :
      place[g.by] \notin mixed => g.on[1] = g.by /\ kind[g.by] # "resume" /\ ~g.late

\* What the caller of run r is given: a result, or the last one in the stream.
Given(r) == CASE kind[r] = "astream" -> held[r]
              [] kind[r] = "stream" -> last[r]
              [] OTHER -> reply[r]

Returned(r) == IF kind[r] = "eval" THEN reply[r] # None ELSE pc[r] \in {"closing", "done"}

\* Observability: a trace is updated and ended only for a run that returned; the
\* status that was recorded is that of the result the caller is given, and the
\* result is the run's own unless it stopped for a decision.
StatusTellsTheReply ==
    \A r \in Run :
      trace[<<r, "run">>] = "ended" \/ status[<<r, "run">>] # "unset" =>
        /\ Returned(r)
        /\ r \notin paused => Given(r).of = r
        /\ status[<<r, "run">>] # "unset" =>
             (status[<<r, "run">>] = "success" <=> Given(r) # None /\ Given(r).ok)

\* The result a client shows is its question's own unless that stopped for a
\* decision, and it shows one only when the run is over and its trace agrees.
ShownIsTheAnswer ==
    \A r \in Run : shown[r] \in Result =>
      /\ pc[r] = "done"
      /\ r \notin paused => shown[r].of = r
      /\ status[<<r, "run">>] \in {"unset", IF shown[r].ok THEN "success" ELSE "error"}

\* run_eval: exit code 0 means that every case was answered and no score of the
\* two accuracies speaks against it.
PassedMeansAnswered ==
    exit = "passed" =>
      \A r \in Cases : /\ reply[r].ok
                       /\ \A w \in {"sql_validity", "execution_accuracy"} : <<w, FALSE>> \notin scores[r]

=============================================================================

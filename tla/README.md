# A verification project for the SQL agent

TLA+ models, TLC runs and TLAPS proofs about the AI-powered SQL agent in `src/`:
a LangGraph workflow that turns a question into SQL, validates and runs it,
asks a human before expensive queries, and answers with rows and a summary.

## 1. Inventory

| Component | Code | State it keeps | Operations | What makes it correct |
|---|---|---|---|---|
| Agent workflow | `backend/agents/sql_agent.py`, `state.py` | the channels of a run; one checkpoint per thread | 11 nodes, 3 routers, invoke, stream, resume | a question is answered by its own rows; bounded retries; every run ends |
| Executor node | `backend/agents/executor.py` | none of its own; reads and fills the cache | look up, estimate, interrupt, execute, put | flagged statements run only with an approval |
| Query service, API | `backend/domain/services.py`, `backend/api.py` | none; one worker thread per request | run, resume, stream | a reply belongs to its request |
| Guardrails | `backend/agents/guardrails.py` | none | verdict on input; check, correct, re-check on output | an outage never blocks; no unchecked summary is passed off as checked |
| Planner, generator, formatter, loader | `backend/agents/*.py` | none | one LLM or store call each | update only their channels |
| SQL validator | `backend/agents/validator.py`, `database/dialects.py` | none | extract, classify, check, normalize | only one read-only statement passes |
| Result cache | `backend/cache`, `backend/providers/caches` | key to (payload, expiry) | get, set, delete | no entry is served after its TTL; equal keys, equal statements |
| Conversation memory | `backend/memory`, `backend/providers/memory` | bounded deque per thread | remember, history, clear | turns stay in order |
| Database access, cost estimate | `backend/database` | lazy engine and pool | execute, reflect, estimate | row cap and truncation flag agree |
| Schema index | `backend/vector`, `backend/providers/vector` | one collection, lazy client | index, search | pruning keeps tables of this datasource |
| Container | `backend/core/container.py` | lazy singletons, agents and dialects by datasource | get_agent, get_dialect, close | one agent per datasource |
| Telemetry, tracing | `backend/core/telemetry.py`, `observability.py`, `providers/llms/traced.py` | metrics singleton, current trace | start, update, end | a trace holds its own run's LLM calls and tells what the caller was told |
| Charts | `backend/agents/chart.py` | none | recommend | charts fit the columns |
| Agent tools | `backend/tools` | none | execute_sql, schema tool | the tool validates and caps as the workflow does |
| Prompts, config, logging, security, app | rest of `backend` | none | pure or wiring | - |
| Streamlit client | `streamlit_app.py` | chat history | stream a question | shows the answer of its question |
| Evaluation harness | `tests/eval` | none | run, judge, score | a suite that passes was answered |

Interaction: the API hands each request to a worker thread (`asyncio.to_thread`)
or, for `/query/stream`, to an async generator. The service takes the
datasource's agent from the container and runs its graph on the request's
thread id. The graph keeps its channels in an in-memory checkpointer, so a
thread's channels outlive a question; `initial_state` resets some of them and
not others. Agents of all threads share the result cache and the memory.
Nothing locks a thread: two requests may run the graph on it at once, and a
decision resumes the thread's latest checkpoint whether or not the run that
wrote it is over, so that even one question may be run twice at once. All
datasources share one vector collection, one result cache and one memory; the
current trace is a context variable, one per request but one for a whole script.

Hard behaviours: channels left over from earlier questions; the interrupt,
which ends the call and later runs the executor node again from its start;
approvals that name a thread only; overlapping calls, of different questions or
of one; nodes that raise and
dropped streams, after which a decision resumes from the checkpoint; the cache
changing between the pause and the resume. `PROJECT.json` lists each hazard at
its line.

## 2. Plan

Done:

1. `SqlAgent`: the workflow with checkpoints, cache, interrupt, API calls.
2. `ThreadPromise`: what a thread promises its clients, and `SqlAgentPromise`,
   the refinement mapping.
3. `SqlAgentProofs`: the inductive invariant of `SqlAgent`, its safety properties
   and a bound on the work of a call.
4. `SqlAgentTurnProofs`, `SqlAgentPromiseProofs`: with `Overlap = FALSE`,
   `ApprovedStatementRuns` and `Spec => KeepsPromise`.
5. `Container`: the check-then-act construction of agents, dialects, engines and
   metrics by worker threads, what becomes of paused questions, and
   `ContainerProofs`.

6. `Conversation`: both guardrails, what the planner reads, what the formatter
   stores and the bounded memory, for overlapping calls, decisions at any time
   and dropped streams;
   `ConversationProofs` and, for calls that take turns, `ConversationTurnProofs`.
7. `SqlValidator`, `SchemaIndex`, `ResultCache` and their composition
   `StatementPath`, the way from the reflected schema to rows and charts; the
   abstract cache `ForgetfulCache`, which it is shown to implement;
   `StatementPathProofs`.
8. `Tracing`: traces around invoke, resume, stream and the cases of the
   evaluator, the event stream and the client that reads it; `TracingProofs`.

Left to do: a composition of `SqlAgent` and `Conversation`, so that memory and
checkpoint of a thread are in one state.

## 3. Modules

| Module | Role |
|---|---|
| `SqlAgent.tla` | specification and properties of the workflow |
| `MCSqlAgent.tla` | instance for TLC: LLM answers, statements, validator, symmetry |
| `ThreadPromise.tla` | abstract specification of a thread |
| `SqlAgentPromise.tla`, `MCSqlAgentPromise.tla` | refinement mapping and its instance |
| `SqlAgentProofs.tla` | theorems about `SqlAgent` with or without overlap |
| `SqlAgentTurnProofs.tla` | theorem about `SqlAgent` without overlap |
| `SqlAgentPromiseProofs.tla` | proof of the refinement |
| `Container.tla` | specification and properties of the container, the metrics and the engines |
| `MCContainer.tla` | its symmetry |
| `ContainerProofs.tla` | theorems about `Container` |
| `Conversation.tla`, `MCConversation.tla` | guardrails, planner's look back, conversation memory; their instance |
| `ConversationProofs.tla` | theorems about `Conversation` |
| `ConversationTurnProofs.tla` | theorem about `Conversation` while calls take turns |
| `SqlValidator.tla` | what is decided about a statement without running it: operators |
| `SchemaIndex.tla` | schema index and vector store: operations |
| `ResultCache.tla` | result cache over its two backends: operations |
| `StatementPath.tla`, `MCStatementPath.tla` | composes the three with loader, generator, executor, database, charts and the tool |
| `ForgetfulCache.tla` | abstract specification of the cache |
| `StatementPathProofs.tla` | theorems about `StatementPath`, and the refinement |
| `Tracing.tla`, `MCTracing.tla` | traces, streams, client and evaluator; their instance |
| `TracingProofs.tla` | theorems about `Tracing` |

### SqlAgent

State and code:

- `ckpt[t]`: the latest checkpoint of thread `t`, that is the next node and the
  channel values (`AgentState`). `rows` stands for `columns`, `rows` and
  `execution_stats` and is the statement they were read with, so that rows of
  another statement can be told apart. `lastError` is the last element of
  `errors`. `generated` is a history field: the generations this copy of the
  channels knows of for its question; the code has only `attempts`, which never
  goes back.
- `call[c]`: one API call: the node it is about to run, its own channels, the
  decision it brought, what the human saw (`grant`, history), its reply.
- `cache`: the statements whose rows are cached.
- `ran[c]`: history of flagged statements the database ran for call `c`.
- `spent[q]`, `doubled`: history. The generations question `q` cost, summed over
  every call that ran it, and the questions that a decision took up while another
  call was running them.

Actions and code: `Ask` is `/query` or `/query/stream` up to the first
checkpoint, with `initial_state` merged by the reducers (`StartQuestion`).
`Decide` and `Resume` are `/query/approve` and `Command(resume=...)`.
`GuardrailsIn` to `Fail` are the nodes, each with its update, router and
checkpoint in one step; the executor node is split into `LookUp`, `Estimate`,
`RunQuery` and `PutCache` because other calls can run between them. `Raise` is
an exception in a node that does not catch, `Abandon` a dropped event stream,
`Expire` the TTL. Free choices: the guardrail's verdict, the planner's flag, the
LLM's output, whether the estimate exceeds the threshold, whether the query
fails, whether the cache stores.

LangGraph is modelled from how the code uses it: an input is merged over the
thread's checkpoint and discards a pending interrupt; a resume runs the
interrupted node again and its value lasts for that super-step; a resume at END
returns the stored channels; unknown keys of an update (`error` in the
executor's refusal) are dropped.

Left out: texts; the age of cached rows; a SELECT without a single column, which
the code takes for a failure; a restart of the process, which loses all threads
because the checkpointer is in memory; deciding on a thread that never ran,
which raises.

### ThreadPromise

A thread has a stage, at most one worker, a question, the generations spent on
it and at most one licence to run a flagged statement. `SqlAgentPromise` maps
the checkpoint to stage, question and spent, the call at work to worker, and the
approval in its first super-step to the licence.

### Container

State and code:

- `agents`, `dialects`, `memory`: `Container._agents`, `_dialects` and, for all
  four lazy attributes, `_memory`. `engine[d]` is `SqlAlchemyDialect._engine`,
  `open` the engines whose pool is open. `registered` is the Prometheus
  registry, `metrics` says whether `telemetry._metrics` is set, `gauge` and
  `counted` are two of its collectors.
- `waiting[a]`: the questions paused in the `InMemorySaver` of agent `a`, each
  on a thread of its own.
- `call[c]`: a request: where it stands, what it holds in its local variables
  (`dialect`, `memory`, `agent`), how it ended. `late` is history: whether the
  datasource had its agent, and nobody was building another, when it came.

Every object is named after the call that built it, so two that were built for
one datasource can be told apart. Each lookup, each insert and each increment
is an action: `GetAgent` to `PutAgent` are `get_agent` with `get_dialect` and a
lazy attribute inside, `CheckMetrics` to `SetMetrics` are `get_metrics`,
`Enter` and `Finish` (the `finally`) the gauge around the graph, `Count` the
counter after it, `GetEngine` and `PutEngine` the engine, `Close` the shutdown.
`BuildRaises` is a construction that fails, for want of an API key for instance:
the request ends and what was registered before stays. A run of the graph is one
step, `Invoke` or `Resume`, which pauses, answers or raises: `SqlAgent` has its
inside. `/query` and `/query/approve` run on worker threads; a stream gets its
agent on the event loop, so two streams never build at once (`Turn`).

Left out: two questions on one thread (`SqlAgent` has them), dropped streams,
labels and durations of the metrics.

### Conversation

State and code:

- `history[t]` is the deque of `InMemoryMemoryBackend`, `noted` its context
  summaries. A message is its role, its question, which of the question's texts it
  is, and the call whose formatter appended it, so that two turns can be told
  apart.
- `ckpt[t]` is the checkpoint of thread `t`: the node the graph would go on with,
  the question it belongs to, its summary channel.
- A call is a run of the graph: of the question it asks, or of what a decision
  found in the checkpoint. `pc[c]`, `on[c]`, `of[c]` are the node it is about to
  run, its thread, its question; `marks[q]` which patterns the text of question `q`
  matches (`strong`, `weak`, `pii`: what the two lists of the input guardrail and
  the PII expressions make of it).
- `seen[c]` is what the planner put into its prompt, kept until the SQL is done;
  `draft`, `reply`, `faithful` the channels around the output guardrail.
- Of a call whose stream was dropped, `pc` says what is left: nothing (`dropped`),
  a worker thread whose LLM has not answered yet (`stray_format`), one between its
  two appends (`stray_answer`), or its turn (`late`).
- `stopped`, `objected`, `written`, `before`, `crowded`, `doubled` are history. A
  thread is `crowded` when two workers have run on it at once; a question is
  `doubled` when a decision took it up while a run of it was at work or after a
  dropped one had remembered it.

A node is one action, named for its outcome: `GateByPattern` and
`GateByVerdict` are the input guardrail without and with its LLM, `PassUnjudged`,
`JudgeOnce`, `JudgeInVain` and `JudgeTwice` the four ways through the output
guardrail. The formatter is two, `Format` and `AddAnswer`, because
`ConversationMemory.remember` takes the lock twice. `Decide` is `/query/approve`:
the graph goes on at the thread's checkpoint, `remember` included, whether the
question there is paused, broken off by an exception, dropped by its client, or
still being run by another call; only a question that is over runs nothing.
`Work` is everything between planner and formatter: rows, failure, a pause or an
exception. `Abandon` drops a stream. The graph loop is cancelled, but a
synchronous node runs on a worker thread, which Python cannot stop: a formatter
that has begun goes on by itself, perhaps beside the formatter that a decision
runs again. What a decision resumed is not streamed and cannot be dropped. The
other nodes modelled here write nothing outside the graph, so their workers leave
nothing. An LLM
asked for JSON writes a text of which `Parse` makes an object that says yes, no
or nothing, another value, or nothing at all, as `parse_json_content` does; an
outage counts as `null`.

What reading this code showed, beyond the properties: `faithful` and
`guardrail_warning` never reach `AgentResult`, so a client is not told of an
objection; the memory keeps the text the judge objected to; a turn whose output
guardrail raised is remembered though never delivered; a question that is decided
on twice while it waits for approval, or once while it still runs or while the
worker of its dropped stream does, may be remembered once for each run, with
different answers; the context summary is always empty. Left out: questions without a thread, which skip the memory, and
`context`, `set_fact`, `get` and `clear`, which nobody calls.

### SqlValidator, SchemaIndex, ResultCache, StatementPath

`SqlValidator` describes a statement by what the code looks at: its first
keyword, what sqlglot makes of it, its pieces, the tables it names, the names
its `WITH` defines, whether a dangerous keyword occurs, its columns and its
canonical form. `Valid` is `validate`, `Estimates` the set of results
`estimate_rows_scanned` may have for a dialect, `Kept` and `Truncated` the row
cap, `Recommend` the chart heuristics after `_sanitize_row` (which turns
decimals into text, so they are never a measure).

`SchemaIndex` keeps whether `QdrantStore` has a client, whether the collection
exists, and its points. A search may return any points; similarity is left out.
Points of earlier processes are in `Init`, because Qdrant persists.

`ResultCache` has a clock, the entries and, as history, everything stored. A put
is two steps, the expiry and the entry. Under Redis a lookup may miss what is
there, a put may be lost, and earlier processes may have left entries
(`Inherited`: rows their statements have in their datasource, with the same time
to live).

`StatementPath` is the life of a question or of a call of the `execute_sql`
tool: `LoadSchema` (inspecting the database may raise; reflection skips the
tables that fail; then the documents are indexed), `PruneSchema`, `Generate` (with the validator), the executor node from
`LookUp` to `Set`, `Analyze`; `CallTool`. `Decide` starts the executor node over
for either decision, so a declined statement may still be served from the cache,
or run because the new estimate needs no approval. Retries and threads are in
`SqlAgent`: here only the estimate, not the plan's flag, asks for an approval.

`ForgetfulCache` promises that an asker finds only what was stored under the key
it wants, with a time to live, and only until that is over; anything may be
forgotten. The refinement mapping takes the call's key for the wish and
`served` for the find.

### Tracing

State and code:

- `current[p]` is `_current_trace` in context `p`: one per request, and `Main`
  for everything a script does; `previous[r]` is what `trace_context` restores.
- `trace`, `status`, `generations`, `scores` are what LangFuse was told. Every
  call of LangFuse may fail by itself (`Taken`, within `TracerWorks`), which the
  code swallows: a trace may be ended without a status, or one case's score be
  missing.
- `channel[t]` is the result channel of a thread, the one that outlives a
  question; `last[r]` and `held[r]` are the two variables `last_result`, of
  `SQLAgent.stream` and of `_event_stream`; `wire[r]` the frame on its way,
  `shown[r]` what the client appends to its history.
- `verdict`, `scores`, `exit` belong to the evaluator.

`Begin` to `Return` are a run seen from outside: an LLM call (`AskLlm`,
`LlmAnswers`, `LlmRaises`), an exception (`NodeRaises`), the end with or without
a result (`GraphEnds`), and for streams the snapshots a consumer takes
(`TakeSnapshot`, `ForwardSnapshot`), leaves (`Abandon`) or is cancelled at
(`Cancel`). `ReadFrame`, `CutOff` and `WalkAway` are the Streamlit client;
`Judge`, `Score` and `Report` the evaluator. Left out: two runs at once on one
thread, intermediate frames, what the judges of the evaluator say.

## 4. Runs

| Run | Instance | Checks |
|---|---|---|
| `agent_turns` | 2 threads, 3 calls, no overlap, 1 retry, an accepted and a rejected output | `TypeOK`, `RetryBudget`, `OneRunPerApproval`, `ReplyIsCoherent`, `RepliesStayOnTheirThread` |
| `agent_overlap` | 1 thread, 2 overlapping calls, 1 retry, weak fairness | `RetryBudget`, `OneRunPerApproval`, `ReplyIsCoherent`, `CallsGetOn`, `EveryCallReturns` |
| `agent_promise` | 1 thread, 3 calls, no overlap, 2 statements and a rejected output | `ApprovedStatementRuns`, `ReplyIsCoherent`, `KeepsPromise` |
| `agent_attempts` | 1 thread, 2 calls | `FullRetryBudget`, violated |
| `agent_paused` | 1 thread, 2 calls | `PausedReplyIsOwn`, violated |
| `container_threads` | 3 calls, 2 registered datasources and an unknown one | `TypeOK`, `ServesItsDatasource`, `LateQuestionsAreFound`, `SettledAgentServes`, `MetricsAgree` |
| `conversation` | 2 threads, 3 calls, 4 messages, the planner reads 2 | `TypeOK`, `TurnsStayInOrder`, `FollowUpSeesTheLastTurn`, `RememberedAsDelivered`, `VerdictsAreHeeded` |
| `tracing` | 2 runs, 1 shared thread, 2 LLM calls each | `TypeOK`, `GenerationsAreOwn`, `StatusTellsTheReply`, `ShownIsTheAnswer`, `PassedMeansAnswered` |
| `statement_path` | 2 calls, 2 datasources, 5 outputs, time to live 1, Redis with entries left in it | `TypeOK`, `SchemaIsOwn`, `StatementsKnowTheirTables`, `RowsAnswerTheStatement`, `TruncationIsTold`, `ChartsFit`, `KeepsCachePromise` |
| `container_decision` | 3 calls, 1 registered datasource | `DecisionsFindTheirQuestion`, violated |
| `container_metrics` | 2 calls | `MetricsAreSafe`, violated |
| `container_pools` | 2 calls, `/query` and `/query/stream` | `PoolsAreReleased`, violated |

What they show:

- A question costs no more than `max_sql_retries` regenerations, all calls that
  ran it taken together (`RetryBudget`): pauses, exceptions, decisions and other
  questions that overlap on its thread do not give it more. Two cases are excepted
  because the code counts in the channels: the generation in flight when a stream
  is dropped is in no checkpoint, and when a decision takes up a question that
  another call is running (`doubled`), each of the two spends what is left.
- A flagged statement runs only in a call that brought an approval and once per
  approval (`OneRunPerApproval`). That it is the statement the human saw holds
  only while clients leave the thread alone (`ApprovedStatementRuns`): with
  overlapping calls another question can replace what is pending between look
  and resume, and the API does not prevent it.
- A reply fits its question (`ReplyIsCoherent`) although rows, statements,
  errors and results of earlier questions stay in the channels.
- What a client is told was found on its own thread, by a call that ran to its
  end there (`RepliesStayOnTheirThread`).
- No step takes a call back without spending a generation (`CallsGetOn`), so every
  call returns (`EveryCallReturns`).
- The workflow disagrees with its own words twice. `attempts` adds up over the
  questions of a thread, so a later question may fail without a single retry
  (`agent_attempts`; comment at `sql_agent.py:270-271`). A paused question
  returns the earlier question's result (`agent_paused`; `sql_agent.py:302`).
- Whoever wins the races in the container, a request is served by an agent and a
  dialect of its datasource (`ServesItsDatasource`). What comes when a datasource
  has settled on an agent, and every decision on it, is served by that agent and
  no other (`SettledAgentServes`), so such a question can be decided
  (`LateQuestionsAreFound`); both need `get_agent` to look the agent up first, as
  the fault `BuildAgent` shows. The gauge and the counter agree with the runs,
  whatever raises (`MetricsAgree`).
- Three races on first use do harm. A question that pauses in an agent that is
  then replaced can never be decided (`container_decision`;
  `sql_agent.py:86-87`). The second of two first queries may fail because the
  collectors are registered already (`container_metrics`; `telemetry.py:20`).
  Shutdown leaves open the pool of a dialect or an engine that lost its place
  (`container_pools`; `container.py:240`).

- The memory of a thread stays in order whatever interleaves, pauses and is
  resumed (`TurnsStayInOrder`). A message of a question is there once, unless a
  decision took the question up while a run of it was at work, or after the worker
  of its dropped stream had stored it; then it may be there once for each run, in
  particular when two approvals of one pause are sent. While the workers on a thread take
  turns a follow-up sees the last whole turn (`FollowUpSeesTheLastTurn`; with an
  odd limit it would start with an answer without its question). The worker of a
  dropped stream counts there: a client that asks again while it is at work may
  see half a turn. What a client is told is in the memory, unless that is full:
  with the same text, or one the judge objected to (`RememberedAsDelivered`). Of a
  question that was taken up twice this holds for the turn of the run that answers,
  not for the other's.
  An outage of a judge costs nothing; JSON that is no object makes the node
  raise (`VerdictsAreHeeded`).
- Although all datasources share an index and a cache, a question is validated
  against its own tables and answered with its own rows (`SchemaIsOwn`,
  `StatementsKnowTheirTables`, `RowsAnswerTheStatement`), which may be those of
  another statement of the same canonical form; a cut result says so, cached or
  not (`TruncationIsTold`), and the cache is never stale beyond its time to live
  (`KeepsCachePromise`). Two exceptions are in the property because they are in
  the code: no table is looked up when none was reflected, or when sqlglot
  cannot parse the statement.
- A trace has the LLM calls of its own run, whatever raised, was cancelled or
  abandoned before (`GenerationsAreOwn`), except that a script which takes turns
  between two of its streams mixes them. A trace that ended says what the caller
  was told (`StatusTellsTheReply`); a trace of a run that raised or was dropped
  stays open. What a client shows is its own question's result
  (`ShownIsTheAnswer`) unless that paused: then it is an earlier one's, as in
  `agent_paused`. Exit code 0 of the evaluation means that every case was
  answered and scored well (`PassedMeansAnswered`).

Bounds: three calls are a question, a decision and a further question or
decision, the shortest history in which a leftover of one question meets the
approval of another; two calls suffice for a race on a thread. With one retry
the loop is taken, repeated and left. Two accepted outputs with different
statements let the statement change between pause and execution. `generated`
stops one above the budget; it is never bounded below the value the property
speaks about. In the container, three calls are two that race to build and a
decision or a late question. Streams take part in `container_pools` only: in the
passing run they would multiply the states and add less than `/query` does, and
the theorems hold for them. In `conversation`, three calls
are a question with two decisions at once, or two questions and a decision: each
may remember a turn, which is up to six messages for a memory of four, and
two messages are the one turn the planner reads (40 and 6 in the code: the same
parity); the second thread is there for what must not be mixed up with it. Calls and
threads are interchangeable (`MCSymmetry`), since a question is named after the
call that asks it. In `tracing` two runs are
enough to find each other's trace or result, one nested in or following the
other. In `statement_path` one tick is a time to live, 9 rows are one above one
limit and at the other, and a search returns one document of up to three; Redis
has every behaviour of the in-memory backend but its all-or-nothing close. Deadlock is not checked: the system stops when all calls are done.

Fairness: only `agent_overlap` needs any; the other modules state safety, since
their loops are none (a call only moves forward) or are closed by a client.
`EveryCallReturns` assumes weak fairness of each call's own steps.
Every call runs on its own worker thread or task, no step waits for another
call, and LLM clients have timeouts. That a database query ends is an
assumption: the `timeout` execution option the code passes is not enforced by
every driver. Clients need not act, and an expiring entry need not expire.

Each property is also run against a seeded fault, an operator beside the one it
replaces and marked so in its comment; `PROJECT.json` pairs them.

## 5. Proofs

`SqlAgentProofs` proves, for all threads, calls, outputs, statements, validators,
retry limits and settings, with or without overlap:

- `TypeCorrect`: `Spec => []TypeOK`
- `RetryBudgetHolds`: `Spec => []RetryBudget`
- `OneRunPerApprovalHolds`: `Spec => []OneRunPerApproval`
- `ReplyIsCoherentHolds`: `Spec => []ReplyIsCoherent`
- `RepliesStayOnTheirThreadHolds`: `Spec => []RepliesStayOnTheirThread`
- `CallsGetOnHolds`: `Spec => CallsGetOn`
- `FirstQuestionsAreServed`: `Spec /\ [][NewThreadsOnly]_vars =>
  [](FullRetryBudget /\ PausedReplyIsOwn)`
- `WorkIsBounded`: a call never has more than `11 * (MaxSqlRetries + 2)` steps
  before it

Assumptions: the validator is a function to statements or `None`, the limit is
a natural number, the settings are Booleans, and `None` is none of the values it
is told apart from.

None of the safety properties is inductive: that an answer's rows are
those of its statement depends on what the channels held when the executor ran,
which depends on what every earlier node found in them. The inductive invariant
`IInv` therefore says, for each node a call or a checkpoint may stand at, what
the channels may hold there (`NodeInv`): no approval and no rows before the
executor, a raw output at the validator, a statement behind it, rows that are
that statement's behind the executor, a reason at `fail`, and generations within
the budget and never above `attempts`. A second part (`ApprovalInv`) says that a
call with an unused approval has run nothing and that a flagged statement about
to run has one. Every super-step ends in `Advance`, `Return`, `Leave` or
`Break`; each has a lemma that it preserves `IInv` when the channels it hands
over fit, so the lemma of a node only shows that they do. Because this invariant
speaks of each call and each checkpoint alone, overlap costs nothing.

What a question costs in all needs `TallyInv` beside it. `spent` is the sum over
the calls, `generated` what a copy of the channels knows. A question is at home on
one thread (`AtHome`), so its copies are those of the calls that serve it and of
one checkpoint. As long as no decision takes it up while it is served, one call at
most serves it, and every copy that can still go on knows of all that was spent,
but for the generation a dropped stream had in flight (`Accounted`, `Extra`).
Other questions may overlap on the thread: they replace the checkpoint, but never
hand a run of this question more than it had left.

That replies stay on their thread needs `OriginInv` beside it: every result in a
checkpoint or in the hands of a call was returned on that thread by a call that
ran to its end (`ReturnedOn`), which stays true because a call that has returned
takes no further step. For the bound, `WorkLeft` weighs the generations a call
has left and the place of its node between two of them (`StageRank`); a step of
the graph goes down in rank or spends a generation, and a call about to resume
weighs more than any node it may find at the checkpoint, whoever left that
there. `FirstQuestionsAreServed` is the counterpart of the two runs that find a
violation: if clients ask on new threads only, decide and overlap as they may,
both claims of the code hold, so the channels of earlier questions are all there
is to blame. On such a thread `attempts` equals the question's generations and
the result channel holds its own result or none (`FirstInv`).

Two more theorems assume `Overlap = FALSE`, that is, clients that leave a thread
alone until its call has returned, and are as general otherwise:

- `ApprovedStatementRunsInTurn`: `Spec => []ApprovedStatementRuns`
  (`SqlAgentTurnProofs`)
- `PromiseKept`: `Spec => KeepsPromise` (`SqlAgentPromiseProofs`)

Their invariant `TInv` adds three parts to `IInv`. A thread has at most one call
under way (`Exclusive`); its checkpoint is the node and the channels that call
has in hand (`Synced`); an approval is for what is in hand, before the resume at
the checkpoint and after it in the channels (`GrantFits`). `Synced` is what an
overlapping call breaks, and with it the approval's fit: only a
client's `Ask` and `Decide` need the assumption. For the refinement, a
step is a step of one call on one thread, so the promise's state changes at that
thread only (`OnlyHere`), and `Exclusive` and `Synced` tell what it is there
(`AtWorkReads`, `QuietReads`). Each action is then matched: a generation to
`Generate`, within the budget by `NodeInv`; a flagged run to `RunLicensed`, with
the licence at hand by `GrantFits`; any other super-step to `Lapse`; the ends of
a call to `Reply`; a resume to `Continue`; a decision, and a move inside the
executor that does not run the statement, to a stutter.

`ContainerProofs` proves, for every finite set of requests, all datasources, both
ways to ask and every interleaving:

- `TypeCorrect`: `Spec => []TypeOK`
- `ServesItsDatasourceHolds`: `Spec => []ServesItsDatasource`
- `LateQuestionsAreFoundHolds`: `Spec => []LateQuestionsAreFound`
- `SettledAgentServesHolds`: `Spec => []SettledAgentServes`
- `MetricsAgreeHolds`: `Spec => []MetricsAgree`
- `OneAtATimeIsSafe`: `Spec /\ []OneAtATime => [](DecisionsFindTheirQuestion /\
  MetricsAreSafe /\ PoolsAreReleased)`

Its invariant has three parts beside the types. `Objects`: what a registry or a
local variable holds for a datasource was built by a call for that datasource,
and the fields of an agent are fixed once its builder has put it up (`Persist`),
so other calls may rely on them. `Late`: the datasource of a late question is
still settled, and a late question and the decision on it hold the registered
agent or none; a settled datasource stays so because only a call that is
building inserts, and none starts to build where the lookup finds an agent
(`SettledStep`). `SettledAgentServes` and `LateQuestionsAreFound` follow from it. `Stages`: only `/query` gets to the metrics,
the gauge is the size of the set of runs under way and the counter that of the
runs reported, and every step but two leaves both sets alone (`CountsStep`).
That the gauge is a natural number follows from it and from nothing less. What
the three violated runs show is what these theorems leave out: without
`late`, the decision's agent need not be the question's. `OneAtATimeIsSafe` is
their counterpart: if no two requests are ever under way at once, none of the
three claims fails. Then a call that builds an agent or a dialect still finds none
registered when it puts its own up (`Registries`), nobody has registered the
collectors between check and registration (`Collectors`), and every open pool is
the engine of a registered dialect (`Pools`), which is what shutdown disposes.

`ConversationProofs` proves, for all threads and calls, any limits, questions,
texts of the LLM and settings:

- `TypeCorrectness`: `Spec => []TypeOK`
- `OrderedTurns`: `Spec => []TurnsStayInOrder`
- `RememberedText`: `Spec => []RememberedAsDelivered`
- `HeededVerdicts`: `Spec => []VerdictsAreHeeded`

Its invariant has four parts beside the types and the places of calls and
checkpoints (`Placed`). `Deque` is about the messages alone: each is on its run's
thread, once, and an answer behind its question unless the deque is full, which it
is from the first message it drops (`PushFacts`). `Runwise` is about a question
that no decision has taken up twice: one run of it at most is at work (`Alone`),
its checkpoint is where that run is (`Tracks`), and once it is answered it is over
(`Closed`). `Turnwise` ties the two together. What a run has in the memory agrees
with how far it has come (`Position`) and its question is there when it owes the
answer (`Kept`); nothing of a question is there while a run, or the checkpoint, has
the formatter before it (`Fresh`, `Recorded`), what is there was written by one
run (`Single`), and what the judge gets is remembered, even if a decision had
another run judge it (`Judgeable`). `Verdictwise` is what the guardrails made of
their verdicts. Of a question that was taken up twice only the parts about each
run are left, which is why its messages may be there once for each run and no more
often. The actions that touch neither deque nor checkpoint of another call share
one lemma (`QuietKeeps`), and so do the ways through the output guardrail
(`GuardedKeeps`); `Ask`, `Decide`, `Format` and `AddAnswer` have one each.

`ConversationTurnProofs` adds, for limits that are even (`EvenLimits`; they are
40 and 6 in the code):

- `FollowUpsSeeTheLastTurn`: `Spec => []FollowUpSeesTheLastTurn`

On a thread whose workers have taken turns, one run at most is at work, whether it
is part of a graph or was left behind (`Solo`), so nobody else is between the two
appends. Then the deque holds whole turns and ends with the last
summary (`WholeTurns`), or is half way: it ends with a question whose answer is
due, and a full deque begins with the answer whose question it dropped
(`HalfWay`). That the append of a question, the append of an answer and the
planner's cut each respect this (`QuestionFits`, `AnswerFits`, `RecentFits`) is
where the even limits are needed. Since the last summary is recorded as the
message itself, nothing later changes what a follow-up has read.

`StatementPathProofs` proves, for all calls, datasources, tables, statements,
limits, times to live and backends:

- `TypeCorrectness`: `Spec => []TypeOK`
- `OwnSchema`: `Spec => []SchemaIsOwn`
- `KnownTables`: `Spec => []StatementsKnowTheirTables`
- `OwnRows`: `Spec => []RowsAnswerTheStatement`
- `ToldTruncation`: `Spec => []TruncationIsTold`
- `FittingCharts`: `Spec => []ChartsFit`
- `CachePromiseKept`: `Spec => KeepsCachePromise`

Its invariant adds to the properties what every entry ever stored must be: rows
of the datasource and limit in its key, read by a statement of the key's
canonical form, with a true truncation flag. A lookup then hands a call
what it needs, whoever stored it. For the refinement, an entry expires no later
than the time to live after the present, because its expiry was computed at a
time that is over; `Set` is an `Offer`, `Generate` and `CallTool` a `Want`,
`LookUp` on a hit a `Find`, `Tick` a `Pass`, everything else a stutter. The
charts need lemmas about the recommender for any columns (`RecommendFacts`):
the first column of a kind is of that kind (`MinFacts`, from the
well-foundedness of `<`), and a chart is added only for columns that are there.

`TracingProofs` proves, for all runs and threads, any number of LLM calls, and a
LangFuse that works, fails, or does either at each call:

- `TypeCorrectness`: `Spec => []TypeOK`
- `OwnGenerations`: `Spec => []GenerationsAreOwn`
- `ToldStatus`: `Spec => []StatusTellsTheReply`
- `ShownAnswers`: `Spec => []ShownIsTheAnswer`
- `PassedSuites`: `Spec => []PassedMeansAnswered`

The first needs to know that a context whose runs take turns has one run under
way and that what it restores is no trace (`Contexts`). The others follow a
result on its way out: from the channel, which is the run's own while nobody
else runs on the thread (`Threads`, `Own`), through the two variables called
`last_result`, which differ by the snapshot between them only (`Relayed`), to the
wire and the page (`Sent`), or through verdict and scores to the exit code
(`Judged`, `Concluded`). A run that has not returned has touched no trace's
status (`Unreturned`), so no status is older than the reply.

Only model-checked: `EveryCallReturns` (liveness under fairness is beyond the
prover). Its safety half, that steps cannot go on for ever, is `CallsGetOnHolds`
with `WorkIsBounded`; what is left to TLC is that a call under way can always take
a step.

## 6. Not modelled

- Prompt texts, the semantic layer, the schema tool and the text a dialect makes
  of a statement: text assembly without state.
- Logging, API keys, settings and their parsing, start-up wiring, deployment
  files, and the API's health and listing endpoints: no state of their own.
- The SDKs of LLMs, LangFuse, Qdrant, Redis and SQLAlchemy, except for what the
  code relies on (a call works, fails or is slow).
- Similarity search and the encoder: a search may find any document.
- Rendering in Streamlit, its sidebar, and the comparison of rows, the datasets
  and the reports of the evaluator.
- Operations nobody calls: `context`, `set_fact`, `get`, `clear` of the memory,
  `delete` of the cache, `reset` and `count` of the index.
- The dialect of the cache key: `normalize_sql` always parses as PostgreSQL. A
  statement of another dialect that cannot be parsed so has its white space
  collapsed instead, which the canonical form covers.

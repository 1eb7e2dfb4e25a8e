------------------------------ MODULE Container ------------------------------
(***************************************************************************)
(* The dependency container of backend/core/container.py under concurrent  *)
(* requests, and the use cases of backend/domain/services.py around it.    *)
(*                                                                         *)
(* Requests run on worker threads. The container's dictionaries and lazy   *)
(* attributes, a dialect's engine and the process-wide metrics are all     *)
(* created on first use, by a check and a later assignment that no lock    *)
(* holds together. Each read and each assignment of shared state is an     *)
(* action of its own.                                                      *)
(*                                                                         *)
(* Every object is named after the call that built it. memory stands for   *)
(* the four lazy attributes (_llm, _cache, _vector, _memory), which follow *)
(* one pattern. An agent's runs are told apart only by whether they pause: *)
(* SqlAgent has their inside. Each question has a thread of its own.       *)
(***************************************************************************)
EXTENDS Integers, FiniteSets

CONSTANTS
    Call,         \* API requests
    Datasource,   \* datasource ids that clients may send
    Configured,   \* the registered ones
    Transport,    \* how clients ask: "run" for /query, "stream" for /query/stream
    None

ASSUME CallAssumption == IsFiniteSet(Call)
ASSUME DatasourceAssumption == Configured \subseteq Datasource
ASSUME TransportAssumption == Transport \subseteq {"run", "stream"}
ASSUME NoneAssumption == None \notin Call \cup Datasource

VARIABLES
    agents,       \* Container._agents
    dialects,     \* Container._dialects
    memory,       \* Container._memory and its like
    engine,       \* engine[d]: the _engine of dialect d
    open,         \* engines whose connection pool is open
    registered,   \* whether the collectors are in the Prometheus registry
    metrics,      \* whether telemetry._metrics is set
    gauge,        \* agent_active_requests
    counted,      \* agent_queries_total, over all labels
    waiting,      \* waiting[a]: the questions paused in agent a's checkpointer
    call,         \* call[c]: the request c
    closed        \* whether the application has shut down

vars == <<agents, dialects, memory, engine, open, registered, metrics, gauge,
          counted, waiting, call, closed>>

telemetry == <<registered, metrics, gauge, counted>>

Kind == {"run", "stream", "resume"}

\* The program counters of a call that is building an agent.
Building == {"dialect", "new_dialect", "memory", "new_memory", "read_memory", "build"}

\* ... of one that runs the graph.
Serving == {"engine", "new_engine", "invoke"}

Outcome == {"none", "answered", "paused", "raised", "unknown", "unbuilt", "resumed",
            "replayed", "lost", "no_metrics"}

Pc == {"idle", "agent", "metrics", "register", "set_metrics", "inc", "finish", "count", "done"}
         \cup Building \cup Serving

Request == [pc: Pc, kind: Kind, ds: Datasource \cup {None}, of: Call \cup {None},
            dialect: Call \cup {None}, memory: Call \cup {None}, agent: Call \cup {None},
            late: BOOLEAN, outcome: Outcome]

Init ==
    /\ agents = [d \in Datasource |-> None]
    /\ dialects = [d \in Datasource |-> None]
    /\ memory = None
    /\ engine = [d \in Call |-> None]
    /\ open = {}
    /\ registered = FALSE
    /\ metrics = FALSE
    /\ gauge = 0
    /\ counted = 0
    /\ waiting = [a \in Call |-> {}]
    /\ call = [c \in Call |->
                 [pc |-> "idle", kind |-> "run", ds |-> None, of |-> None, dialect |-> None,
                  memory |-> None, agent |-> None, late |-> FALSE, outcome |-> "none"]]
    /\ closed = FALSE

-----------------------------------------------------------------------------
Goto(c, pc) == call' = [call EXCEPT ![c].pc = pc]

End(c, how) == call' = [call EXCEPT ![c].pc = "done", ![c].outcome = how]

\* Datasource d has its agent and nobody is building another.
Settled(d) ==
    /\ agents[d] # None
    /\ \A c \in Call : call[c].ds = d => call[c].pc \notin Building

\* A question, by /query or /query/stream. late is history: the container
\* had settled on d's agent when the request came.
Ask(c, d, k) ==
    /\ call[c].pc = "idle" /\ ~closed
    /\ call' = [call EXCEPT ![c].pc = "agent", ![c].kind = k, ![c].ds = d,
                            ![c].late = Settled(d)]
    /\ UNCHANGED <<agents, dialects, memory, engine, open, telemetry, waiting, closed>>

\* A decision on question q, which a client saw pause: same thread and datasource.
Approve(c, q) ==
    /\ call[c].pc = "idle" /\ ~closed
    /\ call[q].pc = "done" /\ call[q].outcome = "paused"
    /\ call' = [call EXCEPT ![c].pc = "agent", ![c].kind = "resume", ![c].ds = call[q].ds,
                            ![c].of = q]
    /\ UNCHANGED <<agents, dialects, memory, engine, open, telemetry, waiting, closed>>

\* Where a call goes once it has its agent.
Served(c) == IF call[c].kind = "run" THEN "metrics" ELSE "engine"

\* Streams get their agent on the event loop, one after the other.
Turn(c) ==
    call[c].kind = "stream" =>
      \A x \in Call : call[x].kind = "stream" => call[x].pc \notin Building

\* Seeded fault: the agent is not looked up before it is built.
BuildAgent(c) ==
    /\ call[c].pc = "agent" /\ Turn(c)
    /\ IF call[c].ds \in Configured THEN Goto(c, "dialect") ELSE End(c, "unknown")
    /\ UNCHANGED <<agents, dialects, memory, engine, open, telemetry, waiting, closed>>

\* get_agent: the registered agent, a KeyError, or the start of a new agent.
GetAgent(c) ==
    /\ call[c].pc = "agent" /\ Turn(c)
    /\ LET d == call[c].ds
       IN  \/ /\ agents[d] # None
              /\ call' = [call EXCEPT ![c].pc = Served(c), ![c].agent = agents[d]]
           \/ agents[d] = None /\ d \notin Configured /\ End(c, "unknown")
           \/ agents[d] = None /\ d \in Configured /\ Goto(c, "dialect")
    /\ UNCHANGED <<agents, dialects, memory, engine, open, telemetry, waiting, closed>>

\* get_dialect, called by get_agent.
GetDialect(c) ==
    /\ call[c].pc = "dialect"
    /\ LET d == call[c].ds
       IN  IF dialects[d] # None
           THEN call' = [call EXCEPT ![c].pc = "memory", ![c].dialect = dialects[d]]
           ELSE Goto(c, "new_dialect")
    /\ UNCHANGED <<agents, dialects, memory, engine, open, telemetry, waiting, closed>>

PutDialect(c) ==
    /\ call[c].pc = "new_dialect"
    /\ dialects' = [dialects EXCEPT ![call[c].ds] = c]
    /\ call' = [call EXCEPT ![c].pc = "memory", ![c].dialect = c]
    /\ UNCHANGED <<agents, memory, engine, open, telemetry, waiting, closed>>

\* A lazy attribute: the check, the assignment, and the read that returns it.
CheckMemory(c) ==
    /\ call[c].pc = "memory"
    /\ Goto(c, IF memory = None THEN "new_memory" ELSE "read_memory")
    /\ UNCHANGED <<agents, dialects, memory, engine, open, telemetry, waiting, closed>>

PutMemory(c) ==
    /\ call[c].pc = "new_memory"
    /\ memory' = c
    /\ Goto(c, "read_memory")
    /\ UNCHANGED <<agents, dialects, engine, open, telemetry, waiting, closed>>

ReadMemory(c) ==
    /\ call[c].pc = "read_memory"
    /\ call' = [call EXCEPT ![c].pc = "build", ![c].memory = memory]
    /\ UNCHANGED <<agents, dialects, memory, engine, open, telemetry, waiting, closed>>

\* Seeded fault: the builder registers its agent under the datasource of
\* another request.
PutAgentAnywhere(c) ==
    /\ call[c].pc = "build"
    /\ \E d \in Datasource : agents' = [agents EXCEPT ![d] = c]
    /\ call' = [call EXCEPT ![c].pc = Served(c), ![c].agent = c]
    /\ UNCHANGED <<dialects, memory, engine, open, telemetry, waiting, closed>>

\* The builder registers its agent, over any other, and serves with its own.
PutAgent(c) ==
    /\ call[c].pc = "build"
    /\ agents' = [agents EXCEPT ![call[c].ds] = c]
    /\ call' = [call EXCEPT ![c].pc = Served(c), ![c].agent = c]
    /\ UNCHANGED <<dialects, memory, engine, open, telemetry, waiting, closed>>

\* What a builder constructs may raise (no API key, no such dialect): the
\* request fails, and what was put up before stays.
BuildRaises(c) ==
    /\ call[c].pc \in {"new_dialect", "new_memory", "build"}
    /\ End(c, "unbuilt")
    /\ UNCHANGED <<agents, dialects, memory, engine, open, telemetry, waiting, closed>>

-----------------------------------------------------------------------------
\* get_metrics: the check, the registration of the collectors, which raises
\* when they are registered already, and the assignment.
CheckMetrics(c) ==
    /\ call[c].pc = "metrics"
    /\ Goto(c, IF metrics THEN "inc" ELSE "register")
    /\ UNCHANGED <<agents, dialects, memory, engine, open, telemetry, waiting, closed>>

Register(c) ==
    /\ call[c].pc = "register"
    /\ IF registered THEN End(c, "no_metrics") ELSE Goto(c, "set_metrics")
    /\ registered' = TRUE
    /\ UNCHANGED <<agents, dialects, memory, engine, open, metrics, gauge, counted, waiting,
                   closed>>

SetMetrics(c) ==
    /\ call[c].pc = "set_metrics"
    /\ metrics' = TRUE
    /\ Goto(c, "inc")
    /\ UNCHANGED <<agents, dialects, memory, engine, open, registered, gauge, counted,
                   waiting, closed>>

\* Seeded fault: the gauge goes down after a run but never up.
EnterUncounted(c) ==
    /\ call[c].pc = "inc"
    /\ Goto(c, "engine")
    /\ UNCHANGED <<agents, dialects, memory, engine, open, telemetry, waiting, closed>>

Enter(c) ==
    /\ call[c].pc = "inc"
    /\ gauge' = gauge + 1
    /\ Goto(c, "engine")
    /\ UNCHANGED <<agents, dialects, memory, engine, open, registered, metrics, counted,
                   waiting, closed>>

\* The dialect of the agent that call c uses.
DialectOf(c) == call[call[c].agent].dialect

\* A resumed graph runs nodes only if its thread is paused.
Runs(c) == call[c].kind = "resume" => call[c].of \in waiting[call[c].agent]

\* The graph of call c is through.
Return(c, how) ==
    call' = [call EXCEPT ![c].pc = IF call[c].kind = "run" THEN "finish" ELSE "done",
                         ![c].outcome = how]

\* The first node that touches the database takes the dialect's engine; a
\* question that is blocked, or raises before, touches none.
GetEngine(c) ==
    /\ call[c].pc = "engine"
    /\ \/ Goto(c, IF Runs(c) /\ engine[DialectOf(c)] = None THEN "new_engine" ELSE "invoke")
       \/ call[c].kind # "resume" /\ \E how \in {"answered", "raised"} : Return(c, how)
    /\ UNCHANGED <<agents, dialects, memory, engine, open, telemetry, waiting, closed>>

PutEngine(c) ==
    /\ call[c].pc = "new_engine"
    /\ engine' = [engine EXCEPT ![DialectOf(c)] = c]
    /\ open' = open \cup {c}
    /\ Goto(c, "invoke")
    /\ UNCHANGED <<agents, dialects, memory, telemetry, waiting, closed>>

\* A question runs: its agent's checkpointer keeps it when it pauses.
Invoke(c) ==
    /\ call[c].pc = "invoke" /\ call[c].kind # "resume"
    /\ \/ /\ Return(c, "paused")
          /\ waiting' = [waiting EXCEPT ![call[c].agent] = @ \cup {c}]
       \/ /\ \E how \in {"answered", "raised"} : Return(c, how)
          /\ UNCHANGED waiting
    /\ UNCHANGED <<agents, dialects, memory, engine, open, telemetry, closed>>

\* A decision runs: on a paused thread, which may pause or break off again;
\* on one that ended, whose result is returned; or on one that the agent has
\* never heard of, which raises.
Resume(c) ==
    /\ call[c].pc = "invoke" /\ call[c].kind = "resume"
    /\ LET a == call[c].agent
           q == call[c].of
       IN  \/ /\ q \in waiting[a]
              /\ Return(c, "resumed")
              /\ waiting' \in {waiting, [waiting EXCEPT ![a] = @ \ {q}]}
           \/ /\ q \notin waiting[a]
              /\ Return(c, IF call[q].agent = a THEN "replayed" ELSE "lost")
              /\ UNCHANGED waiting
    /\ UNCHANGED <<agents, dialects, memory, engine, open, telemetry, closed>>

\* Where a run goes when its gauge is down: one that raised is not counted.
AfterRun(c) == IF call[c].outcome = "raised" THEN "done" ELSE "count"

\* Seeded fault: a run that raises leaves the gauge up.
FinishOnSuccess(c) ==
    /\ call[c].pc = "finish"
    /\ Goto(c, AfterRun(c))
    /\ gauge' = IF call[c].outcome = "raised" THEN gauge ELSE gauge - 1
    /\ UNCHANGED <<agents, dialects, memory, engine, open, registered, metrics, counted,
                   waiting, closed>>

\* The finally clause of QueryService.run: the gauge goes down.
Finish(c) ==
    /\ call[c].pc = "finish"
    /\ Goto(c, AfterRun(c))
    /\ gauge' = gauge - 1
    /\ UNCHANGED <<agents, dialects, memory, engine, open, registered, metrics, counted,
                   waiting, closed>>

\* The rest of QueryService.run: the outcome is counted.
Count(c) ==
    /\ call[c].pc = "count"
    /\ Goto(c, "done")
    /\ counted' = counted + 1
    /\ UNCHANGED <<agents, dialects, memory, engine, open, registered, metrics, gauge,
                   waiting, closed>>

\* Shutdown, after the requests: the registered dialects dispose their engines.
\* The cache, built for the purpose if need be, is closed too and used no more.
Close ==
    /\ ~closed
    /\ \A c \in Call : call[c].pc \in {"idle", "done"}
    /\ LET D == {dialects[d] : d \in Datasource} \ {None}
       IN  /\ open' = open \ {engine[d] : d \in D}
           /\ engine' = [d \in Call |-> IF d \in D THEN None ELSE engine[d]]
    /\ closed' = TRUE
    /\ UNCHANGED <<agents, dialects, memory, telemetry, waiting, call>>

CallStep(c) ==
    \/ GetAgent(c) \/ GetDialect(c) \/ PutDialect(c)
    \/ CheckMemory(c) \/ PutMemory(c) \/ ReadMemory(c) \/ PutAgent(c) \/ BuildRaises(c)
    \/ CheckMetrics(c) \/ Register(c) \/ SetMetrics(c) \/ Enter(c)
    \/ GetEngine(c) \/ PutEngine(c) \/ Invoke(c) \/ Resume(c) \/ Finish(c)
    \/ Count(c)

Client(c) ==
    \/ \E d \in Datasource, k \in Transport : Ask(c, d, k)
    \/ \E q \in Call : Approve(c, q)

Next == (\E c \in Call : Client(c) \/ CallStep(c)) \/ Close

Spec == Init /\ [][Next]_vars

-----------------------------------------------------------------------------
(***************************************************************************)
(* Properties.                                                             *)
(***************************************************************************)
TypeOK ==
    /\ agents \in [Datasource -> Call \cup {None}]
    /\ dialects \in [Datasource -> Call \cup {None}]
    /\ memory \in Call \cup {None}
    /\ engine \in [Call -> Call \cup {None}]
    /\ open \in SUBSET Call
    /\ {registered, metrics, closed} \subseteq BOOLEAN
    /\ gauge \in Nat /\ counted \in Nat
    /\ waiting \in [Call -> SUBSET Call]
    /\ call \in [Call -> Request]

\* A request is served by an agent of its datasource, on a dialect of its
\* datasource, with a memory, whoever built them and whoever raced.
ServesItsDatasource ==
    \A c \in Call : call[c].agent # None =>
      LET a == call[c].agent
          d == call[a].dialect
      IN  /\ call[a].ds = call[c].ds
          /\ d \in Call /\ call[d].ds = call[c].ds
          /\ call[a].memory # None

\* A decision on a question that came when its datasource had its agent finds
\* the question: its pause is not in an agent that lost its place.
LateQuestionsAreFound ==
    \A c \in Call :
      call[c].outcome = "lost" => ~call[call[c].of].late

\* Call c, or the question it decides on, came when its datasource had its agent.
CameLate(c) == call[c].late \/ (call[c].kind = "resume" /\ call[call[c].of].late)

\* Nothing unseats an agent that a datasource has settled on: every request
\* that came then is served by it, and so is every decision on such a request,
\* and it is still the registered one when they are through. So one agent's
\* saver holds all of a conversation, whoever raced to build agents before.
SettledAgentServes ==
    \A c \in Call : CameLate(c) /\ call[c].agent # None => call[c].agent = agents[call[c].ds]

\* The metrics tell the truth: the gauge counts the runs under way and goes
\* back to zero, whatever raises, and every run that returned is counted once.
MetricsAgree ==
    /\ gauge = Cardinality({c \in Call : /\ call[c].kind = "run"
                                         /\ call[c].pc \in Serving \cup {"finish"}})
    /\ counted = Cardinality({c \in Call : /\ call[c].kind = "run" /\ call[c].pc = "done"
                                           /\ call[c].outcome \in {"answered", "paused"}})

\* telemetry: "Lazy singletons; safe to access after setup_telemetry()".
MetricsAreSafe == \A c \in Call : call[c].outcome # "no_metrics"

\* Container.close: "Release pooled connections and other resources."
PoolsAreReleased == closed => open = {}

\* SQLAgent: the saver is there "so that the approval interrupt works out of
\* the box": a decision on a paused question finds it.
DecisionsFindTheirQuestion == \A c \in Call : call[c].outcome # "lost"
=============================================================================

-------------------------- MODULE ContainerProofs --------------------------
(***************************************************************************)
(* Proofs about Container, for every finite set of calls, every set of     *)
(* datasources and every interleaving.                                     *)
(*                                                                         *)
(* The argument: an object's fields are fixed once its builder has put it  *)
(* up, so what the registries hold fits the datasource it is held for      *)
(* (Objects); a datasource that has settled stays settled, so a late       *)
(* question and the decision on it get the same agent (Late). While        *)
(* requests come one at a time, what a check found is still true at the    *)
(* assignment (Registries, Collectors, Pools).                             *)
(***************************************************************************)
EXTENDS Container, FiniteSetTheorems, TLAPS

Types ==
    /\ agents \in [Datasource -> Call \cup {None}]
    /\ dialects \in [Datasource -> Call \cup {None}]
    /\ memory \in Call \cup {None}
    /\ engine \in [Call -> Call \cup {None}]
    /\ open \in SUBSET Call
    /\ registered \in BOOLEAN /\ metrics \in BOOLEAN /\ closed \in BOOLEAN
    /\ waiting \in [Call -> SUBSET Call]
    /\ call \in [Call -> Request]

AfterDialect == {"memory", "new_memory", "read_memory", "build"}

\* The call is past building, and has its agent.
AfterAgent == {"metrics", "register", "set_metrics", "inc", "finish", "count"} \cup Serving

\* A dialect for datasource d, when the calls are f.
DialectFits(x, d, f) == x \in Call /\ f[x].ds = d /\ f[x].pc # "idle"

\* An agent for datasource d: its builder has put it up.
AgentFits(a, d, f) ==
    /\ a \in Call /\ f[a].ds = d /\ f[a].agent = a
    /\ DialectFits(f[a].dialect, d, f)
    /\ f[a].memory # None

CallFits(c) ==
    /\ call[c].pc = "idle" => ~call[c].late /\ call[c].outcome = "none"
    /\ call[c].pc # "idle" => call[c].ds \in Datasource
    /\ call[c].pc \in Building \cup {"idle", "agent"} => call[c].agent = None
    /\ call[c].pc \in AfterDialect => DialectFits(call[c].dialect, call[c].ds, call)
    /\ call[c].pc = "read_memory" => memory # None
    /\ call[c].pc = "build" => call[c].memory # None
    /\ call[c].pc \in AfterAgent => call[c].agent # None
    /\ call[c].agent # None => AgentFits(call[c].agent, call[c].ds, call)

Objects ==
    /\ \A d \in Datasource : agents[d] # None => AgentFits(agents[d], d, call)
    /\ \A d \in Datasource : dialects[d] # None => DialectFits(dialects[d], d, call)
    /\ \A c \in Call : CallFits(c)
-----------------------------------------------------------------------------
LEMMA PcValues ==
  /\ {"idle", "agent", "metrics", "register", "set_metrics", "inc", "finish", "count", "done"}
       \subseteq Pc
  /\ {"dialect", "new_dialect", "memory", "new_memory", "read_memory", "build"} \subseteq Pc
  /\ {"engine", "new_engine", "invoke"} \subseteq Pc
  BY DEF Pc, Building, Serving

LEMMA TypesInit == Init => Types
<1> SUFFICES ASSUME Init PROVE Types
  OBVIOUS
<1>1. [pc |-> "idle", kind |-> "run", ds |-> None, of |-> None, dialect |-> None,
       memory |-> None, agent |-> None, late |-> FALSE, outcome |-> "none"] \in Request
  BY PcValues DEF Request, Kind, Outcome
<1>2. call \in [Call -> Request]
  BY <1>1 DEF Init
<1>. QED
  BY <1>2 DEF Init, Types

LEMMA ReturnTypes ==
  ASSUME Types, NEW c \in Call, NEW how \in Outcome, Return(c, how)
  PROVE  call' \in [Call -> Request]
<1> DEFINE p == IF call[c].kind = "run" THEN "finish" ELSE "done"
<1>1. p \in Pc
  BY PcValues
<1>2. [call[c] EXCEPT !.pc = p, !.outcome = how] \in Request
  BY <1>1 DEF Types, Request
<1>3. call' = [call EXCEPT ![c] = [call[c] EXCEPT !.pc = p, !.outcome = how]]
  BY DEF Return
<1>. QED
  BY <1>2, <1>3 DEF Types

LEMMA TypesNext == Types /\ [Next]_vars => Types'
<1> SUFFICES ASSUME Types, [Next]_vars PROVE Types'
  OBVIOUS
<1> USE PcValues DEF Types, telemetry
<1>1. ASSUME NEW c \in Call, NEW d \in Datasource, NEW k \in Transport, Ask(c, d, k)
      PROVE  Types'
  <2>1. Settled(d) \in BOOLEAN /\ k \in Kind
    BY TransportAssumption DEF Settled, Kind
  <2>2. [call[c] EXCEPT !.pc = "agent", !.kind = k, !.ds = d, !.late = Settled(d)] \in Request
    BY <2>1 DEF Request
  <2>3. call' = [call EXCEPT ![c] = [call[c] EXCEPT !.pc = "agent", !.kind = k, !.ds = d,
                                                    !.late = Settled(d)]]
    BY <1>1 DEF Ask
  <2>4. call' \in [Call -> Request]
    BY <2>2, <2>3
  <2>. QED
    BY <1>1, <2>4 DEF Ask
<1>2. ASSUME NEW c \in Call, NEW q \in Call, Approve(c, q) PROVE Types'
  <2>1. [call[c] EXCEPT !.pc = "agent", !.kind = "resume", !.ds = call[q].ds, !.of = q]
          \in Request
    <3>1. call[c] \in Request /\ call[q].ds \in Datasource \cup {None} /\ "resume" \in Kind
      BY DEF Request, Kind
    <3>. QED
      BY <3>1 DEF Request
  <2>2. call' = [call EXCEPT ![c] = [call[c] EXCEPT !.pc = "agent", !.kind = "resume",
                                                    !.ds = call[q].ds, !.of = q]]
    BY <1>2 DEF Approve
  <2>3. call' \in [Call -> Request]
    BY <2>1, <2>2
  <2>. QED
    BY <1>2, <2>3 DEF Approve
<1>3. ASSUME NEW c \in Call, GetAgent(c) PROVE Types'
  BY <1>3 DEF GetAgent, Served, End, Goto, Request, Outcome
<1>4. ASSUME NEW c \in Call, GetDialect(c) \/ PutDialect(c) PROVE Types'
  BY <1>4 DEF GetDialect, PutDialect, Goto, Request
<1>5. ASSUME NEW c \in Call, CheckMemory(c) \/ PutMemory(c) \/ ReadMemory(c) PROVE Types'
  BY <1>5 DEF CheckMemory, PutMemory, ReadMemory, Goto, Request
<1>6. ASSUME NEW c \in Call, PutAgent(c) PROVE Types'
  <2>1. Served(c) \in Pc
    BY DEF Served
  <2>2. [call[c] EXCEPT !.pc = Served(c), !.agent = c] \in Request
    BY <2>1 DEF Request
  <2>3. call' \in [Call -> Request]
    BY <1>6, <2>2 DEF PutAgent
  <2>4. agents' \in [Datasource -> Call \cup {None}]
    BY <1>6 DEF PutAgent
  <2>. QED
    BY <1>6, <2>3, <2>4 DEF PutAgent
<1>7. ASSUME NEW c \in Call, CheckMetrics(c) PROVE Types'
  BY <1>7 DEF CheckMetrics, Goto, Request
<1>8. ASSUME NEW c \in Call, Register(c) PROVE Types'
  BY <1>8 DEF Register, Goto, End, Request, Outcome
<1>9. ASSUME NEW c \in Call, SetMetrics(c) \/ Enter(c) PROVE Types'
  <2>1. CASE SetMetrics(c)
    BY <2>1 DEF SetMetrics, Goto, Request
  <2>2. CASE Enter(c)
    BY <2>2 DEF Enter, Goto, Request
  <2>. QED
    BY <1>9, <2>1, <2>2
<1>10. ASSUME NEW c \in Call, GetEngine(c) \/ PutEngine(c) PROVE Types'
  <2>1. CASE GetEngine(c)
    <3>1. \/ \E pc \in Pc : Goto(c, pc)
          \/ \E how \in Outcome : Return(c, how)
      BY <2>1 DEF GetEngine, Outcome, Pc, Serving
    <3>2. call' \in [Call -> Request]
      BY <3>1, ReturnTypes DEF Goto, Request
    <3>. QED
      BY <2>1, <3>2 DEF GetEngine
  <2>2. CASE PutEngine(c)
    <3>1. call' \in [Call -> Request]
      BY <2>2 DEF PutEngine, Goto, Request, Pc, Serving
    <3>. QED
      BY <2>2, <3>1 DEF PutEngine
  <2>. QED
    BY <1>10, <2>1, <2>2
<1>11. ASSUME NEW c \in Call, Invoke(c) PROVE Types'
  <2>1. \E how \in {"paused", "answered", "raised"} : Return(c, how)
    BY <1>11 DEF Invoke
  <2>2. call' \in [Call -> Request]
    BY <2>1, ReturnTypes DEF Outcome
  <2>3. waiting' \in [Call -> SUBSET Call]
    BY <1>11 DEF Invoke
  <2>. QED
    BY <1>11, <2>2, <2>3 DEF Invoke
<1>12. ASSUME NEW c \in Call, Resume(c) PROVE Types'
  <2>1. call' \in [Call -> Request]
    <3>1. \E how \in {"resumed", "replayed", "lost"} : Return(c, how)
      BY <1>12 DEF Resume
    <3>. QED
      BY <3>1, ReturnTypes DEF Outcome
  <2>2. waiting' \in [Call -> SUBSET Call]
    BY <1>12 DEF Resume
  <2>. QED
    BY <1>12, <2>1, <2>2 DEF Resume
<1>13. ASSUME NEW c \in Call, Finish(c) PROVE Types'
  <2>1. AfterRun(c) \in Pc
    BY DEF AfterRun
  <2>. QED
    BY <1>13, <2>1 DEF Finish, Goto, Request
<1>16. ASSUME NEW c \in Call, Count(c) PROVE Types'
  BY <1>16 DEF Count, Goto, Request
<1>17. ASSUME NEW c \in Call, BuildRaises(c) PROVE Types'
  <2>1. [call[c] EXCEPT !.pc = "done", !.outcome = "unbuilt"] \in Request
    <3>1. "unbuilt" \in Outcome
      BY DEF Outcome
    <3>. QED
      BY <3>1 DEF Request
  <2>2. call' = [call EXCEPT ![c] = [call[c] EXCEPT !.pc = "done", !.outcome = "unbuilt"]]
    BY <1>17 DEF BuildRaises, End
  <2>3. call' \in [Call -> Request]
    BY <2>1, <2>2
  <2>. QED
    BY <1>17, <2>3 DEF BuildRaises
<1>14. CASE Close
  BY <1>14 DEF Close
<1>15. CASE UNCHANGED vars
  BY <1>15 DEF vars
<1>. QED
  BY <1>1, <1>2, <1>3, <1>4, <1>5, <1>6, <1>7, <1>8, <1>9, <1>10, <1>11, <1>12, <1>13,
     <1>14, <1>15, <1>16, <1>17
     DEF Next, CallStep, Client

-----------------------------------------------------------------------------
(***************************************************************************)
(* A step changes one call, in a few of its fields.                        *)
(***************************************************************************)

\* What other calls may rely on.
Persist ==
    /\ memory # None => memory' # None
    /\ \A x \in Call : call[x].pc # "idle" => call'[x].pc # "idle" /\ call'[x].ds = call[x].ds
    /\ \A x \in Call : call[x].agent = x => /\ call'[x].agent = x
                                            /\ call'[x].dialect = call[x].dialect
                                            /\ call'[x].memory = call[x].memory

LEMMA FitsPersist ==
  ASSUME Persist, NEW x, NEW d
  PROVE  /\ DialectFits(x, d, call) => DialectFits(x, d, call')
         /\ AgentFits(x, d, call) /\ call[x].pc # "idle" => AgentFits(x, d, call')
  BY DEF Persist, DialectFits, AgentFits

\* The fields of a call a step leaves alone.
SameFields(c) ==
    /\ call'[c].kind = call[c].kind /\ call'[c].ds = call[c].ds /\ call'[c].of = call[c].of
    /\ call'[c].late = call[c].late

SameObjects(c) ==
    /\ call'[c].dialect = call[c].dialect /\ call'[c].memory = call[c].memory
    /\ call'[c].agent = call[c].agent

OthersSame(c) == \A x \in Call \ {c} : call'[x] = call[x]

LEMMA GotoFields ==
  ASSUME Types, NEW c \in Call, NEW p, Goto(c, p)
  PROVE  /\ OthersSame(c) /\ SameFields(c) /\ SameObjects(c)
         /\ call'[c].pc = p /\ call'[c].outcome = call[c].outcome
  BY DEF Types, Request, Goto, OthersSame, SameFields, SameObjects

LEMMA EndFields ==
  ASSUME Types, NEW c \in Call, NEW how, End(c, how)
  PROVE  /\ OthersSame(c) /\ SameFields(c) /\ SameObjects(c)
         /\ call'[c].pc = "done" /\ call'[c].outcome = how
  BY DEF Types, Request, End, OthersSame, SameFields, SameObjects

LEMMA ReturnFields ==
  ASSUME Types, NEW c \in Call, NEW how, Return(c, how)
  PROVE  /\ OthersSame(c) /\ SameFields(c) /\ SameObjects(c)
         /\ call'[c].pc = IF call[c].kind = "run" THEN "finish" ELSE "done"
         /\ call'[c].outcome = how
<1> DEFINE p == IF call[c].kind = "run" THEN "finish" ELSE "done"
<1>1. call' = [call EXCEPT ![c].pc = p, ![c].outcome = how]
  BY DEF Return
<1>. QED
  BY <1>1 DEF Types, Request, OthersSame, SameFields, SameObjects

\* How far a step takes a call: forward, through the stages of its work.
AskFields(c) ==
    /\ call[c].pc = "idle" /\ call'[c].pc = "agent"
    /\ call'[c].ds \in Datasource
    /\ call'[c].outcome = call[c].outcome /\ SameObjects(c)
    /\ UNCHANGED <<agents, dialects, memory>>
    /\ \/ call'[c].kind # "resume" /\ (call'[c].late => Settled(call'[c].ds))
       \/ /\ call'[c].kind = "resume" /\ call'[c].late = call[c].late
          /\ call'[c].of \in Call /\ call[call'[c].of].ds = call'[c].ds
          /\ call[call'[c].of].pc = "done" /\ call[call'[c].of].outcome = "paused"

LEMMA AskStep ==
  ASSUME Types, NEW c \in Call, NEW d \in Datasource, NEW k \in Transport, Ask(c, d, k)
  PROVE  OthersSame(c) /\ AskFields(c)
<1>1. call' = [call EXCEPT ![c] = [call[c] EXCEPT !.pc = "agent", !.kind = k, !.ds = d,
                                                  !.late = Settled(d)]]
  BY DEF Ask
<1>2. k # "resume"
  BY TransportAssumption
<1>3. /\ OthersSame(c) /\ SameObjects(c)
      /\ call'[c].pc = "agent" /\ call'[c].kind = k /\ call'[c].ds = d
      /\ call'[c].late = Settled(d) /\ call'[c].outcome = call[c].outcome
  BY <1>1 DEF Types, Request, OthersSame, SameObjects
<1>. QED
  BY <1>2, <1>3 DEF Ask, AskFields

LEMMA ApproveStep ==
  ASSUME Types, Objects, NEW c \in Call, NEW q \in Call, Approve(c, q)
  PROVE  OthersSame(c) /\ AskFields(c)
<1>1. call' = [call EXCEPT ![c] = [call[c] EXCEPT !.pc = "agent", !.kind = "resume",
                                                  !.ds = call[q].ds, !.of = q]]
  BY DEF Approve
<1>2. call[q].ds \in Datasource
  BY DEF Approve, Objects, CallFits
<1>. QED
  BY <1>1, <1>2 DEF Types, Request, Approve, OthersSame, AskFields, SameObjects

\* A step of a call that has its agent.
ServeFields(c) ==
    /\ call[c].pc \in AfterAgent /\ call'[c].pc \in AfterAgent \cup {"done"}
    /\ SameFields(c) /\ SameObjects(c)
    /\ UNCHANGED <<agents, dialects, memory>>
    /\ call'[c].outcome = "lost" =>
         \/ call[c].outcome = "lost"
         \/ call[c].kind = "resume" /\ call[call[c].of].agent # call[c].agent

ServeActions(c) ==
    \/ CheckMetrics(c) \/ Register(c) \/ SetMetrics(c) \/ Enter(c)
    \/ GetEngine(c) \/ PutEngine(c) \/ Invoke(c) \/ Resume(c) \/ Finish(c) \/ Count(c)

LEMMA ServeStep ==
  ASSUME Types, NEW c \in Call, ServeActions(c)
  PROVE  OthersSame(c) /\ ServeFields(c)
<1>1. AfterAgent = {"metrics", "register", "set_metrics", "inc", "finish", "count", "engine",
                    "new_engine", "invoke"}
  BY DEF AfterAgent, Serving
<1>2. CASE CheckMetrics(c) \/ SetMetrics(c) \/ Enter(c) \/ PutEngine(c) \/ Finish(c) \/ Count(c)
  BY <1>1, <1>2, GotoFields
     DEF CheckMetrics, SetMetrics, Enter, PutEngine, Finish, AfterRun, Count, ServeFields
<1>3. CASE Register(c)
  BY <1>1, <1>3, GotoFields, EndFields DEF Register, ServeFields
<1>4. CASE GetEngine(c)
  BY <1>1, <1>4, GotoFields, ReturnFields DEF GetEngine, ServeFields
<1>5. CASE Invoke(c)
  BY <1>1, <1>5, ReturnFields DEF Invoke, ServeFields
<1>6. CASE Resume(c)
  BY <1>1, <1>6, ReturnFields DEF Resume, ServeFields
<1>. QED
  BY <1>2, <1>3, <1>4, <1>5, <1>6 DEF ServeActions

\* get_agent finds an agent, raises KeyError, or starts to build.
GetAgentFields(c) ==
    /\ call[c].pc = "agent" /\ SameFields(c)
    /\ UNCHANGED <<agents, dialects, memory>>
    /\ \/ /\ agents[call[c].ds] # None
          /\ call'[c].pc \in {"metrics", "engine"} /\ call'[c].agent = agents[call[c].ds]
          /\ call'[c].dialect = call[c].dialect /\ call'[c].memory = call[c].memory
          /\ call'[c].outcome = call[c].outcome
       \/ agents[call[c].ds] = None /\ call'[c].pc = "done" /\ call'[c].outcome = "unknown"
            /\ SameObjects(c)
       \/ agents[call[c].ds] = None /\ call'[c].pc = "dialect"
            /\ call'[c].outcome = call[c].outcome /\ SameObjects(c)

LEMMA GetAgentStep ==
  ASSUME Types, NEW c \in Call, GetAgent(c)
  PROVE  OthersSame(c) /\ GetAgentFields(c)
<1>1. /\ call[c].pc = "agent" /\ UNCHANGED <<agents, dialects, memory>>
      /\ \/ /\ agents[call[c].ds] # None
            /\ call' = [call EXCEPT ![c].pc = Served(c), ![c].agent = agents[call[c].ds]]
         \/ agents[call[c].ds] = None /\ End(c, "unknown")
         \/ agents[call[c].ds] = None /\ Goto(c, "dialect")
  BY DEF GetAgent
<1>2. CASE /\ agents[call[c].ds] # None
           /\ call' = [call EXCEPT ![c].pc = Served(c), ![c].agent = agents[call[c].ds]]
  <2>1. Served(c) \in {"metrics", "engine"}
    BY DEF Served
  <2>2. call' = [call EXCEPT ![c] = [call[c] EXCEPT !.pc = Served(c),
                                                    !.agent = agents[call[c].ds]]]
    BY <1>2
  <2>. QED
    BY <1>1, <1>2, <2>1, <2>2 DEF Types, Request, OthersSame, SameFields, GetAgentFields
<1>3. CASE agents[call[c].ds] = None /\ End(c, "unknown")
  BY <1>1, <1>3, EndFields DEF GetAgentFields
<1>4. CASE agents[call[c].ds] = None /\ Goto(c, "dialect")
  BY <1>1, <1>4, GotoFields DEF GetAgentFields
<1>. QED
  BY <1>1, <1>2, <1>3, <1>4

\* The steps that build an agent.
BuildFields(c) ==
    /\ SameFields(c) /\ call'[c].outcome = call[c].outcome
    /\ \/ /\ call[c].pc = "dialect" /\ call'[c].pc = "new_dialect" /\ SameObjects(c)
          /\ dialects[call[c].ds] = None
          /\ UNCHANGED <<agents, dialects, memory>>
       \/ /\ call[c].pc = "dialect" /\ call'[c].pc = "memory"
          /\ call'[c].dialect = dialects[call[c].ds] /\ dialects[call[c].ds] # None
          /\ call'[c].memory = call[c].memory /\ call'[c].agent = call[c].agent
          /\ UNCHANGED <<agents, dialects, memory>>
       \/ /\ call[c].pc = "new_dialect" /\ call'[c].pc = "memory"
          /\ call'[c].dialect = c
          /\ call'[c].memory = call[c].memory /\ call'[c].agent = call[c].agent
          /\ dialects' = [dialects EXCEPT ![call[c].ds] = c]
          /\ UNCHANGED <<agents, memory>>
       \/ /\ call[c].pc = "memory" /\ SameObjects(c)
          /\ \/ memory = None /\ call'[c].pc = "new_memory"
             \/ memory # None /\ call'[c].pc = "read_memory"
          /\ UNCHANGED <<agents, dialects, memory>>
       \/ /\ call[c].pc = "new_memory" /\ call'[c].pc = "read_memory" /\ SameObjects(c)
          /\ memory' = c
          /\ UNCHANGED <<agents, dialects>>
       \/ /\ call[c].pc = "read_memory" /\ call'[c].pc = "build"
          /\ call'[c].memory = memory
          /\ call'[c].dialect = call[c].dialect /\ call'[c].agent = call[c].agent
          /\ UNCHANGED <<agents, dialects, memory>>

BuildActions(c) ==
    GetDialect(c) \/ PutDialect(c) \/ CheckMemory(c) \/ PutMemory(c) \/ ReadMemory(c)

LEMMA BuildStep ==
  ASSUME Types, NEW c \in Call, BuildActions(c)
  PROVE  OthersSame(c) /\ BuildFields(c)
<1>1. CASE GetDialect(c)
  <2>1. CASE Goto(c, "new_dialect") /\ dialects[call[c].ds] = None
    BY <1>1, <2>1, GotoFields DEF GetDialect, BuildFields
  <2>2. CASE /\ dialects[call[c].ds] # None
             /\ call' = [call EXCEPT ![c].pc = "memory", ![c].dialect = dialects[call[c].ds]]
    <3>1. call' = [call EXCEPT ![c] = [call[c] EXCEPT !.pc = "memory",
                                                      !.dialect = dialects[call[c].ds]]]
      BY <2>2
    <3>2. /\ OthersSame(c) /\ SameFields(c) /\ call'[c].outcome = call[c].outcome
          /\ call'[c].pc = "memory" /\ call'[c].dialect = dialects[call[c].ds]
          /\ call'[c].memory = call[c].memory /\ call'[c].agent = call[c].agent
      BY <3>1 DEF Types, Request, OthersSame, SameFields
    <3>. QED
      BY <1>1, <2>2, <3>2 DEF GetDialect, BuildFields
  <2>. QED
    BY <1>1, <2>1, <2>2 DEF GetDialect
<1>2. CASE PutDialect(c)
  <2>1. call' = [call EXCEPT ![c] = [call[c] EXCEPT !.pc = "memory", !.dialect = c]]
    BY <1>2 DEF PutDialect
  <2>2. /\ OthersSame(c) /\ SameFields(c) /\ call'[c].outcome = call[c].outcome
        /\ call'[c].pc = "memory" /\ call'[c].dialect = c
        /\ call'[c].memory = call[c].memory /\ call'[c].agent = call[c].agent
    BY <2>1 DEF Types, Request, OthersSame, SameFields
  <2>. QED
    BY <1>2, <2>2 DEF PutDialect, BuildFields
<1>3. CASE CheckMemory(c) \/ PutMemory(c)
  BY <1>3, GotoFields DEF CheckMemory, PutMemory, BuildFields
<1>4. CASE ReadMemory(c)
  <2>1. call' = [call EXCEPT ![c] = [call[c] EXCEPT !.pc = "build", !.memory = memory]]
    BY <1>4 DEF ReadMemory
  <2>2. /\ OthersSame(c) /\ SameFields(c) /\ call'[c].outcome = call[c].outcome
        /\ call'[c].pc = "build" /\ call'[c].memory = memory
        /\ call'[c].dialect = call[c].dialect /\ call'[c].agent = call[c].agent
    BY <2>1 DEF Types, Request, OthersSame, SameFields
  <2>. QED
    BY <1>4, <2>2 DEF ReadMemory, BuildFields
<1>. QED
  BY <1>1, <1>2, <1>3, <1>4 DEF BuildActions

PutAgentFields(c) ==
    /\ call[c].pc = "build" /\ SameFields(c) /\ call'[c].outcome = call[c].outcome
    /\ call'[c].pc \in {"metrics", "engine"} /\ call'[c].agent = c
    /\ call'[c].dialect = call[c].dialect /\ call'[c].memory = call[c].memory
    /\ agents' = [agents EXCEPT ![call[c].ds] = c]
    /\ UNCHANGED <<dialects, memory>>

LEMMA PutAgentStep ==
  ASSUME Types, NEW c \in Call, PutAgent(c)
  PROVE  OthersSame(c) /\ PutAgentFields(c)
<1>1. Served(c) \in {"metrics", "engine"}
  BY DEF Served
<1>2. call' = [call EXCEPT ![c] = [call[c] EXCEPT !.pc = Served(c), !.agent = c]]
  BY DEF PutAgent
<1>3. /\ OthersSame(c) /\ SameFields(c) /\ call'[c].outcome = call[c].outcome
      /\ call'[c].pc = Served(c) /\ call'[c].agent = c
      /\ call'[c].dialect = call[c].dialect /\ call'[c].memory = call[c].memory
  BY <1>2 DEF Types, Request, OthersSame, SameFields
<1>. QED
  BY <1>1, <1>3 DEF PutAgent, PutAgentFields

\* Building raises: the call ends without an agent.
FailFields(c) ==
    /\ call[c].pc \in Building /\ call'[c].pc = "done" /\ call'[c].outcome = "unbuilt"
    /\ SameFields(c) /\ SameObjects(c)
    /\ UNCHANGED <<agents, dialects, memory>>

LEMMA FailStep ==
  ASSUME Types, NEW c \in Call, BuildRaises(c)
  PROVE  OthersSame(c) /\ FailFields(c)
  BY EndFields DEF BuildRaises, FailFields, Building

LEMMA NextStep ==
  ASSUME Types, Objects, [Next]_vars
  PROVE  \/ UNCHANGED <<agents, dialects, memory, call>>
         \/ \E c \in Call :
              /\ OthersSame(c)
              /\ \/ AskFields(c) \/ GetAgentFields(c) \/ BuildFields(c)
                 \/ PutAgentFields(c) \/ FailFields(c) \/ ServeFields(c)
<1>1. CASE Close \/ UNCHANGED vars
  BY <1>1 DEF Close, vars
<1>2. ASSUME NEW c \in Call, Client(c)
      PROVE  OthersSame(c) /\ AskFields(c)
  BY <1>2, AskStep, ApproveStep DEF Client
<1>3. ASSUME NEW c \in Call, CallStep(c)
      PROVE  /\ OthersSame(c)
             /\ \/ GetAgentFields(c) \/ BuildFields(c)
                \/ PutAgentFields(c) \/ FailFields(c) \/ ServeFields(c)
  BY <1>3, GetAgentStep, BuildStep, PutAgentStep, FailStep, ServeStep
     DEF CallStep, BuildActions, ServeActions
<1>. QED
  BY <1>1, <1>2, <1>3 DEF Next

-----------------------------------------------------------------------------
(***************************************************************************)
(* What the registries hold fits what it is held for.                      *)
(***************************************************************************)
LEMMA ObjectsFrom ==
  ASSUME Types, Objects, NEW c \in Call, OthersSame(c), Persist, CallFits(c)',
         \A d \in Datasource : agents'[d] \in {agents[d], None} \/ AgentFits(agents'[d], d, call'),
         \A d \in Datasource :
           dialects'[d] \in {dialects[d], None} \/ DialectFits(dialects'[d], d, call')
  PROVE  Objects'
<1>1. ASSUME NEW a, NEW d, AgentFits(a, d, call) PROVE AgentFits(a, d, call')
  <2>1. a \in Call /\ call[a].agent = a /\ a # None
    BY <1>1, NoneAssumption DEF AgentFits
  <2>2. call[a].pc # "idle"
    BY <2>1 DEF Objects, CallFits
  <2>. QED
    BY <1>1, <2>2, FitsPersist
<1>2. \A x, d : DialectFits(x, d, call) => DialectFits(x, d, call')
  BY FitsPersist
<1>3. \A d \in Datasource : agents'[d] # None => AgentFits(agents'[d], d, call')
  BY <1>1 DEF Objects
<1>4. \A d \in Datasource : dialects'[d] # None => DialectFits(dialects'[d], d, call')
  BY <1>2 DEF Objects
<1>5. ASSUME NEW x \in Call PROVE CallFits(x)'
  <2>1. CASE x = c
    BY <2>1
  <2>2. CASE x # c
    <3>1. call'[x] = call[x] /\ CallFits(x)
      BY <2>2 DEF OthersSame, Objects
    <3>2. memory # None => memory' # None
      BY DEF Persist
    <3>3. call[x].agent # None => AgentFits(call[x].agent, call[x].ds, call')
      BY <1>1, <3>1 DEF CallFits
    <3>4. call[x].pc \in AfterDialect => DialectFits(call[x].dialect, call[x].ds, call')
      BY <1>2, <3>1 DEF CallFits
    <3>. QED
      BY <3>1, <3>2, <3>3, <3>4 DEF CallFits
  <2>. QED
    BY <2>1, <2>2
<1>. QED
  BY <1>3, <1>4, <1>5 DEF Objects

LEMMA ObjectsInit == Init => Objects
<1> SUFFICES ASSUME Init PROVE Objects
  OBVIOUS
<1>1. ASSUME NEW c \in Call PROVE CallFits(c)
  BY <1>1 DEF Init, CallFits, Building, AfterDialect, AfterAgent, Serving
<1>. QED
  BY <1>1 DEF Init, Objects

LEMMA ObjectsNext == Types /\ Objects /\ [Next]_vars => Objects'
<1> SUFFICES ASSUME Types, Objects, [Next]_vars PROVE Objects'
  OBVIOUS
<1>1. CASE UNCHANGED <<agents, dialects, memory, call>>
  BY <1>1 DEF Objects, CallFits, AgentFits, DialectFits
<1>2. ASSUME NEW c \in Call, OthersSame(c), AskFields(c) PROVE Objects'
  <2>1. CallFits(c)
    BY DEF Objects
  <2>2. Persist
    BY <1>2, <2>1, NoneAssumption DEF Persist, AskFields, OthersSame, SameObjects, CallFits
  <2>3. CallFits(c)'
    BY <1>2, <2>1 DEF AskFields, SameObjects, CallFits, Building, AfterDialect, AfterAgent,
       Serving
  <2>. QED
    BY <1>2, <2>2, <2>3, ObjectsFrom DEF AskFields
<1>3. ASSUME NEW c \in Call, OthersSame(c), GetAgentFields(c) PROVE Objects'
  <2>1. CallFits(c) /\ call[c].agent = None /\ call[c].ds \in Datasource
    BY <1>3 DEF Objects, CallFits, GetAgentFields
  <2>2. Persist
    BY <1>3, <2>1, NoneAssumption DEF Persist, GetAgentFields, OthersSame, SameFields
  <2>3. CallFits(c)'
    <3>1. CASE call'[c].agent = None
      BY <1>3, <2>1, <3>1 DEF GetAgentFields, SameFields, SameObjects, CallFits, Building,
         AfterDialect, AfterAgent, Serving
    <3>2. CASE call'[c].agent # None
      <4>1. /\ agents[call[c].ds] # None /\ call'[c].agent = agents[call[c].ds]
            /\ call'[c].pc \in {"metrics", "engine"} /\ call'[c].ds = call[c].ds
        BY <1>3, <2>1, <3>2 DEF GetAgentFields, SameFields, SameObjects
      <4>2. AgentFits(call'[c].agent, call[c].ds, call)
        BY <2>1, <4>1 DEF Objects
      <4>3. AgentFits(call'[c].agent, call[c].ds, call')
        <5>1. call[call'[c].agent].pc # "idle"
          BY <4>2, NoneAssumption DEF AgentFits, Objects, CallFits
        <5>. QED
          BY <2>2, <4>2, <5>1 DEF Persist, AgentFits, DialectFits
      <4>. QED
        BY <2>1, <4>1, <4>3, <3>2 DEF CallFits, Building, AfterDialect, AfterAgent, Serving
    <3>. QED
      BY <3>1, <3>2
  <2>. QED
    BY <1>3, <2>2, <2>3, ObjectsFrom DEF GetAgentFields
<1>4. ASSUME NEW c \in Call, OthersSame(c), BuildFields(c) PROVE Objects'
  <2>1. CallFits(c) /\ call[c].ds \in Datasource /\ call'[c].ds = call[c].ds
    BY <1>4 DEF Objects, CallFits, BuildFields, SameFields
  <2>2. call[c].pc \in Building /\ call'[c].pc \in Building
    BY <1>4 DEF BuildFields, Building
  <2>3. call[c].agent = None /\ call'[c].agent = None
    BY <1>4, <2>1, <2>2 DEF CallFits, BuildFields, SameObjects
  <2>4. Persist
    <3>1. memory # None => memory' # None
      BY <1>4, NoneAssumption DEF BuildFields
    <3>2. call'[c].pc # "idle"
      BY <2>2 DEF Building
    <3>. QED
      BY <1>4, <2>1, <2>3, <3>1, <3>2, NoneAssumption DEF Persist, OthersSame
  <2>5. \A x, d : DialectFits(x, d, call) => DialectFits(x, d, call')
    BY <2>4, FitsPersist
  <2>6. call'[c].pc # "idle"
    BY <2>2 DEF Building
  <2>7. /\ agents' = agents
        /\ dialects' = dialects \/ dialects' = [dialects EXCEPT ![call[c].ds] = c]
    BY <1>4 DEF BuildFields
  <2>8. DialectFits(c, call[c].ds, call')
    BY <2>1, <2>6 DEF DialectFits
  <2>9. call'[c].pc \in AfterDialect => DialectFits(call'[c].dialect, call[c].ds, call')
    <3>1. CASE call'[c].dialect = call[c].dialect /\ call[c].pc \in AfterDialect
      BY <2>1, <2>5, <3>1 DEF CallFits
    <3>2. CASE call'[c].dialect = dialects[call[c].ds] /\ dialects[call[c].ds] # None
      BY <2>1, <2>5, <3>2 DEF Objects
    <3>3. CASE call'[c].dialect = c
      BY <2>8, <3>3
    <3>. QED
      BY <1>4, <3>1, <3>2, <3>3 DEF BuildFields, AfterDialect, SameObjects
  <2>10. /\ call'[c].pc = "read_memory" => memory' # None
         /\ call'[c].pc = "build" => call'[c].memory # None
    <3>1. call[c].pc = "read_memory" => memory # None
      BY <2>1 DEF CallFits
    <3>. QED
      BY <1>4, <3>1, NoneAssumption DEF BuildFields
  <2>11. CallFits(c)'
    <3>1. call'[c].pc \notin AfterAgent
      BY <2>2 DEF Building, AfterAgent, Serving
    <3>. QED
      BY <2>1, <2>3, <2>6, <2>9, <2>10, <3>1 DEF CallFits
  <2>12. \A d \in Datasource :
           dialects'[d] \in {dialects[d], None} \/ DialectFits(dialects'[d], d, call')
    BY <2>7, <2>8 DEF Types
  <2>. QED
    BY <1>4, <2>4, <2>7, <2>11, <2>12, ObjectsFrom
<1>5. ASSUME NEW c \in Call, OthersSame(c), PutAgentFields(c) PROVE Objects'
  <2>1. CallFits(c) /\ call[c].ds \in Datasource /\ call'[c].ds = call[c].ds
    BY <1>5 DEF Objects, CallFits, PutAgentFields, SameFields
  <2>2. /\ call[c].agent = None /\ call[c].memory # None
        /\ DialectFits(call[c].dialect, call[c].ds, call)
    BY <1>5, <2>1 DEF CallFits, PutAgentFields, Building, AfterDialect
  <2>3. Persist
    BY <1>5, <2>1, <2>2, NoneAssumption DEF Persist, OthersSame, PutAgentFields
  <2>4. AgentFits(c, call[c].ds, call')
    <3>1. DialectFits(call[c].dialect, call[c].ds, call')
      BY <2>2, <2>3, FitsPersist
    <3>. QED
      BY <1>5, <2>1, <2>2, <3>1 DEF AgentFits, PutAgentFields
  <2>5. CallFits(c)'
    BY <1>5, <2>1, <2>4, NoneAssumption DEF PutAgentFields, CallFits, Building, AfterDialect,
       AfterAgent, Serving
  <2>6. \A d \in Datasource : agents'[d] \in {agents[d], None} \/ AgentFits(agents'[d], d, call')
    BY <1>5, <2>4 DEF PutAgentFields, Types
  <2>. QED
    BY <1>5, <2>3, <2>5, <2>6, ObjectsFrom DEF PutAgentFields
<1>6. ASSUME NEW c \in Call, OthersSame(c), ServeFields(c) PROVE Objects'
  <2>1. /\ CallFits(c) /\ call[c].ds \in Datasource /\ call'[c].ds = call[c].ds
        /\ call[c].agent # None /\ call'[c].pc # "idle" /\ call[c].pc # "idle"
    BY <1>6 DEF Objects, CallFits, ServeFields, SameFields, AfterAgent, Serving
  <2>2. Persist
    BY <1>6, <2>1, NoneAssumption DEF Persist, OthersSame, ServeFields, SameObjects
  <2>3. AgentFits(call'[c].agent, call'[c].ds, call')
    <3>1. AgentFits(call[c].agent, call[c].ds, call)
      BY <2>1 DEF CallFits
    <3>2. call[call[c].agent].pc # "idle"
      BY <3>1, NoneAssumption DEF AgentFits, Objects, CallFits
    <3>3. AgentFits(call[c].agent, call[c].ds, call')
      BY <2>2, <3>1, <3>2 DEF Persist, AgentFits, DialectFits
    <3>. QED
      BY <1>6, <2>1, <3>3 DEF ServeFields, SameObjects
  <2>4. CallFits(c)'
    BY <1>6, <2>1, <2>3 DEF ServeFields, SameObjects, CallFits, Building, AfterDialect,
       AfterAgent, Serving
  <2>. QED
    BY <1>6, <2>2, <2>4, ObjectsFrom DEF ServeFields
<1>7. ASSUME NEW c \in Call, OthersSame(c), FailFields(c) PROVE Objects'
  <2>1. CallFits(c) /\ call[c].agent = None /\ call[c].ds \in Datasource /\ call[c].pc # "idle"
    BY <1>7 DEF Objects, CallFits, FailFields, Building
  <2>2. Persist
    BY <1>7, <2>1, NoneAssumption
       DEF Persist, OthersSame, FailFields, SameObjects, SameFields
  <2>3. CallFits(c)'
    BY <1>7, <2>1 DEF FailFields, SameObjects, SameFields, CallFits, Building, AfterDialect,
       AfterAgent, Serving
  <2>. QED
    BY <1>7, <2>2, <2>3, ObjectsFrom DEF FailFields
<1>. QED
  BY <1>1, <1>2, <1>3, <1>4, <1>5, <1>6, <1>7, NextStep

-----------------------------------------------------------------------------
(***************************************************************************)
(* A datasource that has settled keeps its agent, and a late question and  *)
(* the decision on it get that one.                                        *)
(***************************************************************************)
WorkFields(c) ==
    \/ GetAgentFields(c) \/ BuildFields(c) \/ PutAgentFields(c) \/ FailFields(c)
    \/ ServeFields(c)

LEMMA WorkStep ==
  ASSUME Types, Objects, NEW c \in Call, WorkFields(c)
  PROVE  /\ call[c].pc \notin {"idle", "done"} /\ SameFields(c)
         /\ Settled(call[c].ds) => call'[c].agent \in {call[c].agent, agents[call[c].ds]}
         /\ call'[c].outcome = "paused" => call[c].outcome = "paused" \/ call'[c].agent # None
         /\ call[c].agent # None => call'[c].agent # None
         /\ call'[c].outcome = "lost" =>
              \/ call[c].outcome = "lost"
              \/ call[c].kind = "resume" /\ call[call[c].of].agent # call[c].agent
<1>1. CASE GetAgentFields(c)
  BY <1>1 DEF GetAgentFields, SameObjects
<1>2. CASE BuildFields(c)
  BY <1>2 DEF BuildFields, SameObjects
<1>3. CASE PutAgentFields(c)
  BY <1>3, NoneAssumption DEF PutAgentFields, Settled, Building
<1>4. CASE ServeFields(c)
  BY <1>4 DEF ServeFields, SameObjects, AfterAgent, Serving, Objects, CallFits
<1>5. CASE FailFields(c)
  BY <1>5 DEF FailFields, SameObjects, Building
<1>. QED
  BY <1>1, <1>2, <1>3, <1>4, <1>5 DEF WorkFields

\* A datasource that has settled stays so, with its agent.
LEMMA SettledStep ==
  ASSUME Types, Objects, [Next]_vars, NEW d \in Datasource, Settled(d)
  PROVE  Settled(d)' /\ agents'[d] = agents[d]
<1>1. CASE UNCHANGED <<agents, dialects, memory, call>>
  BY <1>1 DEF Settled
<1>2. ASSUME NEW c \in Call, OthersSame(c), AskFields(c)
      PROVE  Settled(d)' /\ agents'[d] = agents[d]
  BY <1>2 DEF Settled, AskFields, OthersSame, Building
<1>3. ASSUME NEW c \in Call, OthersSame(c), WorkFields(c)
      PROVE  Settled(d)' /\ agents'[d] = agents[d]
  <2>1. CASE GetAgentFields(c)
    BY <1>3, <2>1 DEF Settled, GetAgentFields, OthersSame, SameFields, Building
  <2>2. CASE BuildFields(c)
    <3>1. call[c].pc \in Building /\ call'[c].ds = call[c].ds /\ agents' = agents
      BY <2>2 DEF BuildFields, Building, SameFields
    <3>. QED
      BY <1>3, <3>1 DEF Settled, OthersSame
  <2>3. CASE PutAgentFields(c)
    <3>1. /\ call[c].pc \in Building /\ call'[c].ds = call[c].ds
          /\ agents' = [agents EXCEPT ![call[c].ds] = c]
      BY <2>3 DEF PutAgentFields, Building, SameFields
    <3>. QED
      BY <1>3, <3>1 DEF Settled, OthersSame, Types
  <2>4. CASE ServeFields(c)
    <3>1. call'[c].pc \notin Building /\ agents' = agents
      BY <2>4 DEF ServeFields, AfterAgent, Serving, Building
    <3>. QED
      BY <1>3, <3>1 DEF Settled, OthersSame
  <2>5. CASE FailFields(c)
    <3>1. call'[c].pc \notin Building /\ agents' = agents
      BY <2>5 DEF FailFields, Building
    <3>. QED
      BY <1>3, <3>1 DEF Settled, OthersSame
  <2>. QED
    BY <1>3, <2>1, <2>2, <2>3, <2>4, <2>5 DEF WorkFields
<1>. QED
  BY <1>1, <1>2, <1>3, NextStep DEF WorkFields

LateFits(c) ==
    /\ call[c].late => /\ Settled(call[c].ds)
                       /\ call[c].agent \in {None, agents[call[c].ds]}
    /\ call[c].outcome = "paused" => call[c].agent # None
    /\ call[c].kind = "resume" =>
         /\ call[c].of \in Call /\ call[call[c].of].pc = "done"
         /\ call[call[c].of].outcome = "paused" /\ call[call[c].of].ds = call[c].ds
         /\ call[call[c].of].late => call[c].agent \in {None, agents[call[c].ds]}
    /\ call[c].outcome = "lost" => call[c].kind = "resume" /\ ~call[call[c].of].late

Late == \A c \in Call : LateFits(c)

LEMMA LateInit == Init => Late
  BY DEF Init, Late, LateFits

LEMMA LateNext == Types /\ Objects /\ Late /\ [Next]_vars => Late'
<1> SUFFICES ASSUME Types, Objects, Late, [Next]_vars, NEW x \in Call PROVE LateFits(x)'
  BY DEF Late
<1>0. /\ LateFits(x)
      /\ \A d \in Datasource : Settled(d) => Settled(d)' /\ agents'[d] = agents[d]
  BY SettledStep DEF Late
<1>1. ASSUME NEW q \in Call, call[q].late
      PROVE  /\ Settled(call[q].ds) /\ agents'[call[q].ds] = agents[call[q].ds]
             /\ call'[q].ds = call[q].ds => Settled(call[q].ds)'
  <2>1. PICK d \in Datasource : call[q].ds = d /\ Settled(d)
    BY <1>1 DEF Late, LateFits, Objects, CallFits
  <2>2. Settled(d)' /\ agents'[d] = agents[d]
    BY <1>0, <2>1
  <2>. QED
    BY <2>1, <2>2 DEF Settled
<1>2. CASE UNCHANGED <<agents, dialects, memory, call>>
  BY <1>0, <1>2 DEF LateFits, Settled
<1>3. ASSUME NEW c \in Call, OthersSame(c), AskFields(c) \/ WorkFields(c), x # c
      PROVE  LateFits(x)'
  <2>1. call'[x] = call[x]
    BY <1>3 DEF OthersSame
  <2>2. call[c].pc # "done"
    BY <1>3, WorkStep DEF AskFields
  <2>3. \A q \in Call : call[q].pc = "done" => call'[q] = call[q]
    BY <1>3, <2>2 DEF OthersSame
  <2>4. call[x].late => /\ Settled(call[x].ds)'
                        /\ agents'[call[x].ds] = agents[call[x].ds]
    BY <1>1, <2>1
  <2>5. ASSUME call[x].kind = "resume"
        PROVE  /\ call'[call[x].of] = call[call[x].of]
               /\ call[call[x].of].late => agents'[call[x].ds] = agents[call[x].ds]
    <3>1. /\ call[x].of \in Call /\ call[call[x].of].pc = "done"
          /\ call[call[x].of].ds = call[x].ds
      BY <1>0, <2>5 DEF LateFits
    <3>. QED
      BY <1>1, <2>3, <3>1
  <2>. QED
    BY <1>0, <2>1, <2>4, <2>5 DEF LateFits
<1>4. ASSUME OthersSame(x), AskFields(x) PROVE LateFits(x)'
  <2>1. call[x].agent = None /\ call[x].outcome = "none" /\ ~call[x].late
    BY <1>4 DEF Objects, CallFits, AskFields
  <2>2. \A q \in Call : call[q].pc = "done" => call'[q] = call[q]
    BY <1>4 DEF OthersSame, AskFields
  <2>. QED
    BY <1>0, <1>4, <2>1, <2>2 DEF LateFits, AskFields, SameObjects
<1>5. ASSUME OthersSame(x), WorkFields(x) PROVE LateFits(x)'
  <2>1. /\ call[x].pc \notin {"idle", "done"} /\ SameFields(x)
        /\ Settled(call[x].ds) => call'[x].agent \in {call[x].agent, agents[call[x].ds]}
        /\ call'[x].outcome = "paused" => call[x].outcome = "paused" \/ call'[x].agent # None
        /\ call[x].agent # None => call'[x].agent # None
        /\ call'[x].outcome = "lost" =>
             \/ call[x].outcome = "lost"
             \/ call[x].kind = "resume" /\ call[call[x].of].agent # call[x].agent
    BY <1>5, WorkStep
  <2>2. call[x].ds \in Datasource
    BY <2>1 DEF Objects, CallFits
  <2>3. \A q \in Call : call[q].pc = "done" => call'[q] = call[q]
    BY <1>5, <2>1 DEF OthersSame
  <2>4. call'[x].late => /\ Settled(call[x].ds)'
                        /\ call'[x].agent \in {None, agents'[call'[x].ds]}
    BY <1>0, <1>1, <2>1 DEF LateFits, SameFields
  <2>5. call'[x].outcome = "paused" => call'[x].agent # None
    BY <1>0, <2>1 DEF LateFits
  <2>6. ASSUME call[x].kind = "resume"
        PROVE  /\ call[x].of \in Call /\ call'[call[x].of] = call[call[x].of]
               /\ call[call[x].of].late =>
                    /\ Settled(call[x].ds) /\ agents'[call[x].ds] = agents[call[x].ds]
                    /\ call'[x].agent \in {None, agents[call[x].ds]}
    <3>1. /\ call[x].of \in Call /\ call[call[x].of].pc = "done"
          /\ call[call[x].of].ds = call[x].ds
          /\ call[call[x].of].late => call[x].agent \in {None, agents[call[x].ds]}
      BY <1>0, <2>6 DEF LateFits
    <3>2. call[call[x].of].late => Settled(call[x].ds)
      BY <3>1 DEF Late, LateFits
    <3>. QED
      BY <1>0, <2>1, <2>2, <2>3, <3>1, <3>2
  <2>7. call'[x].kind = "resume" =>
          /\ call'[x].of \in Call /\ call'[call'[x].of].pc = "done"
          /\ call'[call'[x].of].outcome = "paused" /\ call'[call'[x].of].ds = call'[x].ds
          /\ call'[call'[x].of].late => call'[x].agent \in {None, agents'[call'[x].ds]}
    BY <1>0, <2>1, <2>6 DEF LateFits, SameFields
  <2>8. call'[x].outcome = "lost" => call'[x].kind = "resume" /\ ~call'[call'[x].of].late
    <3>1. CASE call[x].outcome = "lost"
      BY <1>0, <2>1, <2>6, <3>1 DEF LateFits, SameFields
    <3>2. CASE call[x].kind = "resume" /\ call[call[x].of].agent # call[x].agent
      <4>1. call[x].agent # None \/ call'[x].outcome # "lost" \/ call[x].outcome = "lost"
        BY <1>5, <2>1 DEF WorkFields, GetAgentFields, BuildFields, PutAgentFields, FailFields,
           ServeFields, Objects, CallFits, Building
      <4>. QED
        BY <1>0, <2>1, <2>6, <3>2, <4>1, <3>1 DEF LateFits, SameFields, Late
    <3>. QED
      BY <2>1, <3>1, <3>2
  <2>. QED
    BY <2>4, <2>5, <2>7, <2>8 DEF LateFits
<1>. QED
  BY <1>2, <1>3, <1>4, <1>5, NextStep DEF WorkFields

-----------------------------------------------------------------------------
(***************************************************************************)
(* The metrics follow the runs.                                            *)
(***************************************************************************)

\* The runs that the gauge counts, and those that the counter has counted.
Running == {c \in Call : call[c].kind = "run" /\ call[c].pc \in Serving \cup {"finish"}}

Reported == {c \in Call : /\ call[c].kind = "run" /\ call[c].pc = "done"
                          /\ call[c].outcome \in {"answered", "paused"}}

Stages ==
    /\ gauge = Cardinality(Running) /\ counted = Cardinality(Reported)
    /\ \A c \in Call :
         /\ call[c].pc \in {"metrics", "register", "set_metrics", "inc", "finish", "count"} =>
              call[c].kind = "run"
         /\ call[c].pc = "finish" => call[c].outcome \in {"answered", "paused", "raised"}
         /\ call[c].pc = "count" => call[c].outcome \in {"answered", "paused"}

\* A step by which call c keeps its place in both sets, and in its stage.
Counts(c) ==
    /\ OthersSame(c)
    /\ UNCHANGED <<gauge, counted>>
    /\ c \in Running' <=> c \in Running
    /\ c \in Reported' <=> c \in Reported
    /\ call'[c].pc \in {"metrics", "register", "set_metrics", "inc", "finish", "count"} =>
         call'[c].kind = "run"
    /\ call'[c].pc = "finish" => call'[c].outcome \in {"answered", "paused", "raised"}
    /\ call'[c].pc = "count" => call'[c].outcome \in {"answered", "paused"}

LEMMA CountsStep ==
  ASSUME Types, Stages, NEW c \in Call, Counts(c)
  PROVE  Stages'
<1>1. Running' = Running /\ Reported' = Reported
  BY DEF Counts, OthersSame, Running, Reported
<1>. QED
  BY <1>1 DEF Counts, OthersSame, Stages

LEMMA StagesInit == Init => Stages
<1> SUFFICES ASSUME Init PROVE Stages
  OBVIOUS
<1>1. Running = {} /\ Reported = {}
  BY DEF Init, Running, Reported, Serving
<1>. QED
  BY <1>1, FS_EmptySet DEF Init, Stages

LEMMA StagesNext == Types /\ Objects /\ Stages /\ [Next]_vars => Stages'
<1> SUFFICES ASSUME Types, Objects, Stages, [Next]_vars PROVE Stages'
  OBVIOUS
<1>1. IsFiniteSet(Running) /\ IsFiniteSet(Reported)
  BY CallAssumption, FS_Subset DEF Running, Reported
<1>2. CASE Close \/ UNCHANGED vars
  BY <1>2 DEF Close, vars, telemetry, Stages, Running, Reported
<1>3. ASSUME NEW c \in Call, Client(c) PROVE Stages'
  <2>1. OthersSame(c) /\ AskFields(c) /\ UNCHANGED <<gauge, counted>>
    BY <1>3, AskStep, ApproveStep DEF Client, Ask, Approve, telemetry
  <2>2. Counts(c)
    BY <2>1 DEF Counts, AskFields, Running, Reported, Serving
  <2>. QED
    BY <2>2, CountsStep
<1>4. ASSUME NEW c \in Call, GetAgent(c) PROVE Stages'
  <2>1. OthersSame(c) /\ GetAgentFields(c) /\ UNCHANGED <<gauge, counted>>
    BY <1>4, GetAgentStep DEF GetAgent, telemetry
  <2>2. /\ call'[c].pc = "metrics" => call[c].kind = "run"
        /\ call'[c].pc = "engine" => call[c].kind # "run"
    <3>1. \/ call' = [call EXCEPT ![c].pc = Served(c), ![c].agent = agents[call[c].ds]]
          \/ End(c, "unknown") \/ Goto(c, "dialect")
      BY <1>4 DEF GetAgent
    <3>. QED
      BY <3>1 DEF Served, End, Goto, Types, Request
  <2>3. Counts(c)
    BY <2>1, <2>2 DEF GetAgentFields, SameFields, Counts, Running, Reported, Serving
  <2>. QED
    BY <2>3, CountsStep
<1>5. ASSUME NEW c \in Call, BuildActions(c) PROVE Stages'
  <2>1. OthersSame(c) /\ BuildFields(c) /\ UNCHANGED <<gauge, counted>>
    BY <1>5, BuildStep
       DEF BuildActions, GetDialect, PutDialect, CheckMemory, PutMemory, ReadMemory, telemetry
  <2>2. /\ call[c].pc \in Building /\ call'[c].pc \in Building
        /\ call'[c].kind = call[c].kind
    BY <2>1 DEF BuildFields, SameFields, Building
  <2>3. Counts(c)
    BY <2>1, <2>2 DEF Counts, Running, Reported, Serving, Building
  <2>. QED
    BY <2>3, CountsStep
<1>6. ASSUME NEW c \in Call, PutAgent(c) PROVE Stages'
  <2>1. OthersSame(c) /\ PutAgentFields(c) /\ UNCHANGED <<gauge, counted>>
    BY <1>6, PutAgentStep DEF PutAgent, telemetry
  <2>2. /\ call'[c].pc = "metrics" => call[c].kind = "run"
        /\ call'[c].pc = "engine" => call[c].kind # "run"
    BY <1>6 DEF PutAgent, Served, Types, Request
  <2>3. Counts(c)
    BY <2>1, <2>2 DEF PutAgentFields, SameFields, Counts, Running, Reported, Serving
  <2>. QED
    BY <2>3, CountsStep
<1>7. ASSUME NEW c \in Call, CheckMetrics(c) \/ SetMetrics(c) PROVE Stages'
  <2>1. /\ \E p \in {"inc", "register"} : Goto(c, p)
        /\ call[c].pc \in {"metrics", "set_metrics"} /\ UNCHANGED <<gauge, counted>>
    BY <1>7 DEF CheckMetrics, SetMetrics, telemetry
  <2>2. OthersSame(c) /\ SameFields(c) /\ call'[c].pc \in {"inc", "register"}
    BY <2>1, GotoFields
  <2>3. Counts(c)
    BY <2>1, <2>2 DEF SameFields, Counts, Running, Reported, Serving, Stages
  <2>. QED
    BY <2>3, CountsStep
<1>8. ASSUME NEW c \in Call, Register(c) PROVE Stages'
  <2>1. /\ End(c, "no_metrics") \/ Goto(c, "set_metrics")
        /\ call[c].pc = "register" /\ UNCHANGED <<gauge, counted>>
    BY <1>8 DEF Register
  <2>2. /\ OthersSame(c) /\ SameFields(c)
        /\ \/ call'[c].pc = "done" /\ call'[c].outcome = "no_metrics"
           \/ call'[c].pc = "set_metrics"
    BY <2>1, GotoFields, EndFields
  <2>3. Counts(c)
    BY <2>1, <2>2 DEF SameFields, Counts, Running, Reported, Serving, Stages
  <2>. QED
    BY <2>3, CountsStep
<1>9. ASSUME NEW c \in Call, Enter(c) PROVE Stages'
  <2>1. /\ OthersSame(c) /\ SameFields(c) /\ call[c].pc = "inc" /\ call'[c].pc = "engine"
        /\ gauge' = gauge + 1 /\ counted' = counted
    BY <1>9, GotoFields DEF Enter
  <2>2. call[c].kind = "run"
    BY <2>1 DEF Stages
  <2>3. c \notin Running /\ Running' = Running \cup {c} /\ Reported' = Reported
    BY <2>1, <2>2 DEF OthersSame, SameFields, Running, Reported, Serving
  <2>4. gauge' = Cardinality(Running') /\ counted' = Cardinality(Reported')
    BY <1>1, <2>1, <2>3, FS_AddElement DEF Stages
  <2>. QED
    BY <2>1, <2>4 DEF Stages, OthersSame
<1>10. ASSUME NEW c \in Call, GetEngine(c) \/ PutEngine(c) \/ Invoke(c) \/ Resume(c)
       PROVE  Stages'
  <2>1. /\ call[c].pc \in Serving /\ UNCHANGED <<gauge, counted>>
        /\ \/ \E p \in {"new_engine", "invoke"} : Goto(c, p)
           \/ \E how \in {"answered", "raised", "paused"} : Return(c, how)
           \/ call[c].kind = "resume" /\ \E how : Return(c, how)
    BY <1>10 DEF GetEngine, PutEngine, Invoke, Resume, telemetry, Serving
  <2>2. /\ OthersSame(c) /\ SameFields(c)
        /\ \/ call'[c].pc \in {"new_engine", "invoke"}
           \/ call[c].kind # "run" /\ call'[c].pc = "done"
           \/ /\ call[c].kind = "run" /\ call'[c].pc = "finish"
              /\ call'[c].outcome \in {"answered", "raised", "paused"}
    BY <2>1, GotoFields, ReturnFields
  <2>3. Counts(c)
    BY <2>1, <2>2 DEF SameFields, Counts, Running, Reported, Serving, Stages
  <2>. QED
    BY <2>3, CountsStep
<1>11. ASSUME NEW c \in Call, Finish(c) PROVE Stages'
  <2>1. /\ OthersSame(c) /\ SameFields(c) /\ call[c].pc = "finish"
        /\ call'[c].pc = AfterRun(c) /\ call'[c].outcome = call[c].outcome
        /\ gauge' = gauge - 1 /\ counted' = counted
    BY <1>11, GotoFields DEF Finish
  <2>2. call[c].kind = "run" /\ call[c].outcome \in {"answered", "paused", "raised"}
    BY <2>1 DEF Stages
  <2>3. /\ call'[c].pc \in {"done", "count"}
        /\ call'[c].pc = "done" => call[c].outcome = "raised"
        /\ call'[c].pc = "count" => call[c].outcome # "raised"
    BY <2>1 DEF AfterRun
  <2>4. c \in Running /\ Running' = Running \ {c} /\ Reported' = Reported
    BY <2>1, <2>2, <2>3 DEF OthersSame, SameFields, Running, Reported, Serving
  <2>5. gauge' = Cardinality(Running')
    BY <1>1, <2>1, <2>4, FS_RemoveElement DEF Stages
  <2>. QED
    BY <2>1, <2>2, <2>3, <2>4, <2>5 DEF Stages, OthersSame, SameFields
<1>12. ASSUME NEW c \in Call, Count(c) PROVE Stages'
  <2>1. /\ OthersSame(c) /\ SameFields(c) /\ call[c].pc = "count" /\ call'[c].pc = "done"
        /\ call'[c].outcome = call[c].outcome
        /\ gauge' = gauge /\ counted' = counted + 1
    BY <1>12, GotoFields DEF Count
  <2>2. call[c].kind = "run" /\ call[c].outcome \in {"answered", "paused"}
    BY <2>1 DEF Stages
  <2>3. Running' = Running /\ c \notin Reported /\ Reported' = Reported \cup {c}
    BY <2>1, <2>2 DEF OthersSame, SameFields, Running, Reported, Serving
  <2>4. counted' = Cardinality(Reported')
    BY <1>1, <2>1, <2>3, FS_AddElement DEF Stages
  <2>. QED
    BY <2>1, <2>3, <2>4 DEF Stages, OthersSame
<1>13. ASSUME NEW c \in Call, BuildRaises(c) PROVE Stages'
  <2>1. OthersSame(c) /\ FailFields(c) /\ UNCHANGED <<gauge, counted>>
    BY <1>13, FailStep DEF BuildRaises, telemetry
  <2>2. Counts(c)
    BY <2>1 DEF FailFields, Counts, Running, Reported, Serving, Building
  <2>. QED
    BY <2>2, CountsStep
<1>. QED
  BY <1>2, <1>3, <1>4, <1>5, <1>6, <1>7, <1>8, <1>9, <1>10, <1>11, <1>12, <1>13
     DEF Next, CallStep, BuildActions

-----------------------------------------------------------------------------
(***************************************************************************)
(* The theorems.                                                           *)
(***************************************************************************)
IInv == Types /\ Objects /\ Late /\ Stages

LEMMA IInvAlways == Spec => []IInv
<1>1. Init => IInv
  BY TypesInit, ObjectsInit, LateInit, StagesInit DEF IInv
<1>2. IInv /\ [Next]_vars => IInv'
  BY TypesNext, ObjectsNext, LateNext, StagesNext DEF IInv
<1>. QED
  BY <1>1, <1>2, PTL DEF Spec

\* The registries, engines, checkpointers, calls and metrics stay in their
\* types; that the gauge never falls below zero needs what it counts.
THEOREM TypeCorrect == Spec => []TypeOK
<1>1. IInv => TypeOK
  <2>1. ASSUME IInv PROVE gauge \in Nat /\ counted \in Nat
    <3>1. IsFiniteSet(Running) /\ IsFiniteSet(Reported)
      BY CallAssumption, FS_Subset DEF Running, Reported
    <3>. QED
      BY <2>1, <3>1, FS_CardinalityType DEF IInv, Stages
  <2>. QED
    BY <2>1 DEF IInv, Types, TypeOK
<1>. QED
  BY <1>1, IInvAlways, PTL

\* However the requests race through get_agent, get_dialect and the lazy
\* attributes, each is served by an agent of its datasource, on a dialect of
\* its datasource, with a memory.
THEOREM ServesItsDatasourceHolds == Spec => []ServesItsDatasource
<1>1. IInv => ServesItsDatasource
  <2>1. SUFFICES ASSUME Objects, NEW c \in Call, call[c].agent # None
        PROVE  /\ call[call[c].agent].ds = call[c].ds
               /\ call[call[c].agent].dialect \in Call
               /\ call[call[call[c].agent].dialect].ds = call[c].ds
               /\ call[call[c].agent].memory # None
    BY DEF IInv, ServesItsDatasource
  <2>2. AgentFits(call[c].agent, call[c].ds, call)
    BY <2>1 DEF Objects, CallFits
  <2>. QED
    BY <2>2 DEF AgentFits, DialectFits
<1>. QED
  BY <1>1, IInvAlways, PTL

\* A decision on a question that came when its datasource had its agent
\* reaches the agent, and so the saver, in which the question is paused.
THEOREM LateQuestionsAreFoundHolds == Spec => []LateQuestionsAreFound
<1>1. IInv => LateQuestionsAreFound
  BY DEF IInv, Late, LateFits, LateQuestionsAreFound
<1>. QED
  BY <1>1, IInvAlways, PTL

\* A request that came when its datasource had its agent, and a decision on
\* such a request, is served by that agent, which nothing unseats afterwards.
THEOREM SettledAgentServesHolds == Spec => []SettledAgentServes
<1>1. IInv => SettledAgentServes
  BY DEF IInv, Late, LateFits, CameLate, SettledAgentServes
<1>. QED
  BY <1>1, IInvAlways, PTL

\* QueryService.run's gauge counts the runs under way, whatever they raise,
\* and each run that returned is counted once.
THEOREM MetricsAgreeHolds == Spec => []MetricsAgree
<1>1. IInv => MetricsAgree
  BY DEF IInv, Stages, Running, Reported, MetricsAgree
<1>. QED
  BY <1>1, IInvAlways, PTL
-----------------------------------------------------------------------------
(***************************************************************************)
(* What three runs refute holds while requests come one at a time: with    *)
(* nobody to race, what a check found is still true at the assignment      *)
(* (Registries, Collectors, Pools). So the races are all there is to blame.*)
(***************************************************************************)
Busy(c) == call[c].pc \notin {"idle", "done"}

\* No two requests are under way at once.
OneAtATime == \A c, d \in Call : Busy(c) /\ Busy(d) => c = d

\* What a call holds is what is registered; it builds only what is missing.
SerialCall(c) ==
    /\ call[c].agent # None => call[c].agent = agents[call[c].ds]
    /\ call[c].pc \in Building => agents[call[c].ds] = None
    /\ call[c].pc = "new_dialect" => dialects[call[c].ds] = None
    /\ call[c].pc \in AfterDialect => call[c].dialect = dialects[call[c].ds]
    /\ call[c].outcome # "lost"

Registries ==
    /\ \A d \in Datasource : agents[d] # None =>
         dialects[d] # None /\ call[agents[d]].dialect = dialects[d]
    /\ \A c \in Call : SerialCall(c)

\* Nobody is about to register collectors that are registered.
Collectors ==
    /\ registered => metrics \/ \E c \in Call : call[c].pc = "set_metrics"
    /\ \A c \in Call : /\ call[c].pc = "register" => ~registered
                       /\ call[c].outcome # "no_metrics"

\* Every open pool is the engine of a registered dialect.
Pools ==
    /\ \A c \in Call : call[c].pc = "new_engine" => engine[DialectOf(c)] = None
    /\ \A e \in open : \E d \in Datasource : dialects[d] # None /\ engine[dialects[d]] = e
    /\ closed => open = {} /\ \A c \in Call : ~Busy(c)

\* When a call steps, no other is under way.
LEMMA OthersRest ==
  ASSUME OneAtATime, OneAtATime', NEW c \in Call, OthersSame(c), Busy(c) \/ Busy(c)'
  PROVE  \A x \in Call \ {c} : call'[x] = call[x] /\ ~Busy(x)
<1>1. \A x \in Call \ {c} : call'[x] = call[x]
  BY DEF OthersSame
<1>2. CASE Busy(c)
  BY <1>1, <1>2 DEF OneAtATime
<1>3. CASE Busy(c)'
  <2>1. \A x \in Call \ {c} : ~Busy(x)'
    BY <1>3 DEF OneAtATime
  <2>. QED
    BY <1>1, <2>1 DEF Busy
<1>. QED
  BY <1>2, <1>3

LEMMA RegistriesNext ==
  ASSUME Types, Objects, Late, Registries, OneAtATime, OneAtATime', [Next]_vars
  PROVE  Registries'
<1>1. CASE UNCHANGED <<agents, dialects, memory, call>>
  BY <1>1 DEF Registries, SerialCall
<1>2. ASSUME NEW c \in Call, OthersSame(c), AskFields(c) \/ WorkFields(c)
      PROVE  Registries'
  <2>1. /\ Busy(c) \/ Busy(c)'
        /\ call[c].ds \in Datasource \/ call[c].pc = "idle"
    BY <1>2, WorkStep DEF AskFields, Busy, Objects, CallFits
  <2>2. \A x \in Call \ {c} : call'[x] = call[x] /\ ~Busy(x)
    BY <1>2, <2>1, OthersRest
  <2>3. SerialCall(c) /\ CallFits(c) /\ LateFits(c)
    BY DEF Registries, Objects, Late
  <2>4. ASSUME AskFields(c) PROVE SerialCall(c)' /\ agents' = agents /\ dialects' = dialects
    <3>1. call[c].agent = None /\ call'[c].agent = None
      BY <2>3, <2>4 DEF AskFields, CallFits, SameObjects
    <3>. QED
      BY <2>3, <2>4, <3>1 DEF AskFields, SerialCall, CallFits, Building, AfterDialect
  <2>5. ASSUME GetAgentFields(c) PROVE SerialCall(c)' /\ agents' = agents /\ dialects' = dialects
    <3>1. call[c].agent = None
      BY <2>3, <2>5 DEF GetAgentFields, CallFits
    <3>2. CASE call'[c].pc \in {"metrics", "engine"}
      BY <2>3, <2>5, <3>2 DEF GetAgentFields, SameFields, SerialCall, Building, AfterDialect
    <3>3. CASE call'[c].pc \in {"done", "dialect"}
      BY <2>3, <2>5, <3>1, <3>3 DEF GetAgentFields, SameFields, SameObjects, SerialCall,
         Building, AfterDialect
    <3>. QED
      BY <2>5, <3>2, <3>3 DEF GetAgentFields
  <2>6. ASSUME BuildFields(c)
        PROVE  /\ SerialCall(c)' /\ agents' = agents /\ agents[call[c].ds] = None
               /\ \A d \in Datasource : d # call[c].ds => dialects'[d] = dialects[d]
    <3>1. agents[call[c].ds] = None /\ call'[c].agent = None /\ call[c].pc \in Building
      BY <2>3, <2>6 DEF BuildFields, SerialCall, CallFits, Building, SameObjects
    <3>2. \A d \in Datasource : d # call[c].ds => dialects'[d] = dialects[d]
      BY <2>6 DEF BuildFields, Types
    <3>3. call'[c].pc \in AfterDialect => call'[c].dialect = dialects'[call[c].ds]
      <4>1. call[c].ds \in Datasource
        BY <2>1, <3>1 DEF Building
      <4>. QED
        BY <2>3, <2>6, <4>1 DEF BuildFields, SerialCall, AfterDialect, SameObjects, Types
    <3>4. call'[c].pc = "new_dialect" => dialects'[call[c].ds] = None
      BY <2>6, <3>1 DEF BuildFields, Types
    <3>. QED
      BY <2>3, <2>6, <3>1, <3>2, <3>3, <3>4 DEF BuildFields, SerialCall, SameFields
  <2>7. ASSUME PutAgentFields(c)
        PROVE  /\ SerialCall(c)' /\ dialects' = dialects /\ agents[call[c].ds] = None
               /\ agents' = [agents EXCEPT ![call[c].ds] = c] /\ call[c].ds \in Datasource
               /\ dialects[call[c].ds] # None /\ call'[c].dialect = dialects[call[c].ds]
    <3>1. /\ call[c].ds \in Datasource /\ agents[call[c].ds] = None
          /\ call[c].dialect = dialects[call[c].ds] /\ call[c].dialect \in Call
      BY <2>1, <2>3, <2>7 DEF PutAgentFields, SerialCall, CallFits, DialectFits, Building,
         AfterDialect
    <3>2. agents'[call[c].ds] = c
      BY <2>7, <3>1 DEF PutAgentFields, Types
    <3>. QED
      BY <2>3, <2>7, <3>1, <3>2, NoneAssumption
         DEF PutAgentFields, SameFields, SerialCall, Building, AfterDialect
  <2>8. ASSUME ServeFields(c) PROVE SerialCall(c)' /\ agents' = agents /\ dialects' = dialects
    <3>1. call'[c].outcome # "lost"
      <4>1. SUFFICES ASSUME call[c].kind = "resume", call[call[c].of].agent # call[c].agent
            PROVE  FALSE
        BY <2>3, <2>8 DEF ServeFields, SerialCall
      <4>. DEFINE q == call[c].of
      <4>2. q \in Call /\ call[q].outcome = "paused" /\ call[q].ds = call[c].ds
        BY <2>3, <4>1 DEF LateFits
      <4>3. call[q].agent # None /\ SerialCall(q)
        BY <4>2 DEF Late, LateFits, Registries
      <4>4. call[c].agent # None
        BY <2>3, <2>8 DEF ServeFields, CallFits
      <4>. QED
        BY <2>3, <4>1, <4>2, <4>3, <4>4 DEF SerialCall
    <3>. QED
      BY <2>3, <2>8, <3>1 DEF ServeFields, SameFields, SameObjects, SerialCall, Building,
         AfterDialect, AfterAgent, Serving
  <2>11. ASSUME FailFields(c) PROVE SerialCall(c)' /\ agents' = agents /\ dialects' = dialects
    BY <2>3, <2>11 DEF FailFields, SameFields, SameObjects, SerialCall, Building, AfterDialect
  <2>9. ASSUME NEW x \in Call \ {c} PROVE SerialCall(x)'
    <3>1. SerialCall(x) /\ call'[x] = call[x] /\ call[x].pc \in {"idle", "done"}
      BY <2>2 DEF Registries, Busy
    <3>2. call[x].agent # None => agents'[call[x].ds] = agents[call[x].ds]
      <4>1. SUFFICES ASSUME call[x].agent # None, PutAgentFields(c)
            PROVE  agents'[call[x].ds] = agents[call[x].ds]
        BY <1>2, <2>4, <2>5, <2>6, <2>8, <2>11 DEF WorkFields
      <4>2. call[x].ds \in Datasource /\ agents[call[x].ds] # None
        BY <3>1, <4>1 DEF SerialCall, Objects, CallFits
      <4>. QED
        BY <2>7, <4>1, <4>2 DEF Types
    <3>. QED
      BY <3>1, <3>2 DEF SerialCall, Building, AfterDialect
  <2>10. ASSUME NEW d \in Datasource, agents'[d] # None
         PROVE  dialects'[d] # None /\ call'[agents'[d]].dialect = dialects'[d]
    <3>1. CASE PutAgentFields(c) /\ d = call[c].ds
      BY <2>7, <3>1 DEF Types
    <3>2. CASE ~(PutAgentFields(c) /\ d = call[c].ds)
      <4>1. agents'[d] = agents[d]
        BY <1>2, <2>4, <2>5, <2>6, <2>7, <2>8, <2>11, <3>2 DEF WorkFields, Types
      <4>2. dialects'[d] = dialects[d]
        BY <1>2, <2>4, <2>5, <2>6, <2>7, <2>8, <2>10, <2>11, <4>1 DEF WorkFields
      <4>3. agents[d] \in Call /\ call[agents[d]].agent = agents[d]
        BY <2>10, <4>1 DEF Objects, AgentFits
      <4>4. call'[agents[d]].dialect = call[agents[d]].dialect
        <5>1. CASE agents[d] # c
          BY <2>2, <4>3, <5>1
        <5>2. CASE agents[d] = c
          <6>1. call[c].agent # None
            BY <4>3, <5>2, NoneAssumption
          <6>2. ServeFields(c)
            BY <1>2, <2>3, <6>1 DEF WorkFields, AskFields, GetAgentFields, BuildFields,
               PutAgentFields, FailFields, CallFits, Building
          <6>. QED
            BY <5>2, <6>2 DEF ServeFields, SameObjects
        <5>. QED
          BY <5>1, <5>2
      <4>. QED
        BY <2>10, <4>1, <4>2, <4>4 DEF Registries
    <3>. QED
      BY <3>1, <3>2
  <2>. QED
    BY <1>2, <2>4, <2>5, <2>6, <2>7, <2>8, <2>9, <2>10, <2>11 DEF Registries, WorkFields
<1>. QED
  BY <1>1, <1>2, NextStep DEF WorkFields

LEMMA CollectorsNext ==
  ASSUME Types, Objects, Collectors, OneAtATime, OneAtATime', [Next]_vars
  PROVE  Collectors'
<1>1. CASE Close \/ UNCHANGED vars
  BY <1>1 DEF Close, vars, telemetry, Collectors
<1>2. ASSUME NEW c \in Call, OthersSame(c), UNCHANGED <<registered, metrics>>,
             call[c].pc # "set_metrics", call'[c].outcome # "no_metrics",
             call'[c].pc = "register" => ~registered
      PROVE  Collectors'
  BY <1>2 DEF Collectors, OthersSame
<1>3. ASSUME NEW c \in Call, Client(c) PROVE Collectors'
  <2>1. OthersSame(c) /\ AskFields(c) /\ UNCHANGED <<registered, metrics>>
    BY <1>3, AskStep, ApproveStep DEF Client, Ask, Approve, telemetry
  <2>. QED
    BY <1>2, <2>1 DEF Collectors, AskFields
<1>4. ASSUME NEW c \in Call,
             \/ GetAgent(c) \/ BuildActions(c) \/ PutAgent(c) \/ Enter(c)
             \/ GetEngine(c) \/ PutEngine(c) \/ Invoke(c) \/ Resume(c) \/ Finish(c)
             \/ Count(c) \/ BuildRaises(c)
      PROVE  Collectors'
  <2>1. UNCHANGED <<registered, metrics>>
    BY <1>4 DEF GetAgent, BuildActions, GetDialect, PutDialect, CheckMemory, PutMemory,
       ReadMemory, PutAgent, Enter, GetEngine, PutEngine, Invoke, Resume, Finish, Count,
       BuildRaises, telemetry
  <2>2. call[c].outcome # "no_metrics"
    BY DEF Collectors
  <2>3. CASE GetAgent(c) \/ BuildActions(c) \/ PutAgent(c) \/ BuildRaises(c)
    <3>1. /\ OthersSame(c)
          /\ GetAgentFields(c) \/ BuildFields(c) \/ PutAgentFields(c) \/ FailFields(c)
      BY <2>3, GetAgentStep, BuildStep, PutAgentStep, FailStep
    <3>2. /\ call[c].pc # "set_metrics" /\ call'[c].outcome # "no_metrics"
          /\ call'[c].pc # "register"
      BY <2>2, <3>1 DEF GetAgentFields, BuildFields, PutAgentFields, FailFields, Building
    <3>. QED
      BY <1>2, <2>1, <3>1, <3>2
  <2>4. CASE Enter(c) \/ PutEngine(c) \/ Finish(c) \/ Count(c)
    <3>1. /\ \E p \in {"engine", "invoke", "count", "done"} : Goto(c, p)
          /\ call[c].pc # "set_metrics"
      BY <2>4 DEF Enter, PutEngine, Finish, AfterRun, Count
    <3>. QED
      BY <1>2, <2>1, <2>2, <3>1, GotoFields
  <2>5. CASE GetEngine(c) \/ Invoke(c) \/ Resume(c)
    <3>1. /\ \/ \E p \in {"new_engine", "invoke"} : Goto(c, p)
             \/ \E how \in {"answered", "raised", "paused", "resumed", "replayed", "lost"} :
                  Return(c, how)
          /\ call[c].pc # "set_metrics"
      BY <2>5 DEF GetEngine, Invoke, Resume
    <3>. QED
      BY <1>2, <2>1, <2>2, <3>1, GotoFields, ReturnFields
  <2>. QED
    BY <1>4, <2>3, <2>4, <2>5
<1>5. ASSUME NEW c \in Call, CheckMetrics(c) PROVE Collectors'
  <2>1. /\ Goto(c, IF metrics THEN "inc" ELSE "register") /\ call[c].pc = "metrics"
        /\ UNCHANGED <<registered, metrics>>
    BY <1>5 DEF CheckMetrics, telemetry
  <2>2. /\ OthersSame(c) /\ call'[c].pc = (IF metrics THEN "inc" ELSE "register")
        /\ call'[c].outcome = call[c].outcome
    BY <2>1, GotoFields
  <2>3. ~metrics => ~registered
    <3>1. \A x \in Call : call[x].pc # "set_metrics"
      BY <2>1 DEF OneAtATime, Busy
    <3>. QED
      BY <3>1 DEF Collectors
  <2>. QED
    BY <1>2, <2>1, <2>2, <2>3 DEF Collectors
<1>6. ASSUME NEW c \in Call, Register(c) PROVE Collectors'
  <2>1. ~registered /\ call[c].pc = "register" /\ Goto(c, "set_metrics") /\ registered' /\ metrics' = metrics
    BY <1>6 DEF Register, Collectors
  <2>2. OthersSame(c) /\ call'[c].pc = "set_metrics" /\ call'[c].outcome = call[c].outcome
    BY <2>1, GotoFields
  <2>3. \A x \in Call \ {c} : call'[x] = call[x] /\ ~Busy(x)
    BY <2>1, <2>2, OthersRest DEF Busy
  <2>. QED
    BY <2>2, <2>3 DEF Collectors, Busy
<1>7. ASSUME NEW c \in Call, SetMetrics(c) PROVE Collectors'
  <2>1. call[c].pc = "set_metrics" /\ Goto(c, "inc") /\ registered' = registered /\ metrics'
    BY <1>7 DEF SetMetrics
  <2>2. OthersSame(c) /\ call'[c].pc = "inc" /\ call'[c].outcome = call[c].outcome
    BY <2>1, GotoFields
  <2>. QED
    BY <2>1, <2>2 DEF Collectors, OthersSame
<1>. QED
  BY <1>1, <1>3, <1>4, <1>5, <1>6, <1>7 DEF Next, CallStep, BuildActions

LEMMA PoolsNext ==
  ASSUME Types, Objects, Registries, Pools, OneAtATime, OneAtATime', [Next]_vars
  PROVE  Pools'
<1>. DEFINE D == {dialects[d] : d \in Datasource} \ {None}
<1>1. CASE UNCHANGED vars
  BY <1>1 DEF vars, Pools, Busy, DialectOf
<1>2. CASE Close
  <2>1. /\ open' = open \ {engine[d] : d \in D} /\ call' = call
        /\ \A c \in Call : call[c].pc \in {"idle", "done"}
    BY <1>2 DEF Close
  <2>2. \A e \in open : e \in {engine[d] : d \in D}
    BY DEF Pools
  <2>3. open' = {}
    BY <2>1, <2>2
  <2>. QED
    BY <2>1, <2>3 DEF Pools, Busy
\* A step that leaves the engines alone, at most registers a dialect where there was none.
<1>3. ASSUME NEW c \in Call, OthersSame(c), UNCHANGED <<engine, open, closed>>, ~closed,
             \A d \in Datasource : dialects[d] # None => dialects'[d] = dialects[d],
             call'[c].pc = "new_engine" => engine[DialectOf(c)'] = None,
             Busy(c) \/ Busy(c)'
      PROVE  Pools'
  <2>1. \A x \in Call \ {c} : call'[x] = call[x] /\ ~Busy(x)
    BY <1>3, OthersRest
  <2>2. \A x \in Call : call'[x].pc = "new_engine" => x = c
    BY <2>1 DEF Busy
  <2>. QED
    BY <1>3, <2>2 DEF Pools
<1>4. ASSUME NEW c \in Call, Client(c) PROVE Pools'
  <2>1. OthersSame(c) /\ AskFields(c) /\ UNCHANGED <<engine, open, closed>> /\ ~closed
    BY <1>4, AskStep, ApproveStep DEF Client, Ask, Approve
  <2>. QED
    BY <1>3, <2>1 DEF Busy, AskFields
<1>5. ASSUME NEW c \in Call, CallStep(c) PROVE Busy(c) /\ ~closed
  BY <1>5 DEF CallStep, GetAgent, GetDialect, PutDialect, CheckMemory, PutMemory, ReadMemory,
     PutAgent, BuildRaises, CheckMetrics, Register, SetMetrics, Enter, GetEngine, PutEngine,
     Invoke, Resume, Finish, Count, Busy, Pools
<1>6. ASSUME NEW c \in Call, GetAgent(c) \/ BuildActions(c) \/ PutAgent(c) \/ BuildRaises(c)
      PROVE  Pools'
  <2>1. /\ OthersSame(c)
        /\ GetAgentFields(c) \/ BuildFields(c) \/ PutAgentFields(c) \/ FailFields(c)
        /\ UNCHANGED <<engine, open, closed>> /\ Busy(c) /\ ~closed
    BY <1>5, <1>6, GetAgentStep, BuildStep, PutAgentStep, FailStep
       DEF CallStep, GetAgent, BuildActions, GetDialect, PutDialect, CheckMemory, PutMemory,
           ReadMemory, PutAgent, BuildRaises
  <2>2. call'[c].pc # "new_engine"
    BY <2>1 DEF GetAgentFields, BuildFields, PutAgentFields, FailFields
  <2>3. \A d \in Datasource : dialects[d] # None => dialects'[d] = dialects[d]
    BY <2>1 DEF GetAgentFields, BuildFields, PutAgentFields, FailFields, Registries, SerialCall,
       Types
  <2>. QED
    BY <1>3, <2>1, <2>2, <2>3
<1>7. ASSUME NEW c \in Call,
             \/ CheckMetrics(c) \/ Register(c) \/ SetMetrics(c) \/ Enter(c)
             \/ Invoke(c) \/ Resume(c) \/ Finish(c) \/ Count(c)
      PROVE  Pools'
  <2>1. /\ UNCHANGED <<engine, open, closed, dialects>> /\ Busy(c) /\ ~closed
        /\ \/ \E p \in {"inc", "register", "set_metrics", "engine", "count", "done"} : Goto(c, p)
           \/ End(c, "no_metrics") \/ \E how : Return(c, how)
    BY <1>5, <1>7 DEF CallStep, CheckMetrics, Register, SetMetrics, Enter, Invoke, Resume, Finish,
       AfterRun, Count
  <2>2. OthersSame(c) /\ call'[c].pc # "new_engine"
    BY <2>1, GotoFields, EndFields, ReturnFields
  <2>. QED
    BY <1>3, <2>1, <2>2
<1>8. ASSUME NEW c \in Call, GetEngine(c) PROVE Pools'
  <2>1. /\ UNCHANGED <<engine, open, closed, dialects>> /\ Busy(c) /\ ~closed
        /\ \/ Goto(c, "invoke") \/ (engine[DialectOf(c)] = None /\ Goto(c, "new_engine"))
           \/ \E how : Return(c, how)
    BY <1>5, <1>8 DEF CallStep, GetEngine
  <2>2. /\ OthersSame(c) /\ SameObjects(c)
        /\ call'[c].pc = "new_engine" => engine[DialectOf(c)] = None
    BY <2>1, GotoFields, ReturnFields
  <2>3. DialectOf(c)' = DialectOf(c)
    <3>1. call[c].agent \in Call
      BY <1>8 DEF GetEngine, Objects, CallFits, AgentFits, AfterAgent, Serving
    <3>2. call'[call[c].agent].dialect = call[call[c].agent].dialect
      BY <2>2, <3>1 DEF OthersSame, SameObjects
    <3>. QED
      BY <2>2, <3>2 DEF DialectOf, SameObjects
  <2>. QED
    BY <1>3, <2>1, <2>2, <2>3
<1>9. ASSUME NEW c \in Call, PutEngine(c) PROVE Pools'
  <2>. DEFINE x == DialectOf(c)
  <2>1. /\ engine' = [engine EXCEPT ![x] = c] /\ open' = open \cup {c} /\ call[c].pc = "new_engine"
        /\ Goto(c, "invoke") /\ UNCHANGED <<dialects, closed>> /\ ~closed /\ Busy(c)
    BY <1>5, <1>9 DEF PutEngine, CallStep
  <2>2. OthersSame(c) /\ call'[c].pc = "invoke"
    BY <2>1, GotoFields
  <2>3. \A y \in Call : call'[y].pc # "new_engine"
    BY <2>1, <2>2, OthersRest DEF Busy
  <2>4. engine[x] = None
    BY <2>1 DEF Pools
  <2>5. PICK d \in Datasource : dialects[d] = x /\ x \in Call /\ x # None
    <3>1. call[c].agent # None /\ call[c].ds \in Datasource /\ SerialCall(c)
      BY <2>1 DEF Objects, CallFits, AfterAgent, Serving, Registries
    <3>2. dialects[call[c].ds] # None /\ call[call[c].agent].dialect = dialects[call[c].ds]
      BY <3>1 DEF SerialCall, Registries
    <3>. QED
      BY <3>1, <3>2 DEF DialectOf, Types
  <2>6. ASSUME NEW e \in open'
        PROVE  \E u \in Datasource : dialects'[u] # None /\ engine'[dialects'[u]] = e
    <3>1. CASE e = c
      BY <2>1, <2>5, <3>1 DEF Types
    <3>2. CASE e # c
      <4>1. PICK u \in Datasource : dialects[u] # None /\ engine[dialects[u]] = e
        BY <2>1, <2>6, <3>2 DEF Pools
      <4>2. e # None
        BY <2>1, <2>6, <3>2, NoneAssumption DEF Types
      <4>. QED
        BY <2>1, <2>4, <4>1, <4>2 DEF Types
    <3>. QED
      BY <3>1, <3>2
  <2>. QED
    BY <2>1, <2>3, <2>6 DEF Pools
<1>. QED
  BY <1>1, <1>2, <1>4, <1>6, <1>7, <1>8, <1>9 DEF Next, CallStep, BuildActions

\* While requests come one at a time, a decision finds its question, no request
\* fails for want of metrics and shutdown releases every pool: the three runs
\* that refute this show races and nothing else.
THEOREM OneAtATimeIsSafe ==
  Spec /\ []OneAtATime =>
    [](DecisionsFindTheirQuestion /\ MetricsAreSafe /\ PoolsAreReleased)
<1>. DEFINE Serial == Registries /\ Collectors /\ Pools
<1>1. Init => Serial
  <2> SUFFICES ASSUME Init PROVE Serial
    OBVIOUS
  <2>1. Registries
    BY DEF Init, Registries, SerialCall, Building, AfterDialect
  <2>2. Collectors
    BY DEF Init, Collectors
  <2>3. Pools
    BY DEF Init, Pools
  <2>. QED
    BY <2>1, <2>2, <2>3
<1>2. IInv /\ Serial /\ OneAtATime /\ OneAtATime' /\ [Next]_vars => Serial'
  BY RegistriesNext, CollectorsNext, PoolsNext DEF IInv
<1>3. Serial => DecisionsFindTheirQuestion /\ MetricsAreSafe /\ PoolsAreReleased
  BY DEF Registries, SerialCall, Collectors, Pools, DecisionsFindTheirQuestion, MetricsAreSafe,
     PoolsAreReleased
<1>. QED
  BY <1>1, <1>2, <1>3, IInvAlways, PTL DEF Spec
=============================================================================

------------------------------ MODULE SqlAgent ------------------------------
(***************************************************************************)
(* The LangGraph workflow of backend/agents/sql_agent.py: the nodes of the *)
(* graph, its conditional edges, the checkpointer that keeps a thread's    *)
(* channels between calls, the human-approval interrupt of the executor    *)
(* node, and the calls of the API (a question, or a decision on a paused   *)
(* question) that run the graph.                                           *)
(*                                                                         *)
(* One action is one super-step: a node runs on the channels of its call,  *)
(* its update is merged, the router picks the next node and the checkpoint *)
(* is saved. The executor node is the exception: it reads the result cache,*)
(* estimates the cost, runs the query and fills the cache in four actions, *)
(* because other calls may run in between.                                 *)
(*                                                                         *)
(* Left out: the text of questions, plans, summaries, charts and errors;   *)
(* the age of cached rows; SELECT statements without a single column.      *)
(***************************************************************************)
EXTENDS Naturals, Sequences

CONSTANTS
    Thread,           \* conversation threads: the checkpointer's keys
    Call,             \* API calls; a question is named after the call that asks it
    Output,           \* what the LLM may answer when asked for SQL
    Statement,        \* statements as the validator extracts and normalizes them
    Extract,          \* the validator: the statement of an output, None if rejected
    MaxSqlRetries,    \* settings.max_sql_retries
    RequireApproval,  \* settings.require_approval
    CacheEnabled,     \* settings.cache_enabled
    Overlap,          \* whether clients send a call on a thread that has one running
    None

ASSUME ExtractAssumption == Extract \in [Output -> Statement \cup {None}]
ASSUME NoneAssumption == None \notin Statement \cup Output \cup Call \cup Thread
ASSUME RetriesAssumption == MaxSqlRetries \in Nat
ASSUME SettingsAssumption == {RequireApproval, CacheEnabled, Overlap} \subseteq BOOLEAN

VARIABLES
    ckpt,    \* ckpt[t]: the latest checkpoint of thread t
    call,    \* call[c]: the run of the graph that serves call c
    cache,   \* the statements whose rows the result cache holds
    ran,     \* ran[c]: history, the statements flagged for approval that c executed
    spent,   \* spent[q]: history, the SQL generations spent on question q by all calls
    doubled  \* history, the questions a decision took up while a call was serving them

tally == <<spent, doubled>>

vars == <<ckpt, call, cache, ran, spent, doubled>>

Node == {"guardrails_in", "load_schema", "understand", "generate_sql", "validate",
         "execute", "analyze", "generate_response", "guardrails_out", "finalize", "fail"}

(***************************************************************************)
(* The nodes that call the LLM or the vector store with nothing to catch   *)
(* an exception.                                                           *)
(***************************************************************************)
RaisingNode == {"guardrails_in", "load_schema", "generate_sql",
                "generate_response", "guardrails_out"}

Error == {"none", "validation", "execution", "blocked"}

Result == [question: Call, sql: Output \cup Statement \cup {None},
           rows: Statement \cup {None}, error: Error, retries: Nat,
           cached: BOOLEAN, needsApproval: BOOLEAN]

(***************************************************************************)
(* AgentState. rows stands for columns, rows and execution_stats, and is   *)
(* the statement they were read with; lastError is the last element of     *)
(* errors. generated is a history field: the SQL generations this copy of  *)
(* the channels knows of for its question, counted up to one above the     *)
(* budget. What the question cost in all is spent.                         *)
(***************************************************************************)
Channels == [question: Call \cup {None}, sql: Output \cup Statement \cup {None},
             planFlag: BOOLEAN, valid: BOOLEAN, attempts: Nat, generated: Nat,
             lastError: Error, needsApproval: BOOLEAN, approved: BOOLEAN,
             blocked: BOOLEAN, cached: BOOLEAN, rows: Statement \cup {None},
             result: Result \cup {None}]

Blank == [question |-> None, sql |-> None, planFlag |-> FALSE, valid |-> FALSE,
          attempts |-> 0, generated |-> 0, lastError |-> "none",
          needsApproval |-> FALSE, approved |-> FALSE, blocked |-> FALSE,
          cached |-> FALSE, rows |-> None, result |-> None]

Checkpoint == [next: Node \cup {"none", "end"}, vals: Channels]

Decision == {"none", "approve", "decline"}

Outcome == {"none", "answered", "failed", "paused", "declined", "replayed", "raised",
            "abandoned"}

\* What a human looks at when deciding on a paused question.
Pending == [question: Call \cup {None}, sql: Output \cup Statement \cup {None}]

ASSUME NoneRecordAssumption == None \notin Result \cup Pending

Run == [pc: Node \cup {"idle", "resume", "estimate", "run", "put", "done"},
        thread: Thread \cup {None}, vals: Channels, decision: Decision,
        flagged: BOOLEAN, grant: Pending \cup {None},
        outcome: Outcome, reply: Result \cup {None}]

Init ==
    /\ ckpt = [t \in Thread |-> [next |-> "none", vals |-> Blank]]
    /\ call = [c \in Call |->
                 [pc |-> "idle", thread |-> None, vals |-> Blank, decision |-> "none",
                  flagged |-> FALSE, grant |-> None, outcome |-> "none", reply |-> None]]
    /\ cache = {}
    /\ ran = [c \in Call |-> <<>>]
    /\ spent = [q \in Call |-> 0]
    /\ doubled = {}

-----------------------------------------------------------------------------
(***************************************************************************)
(* Channel updates: what each node returns, merged by the reducers.        *)
(***************************************************************************)

\* Seeded fault: initial_state forgets to reset the approval.
StartKeepingApproval(v, q) ==
    [v EXCEPT !.question = q, !.generated = 0, !.needsApproval = FALSE,
              !.blocked = FALSE, !.rows = None]

\* Seeded fault: initial_state forgets to reset columns and rows.
StartKeepingRows(v, q) ==
    [v EXCEPT !.question = q, !.generated = 0, !.needsApproval = FALSE,
              !.approved = FALSE, !.blocked = FALSE]

(***************************************************************************)
(* initial_state merged over the thread's channels. attempts and errors    *)
(* have adding reducers, so 0 and [] leave them as they are; sql, plan,    *)
(* validation, cached and result are not in the input at all.              *)
(***************************************************************************)
StartQuestion(v, q) ==
    [v EXCEPT !.question = q, !.generated = 0, !.needsApproval = FALSE,
              !.approved = FALSE, !.blocked = FALSE, !.rows = None]

CountUpTo(n, bound) == IF n < bound THEN n + 1 ELSE n

\* The generator's update: the raw output, and one more attempt.
Generated(v, o) ==
    [v EXCEPT !.sql = o, !.attempts = @ + 1,
              !.generated = CountUpTo(@, MaxSqlRetries + 2)]

\* Seeded fault: a valid output is executed as the LLM wrote it.
ValidatedRaw(v) ==
    IF Extract[v.sql] # None
    THEN [v EXCEPT !.valid = TRUE]
    ELSE [v EXCEPT !.valid = FALSE, !.lastError = "validation"]

(***************************************************************************)
(* The validator's update: the extracted statement replaces the output, or *)
(* an error is recorded and the output stays.                              *)
(***************************************************************************)
Validated(v) ==
    IF Extract[v.sql] # None
    THEN [v EXCEPT !.valid = TRUE, !.sql = Extract[v.sql]]
    ELSE [v EXCEPT !.valid = FALSE, !.lastError = "validation"]

CacheHit(v) ==
    [v EXCEPT !.rows = v.sql, !.needsApproval = FALSE, !.approved = TRUE, !.cached = TRUE]

Declined(v) == [v EXCEPT !.needsApproval = TRUE, !.approved = FALSE]

\* Seeded fault: the approval outlives the statement it was given for.
ExecutionFailedApproved(v) ==
    [v EXCEPT !.lastError = "execution", !.needsApproval = FALSE, !.approved = TRUE]

ExecutionFailed(v) == [v EXCEPT !.lastError = "execution", !.needsApproval = FALSE]

Executed(v) == [v EXCEPT !.rows = v.sql, !.needsApproval = FALSE, !.approved = TRUE]

Finalized(v) ==
    [v EXCEPT !.result =
       [question |-> v.question, sql |-> v.sql, rows |-> v.rows, error |-> "none",
        retries |-> IF v.attempts = 0 THEN 0 ELSE v.attempts - 1,
        cached |-> v.cached, needsApproval |-> v.needsApproval]]

\* Seeded fault: a failed run leaves the result channel alone.
FailedSilently(v) == v

Failed(v) ==
    [v EXCEPT !.result =
       [question |-> v.question, sql |-> v.sql, rows |-> None,
        error |-> IF v.blocked THEN "blocked" ELSE v.lastError,
        retries |-> v.attempts, cached |-> FALSE, needsApproval |-> v.needsApproval]]

-----------------------------------------------------------------------------
(***************************************************************************)
(* The conditional edges.                                                  *)
(***************************************************************************)

\* Seeded fault: an off-by-one in the retry budget.
MayRetryOnceMore(v) == v.attempts <= MaxSqlRetries + 1

MayRetry(v) == v.attempts <= MaxSqlRetries

RouteAfterInputGuardrail(v) == IF v.blocked THEN "fail" ELSE "load_schema"

RouteAfterValidate(v) ==
    CASE v.valid -> "execute"
      [] ~v.valid /\ MayRetry(v) -> "generate_sql"
      [] OTHER -> "fail"

\* Seeded fault: a statement whose execution failed is run once more as it is.
RouteToRunAgain(v) ==
    CASE v.needsApproval -> "end"
      [] ~v.needsApproval /\ v.rows # None -> "analyze"
      [] OTHER -> "execute"

\* A run succeeded when the columns channel is not empty.
RouteAfterExecute(v) ==
    CASE v.needsApproval -> "end"
      [] ~v.needsApproval /\ v.rows # None -> "analyze"
      [] ~v.needsApproval /\ v.rows = None /\ MayRetry(v) -> "generate_sql"
      [] OTHER -> "fail"

-----------------------------------------------------------------------------
(***************************************************************************)
(* Steps of a call.                                                        *)
(***************************************************************************)

Active(c) == call[c].pc \notin {"idle", "done"}

\* Call c has taken a question up and is running the graph for it.
Runs(c) == call[c].pc \in Node \cup {"estimate", "run", "put"}

Serves(c, q) == Runs(c) /\ call[c].vals.question = q

\* One more SQL generation on the question that call c serves.
Charged(c) == [spent EXCEPT ![call[c].vals.question] = @ + 1]

Free(t) == Overlap \/ \A c \in Call : Active(c) => call[c].thread # t

(***************************************************************************)
(* A super-step of call c ends with channels v and next node n: the        *)
(* checkpoint is saved, the value a human resumed with, if any, has been   *)
(* used up, and so has what the executor knows of the statement's cost.    *)
(***************************************************************************)
Advance(c, v, n) ==
    /\ call' = [call EXCEPT ![c].pc = n, ![c].vals = v,
                            ![c].decision = "none", ![c].flagged = FALSE]
    /\ ckpt' = [ckpt EXCEPT ![call[c].thread] = [next |-> n, vals |-> v]]

\* The graph reached END with channels v; the caller gets the result channel.
Return(c, v, how) ==
    /\ call' = [call EXCEPT ![c].pc = "done", ![c].vals = v, ![c].decision = "none",
                            ![c].outcome = how, ![c].reply = v.result]
    /\ ckpt' = [ckpt EXCEPT ![call[c].thread] = [next |-> "end", vals |-> v]]

\* The call ends and leaves the checkpoint where it is.
Leave(c, how, r) ==
    /\ call' = [call EXCEPT ![c].pc = "done", ![c].decision = "none",
                            ![c].outcome = how, ![c].reply = r]
    /\ UNCHANGED ckpt

\* The call breaks off: its channels are lost, the checkpoint stays.
Break(c, how) ==
    /\ call' = [call EXCEPT ![c].pc = "done", ![c].vals = Blank, ![c].decision = "none",
                            ![c].flagged = FALSE, ![c].outcome = how]
    /\ UNCHANGED ckpt

\* A question: /query and /query/stream invoke the graph with initial_state.
Ask(c, t) ==
    /\ call[c].pc = "idle"
    /\ Free(t)
    /\ LET v == StartQuestion(ckpt[t].vals, c)
       IN  /\ call' = [call EXCEPT ![c].pc = "guardrails_in", ![c].thread = t, ![c].vals = v]
           /\ ckpt' = [ckpt EXCEPT ![t] = [next |-> "guardrails_in", vals |-> v]]
    /\ UNCHANGED <<cache, ran, tally>>

(***************************************************************************)
(* A decision: a human looks at what thread t waits for and posts          *)
(* /query/approve. The payload names the thread and nothing else.          *)
(***************************************************************************)
Decide(c, t, d) ==
    /\ call[c].pc = "idle"
    /\ ckpt[t].next # "none"
    /\ Free(t)
    /\ call' = [call EXCEPT
         ![c].pc = "resume", ![c].thread = t, ![c].decision = d,
         ![c].grant = IF d = "approve"
                      THEN [question |-> ckpt[t].vals.question, sql |-> ckpt[t].vals.sql]
                      ELSE None]
    /\ UNCHANGED <<ckpt, cache, ran, tally>>

\* Seeded fault: the resumed graph is not told the thread of the decision.
ResumeAnyThread(c) ==
    /\ call[c].pc = "resume"
    /\ \E t \in Thread :
         /\ ckpt[t].next # "none"
         /\ IF ckpt[t].next = "end"
            THEN Leave(c, "replayed", ckpt[t].vals.result)
            ELSE /\ call' = [call EXCEPT ![c].pc = ckpt[t].next, ![c].vals = ckpt[t].vals]
                 /\ UNCHANGED ckpt
    /\ UNCHANGED <<cache, ran, tally>>

(***************************************************************************)
(* Command(resume=...) continues from the thread's latest checkpoint, or   *)
(* returns its channels when the graph had reached END. Nothing looks      *)
(* whether another call is still running the question taken up.            *)
(***************************************************************************)
Resume(c) ==
    /\ call[c].pc = "resume"
    /\ LET k == ckpt[call[c].thread]
       IN  IF k.next = "end"
           THEN /\ Leave(c, "replayed", k.vals.result)
                /\ UNCHANGED doubled
           ELSE /\ call' = [call EXCEPT ![c].pc = k.next, ![c].vals = k.vals]
                /\ doubled' = doubled \cup {q \in Call : /\ q = k.vals.question
                                                       /\ \E d \in Call : Serves(d, q)}
                /\ UNCHANGED ckpt
    /\ UNCHANGED <<cache, ran, spent>>

GuardrailsIn(c) ==
    /\ call[c].pc = "guardrails_in"
    /\ \E b \in BOOLEAN :
         LET v == [call[c].vals EXCEPT !.blocked = b]
         IN  Advance(c, v, RouteAfterInputGuardrail(v))
    /\ UNCHANGED <<cache, ran, tally>>

LoadSchema(c) ==
    /\ call[c].pc = "load_schema"
    /\ Advance(c, call[c].vals, "understand")
    /\ UNCHANGED <<cache, ran, tally>>

\* The plan may itself ask for approval; a failing LLM yields a plan that does not.
Understand(c) ==
    /\ call[c].pc = "understand"
    /\ \E f \in BOOLEAN : Advance(c, [call[c].vals EXCEPT !.planFlag = f], "generate_sql")
    /\ UNCHANGED <<cache, ran, tally>>

GenerateSql(c) ==
    /\ call[c].pc = "generate_sql"
    /\ \E o \in Output : Advance(c, Generated(call[c].vals, o), "validate")
    /\ spent' = Charged(c)
    /\ UNCHANGED <<cache, ran, doubled>>

Validate(c) ==
    /\ call[c].pc = "validate"
    /\ LET v == Validated(call[c].vals) IN Advance(c, v, RouteAfterValidate(v))
    /\ UNCHANGED <<cache, ran, tally>>

\* The executor node, first part: a cached result skips everything else.
LookUp(c) ==
    /\ call[c].pc = "execute"
    /\ LET v == CacheHit(call[c].vals)
       IN  IF CacheEnabled /\ v.sql \in cache
           THEN Advance(c, v, RouteAfterExecute(v))
           ELSE /\ call' = [call EXCEPT ![c].pc = "estimate"]
                /\ UNCHANGED ckpt
    /\ UNCHANGED <<cache, ran, tally>>

(***************************************************************************)
(* Second part: the estimate (expensive or not; a failing estimate counts  *)
(* as not) and the interrupt. interrupt() returns the decision a resumed   *)
(* call brings, and ends a call that brings none.                          *)
(***************************************************************************)
Estimate(c) ==
    /\ call[c].pc = "estimate"
    /\ \E expensive \in BOOLEAN :
         LET v       == call[c].vals
             flagged == RequireApproval /\ (v.planFlag \/ expensive)
             asks    == flagged /\ ~v.approved
         IN  \/ /\ asks /\ call[c].decision = "none"
                /\ Leave(c, "paused", v.result)
             \/ /\ asks /\ call[c].decision = "decline"
                /\ Return(c, Declined(v), "declined")
             \/ /\ asks => call[c].decision = "approve"
                /\ call' = [call EXCEPT ![c].pc = "run", ![c].flagged = flagged]
                /\ UNCHANGED ckpt
    /\ UNCHANGED <<cache, ran, tally>>

\* Third part: the database runs the statement, or fails.
RunQuery(c) ==
    /\ call[c].pc = "run"
    /\ LET v == ExecutionFailed(call[c].vals)
       IN  \/ Advance(c, v, RouteAfterExecute(v))
           \/ /\ call' = [call EXCEPT ![c].pc = "put"]
              /\ UNCHANGED ckpt
    /\ ran' = IF call[c].flagged
              THEN [ran EXCEPT ![c] = Append(@, [question |-> call[c].vals.question,
                                                 sql |-> call[c].vals.sql])]
              ELSE ran
    /\ UNCHANGED <<cache, tally>>

\* Fourth part: fill the cache (a failing backend is swallowed) and return.
PutCache(c) ==
    /\ call[c].pc = "put"
    /\ cache' \in IF CacheEnabled THEN {cache, cache \cup {call[c].vals.sql}} ELSE {cache}
    /\ LET v == Executed(call[c].vals) IN Advance(c, v, RouteAfterExecute(v))
    /\ UNCHANGED <<ran, tally>>

Analyze(c) ==
    /\ call[c].pc = "analyze"
    /\ Advance(c, call[c].vals, "generate_response")
    /\ UNCHANGED <<cache, ran, tally>>

GenerateResponse(c) ==
    /\ call[c].pc = "generate_response"
    /\ Advance(c, call[c].vals, "guardrails_out")
    /\ UNCHANGED <<cache, ran, tally>>

GuardrailsOut(c) ==
    /\ call[c].pc = "guardrails_out"
    /\ Advance(c, call[c].vals, "finalize")
    /\ UNCHANGED <<cache, ran, tally>>

Finalize(c) ==
    /\ call[c].pc = "finalize"
    /\ Return(c, Finalized(call[c].vals), "answered")
    /\ UNCHANGED <<cache, ran, tally>>

Fail(c) ==
    /\ call[c].pc = "fail"
    /\ Return(c, Failed(call[c].vals), "failed")
    /\ UNCHANGED <<cache, ran, tally>>

\* A node raises: the caller gets a 500 and the checkpoint still names the node.
Raise(c) ==
    /\ call[c].pc \in RaisingNode
    /\ Break(c, "raised")
    /\ UNCHANGED <<cache, ran, tally>>

(***************************************************************************)
(* The client of a streamed question disconnects: the event stream and the *)
(* graph loop under it are cancelled, and the checkpoint stays. A node in  *)
(* flight finishes on its thread without an update; of the executor, the   *)
(* rows may still reach the cache, and of the generator, the LLM may have  *)
(* been paid for.                                                          *)
(***************************************************************************)
Abandon(c) ==
    /\ Runs(c)
    /\ call[c].vals.question = c
    /\ Break(c, "abandoned")
    /\ cache' \in IF CacheEnabled /\ call[c].pc \in {"estimate", "run", "put"}
                  THEN {cache, cache \cup {call[c].vals.sql}}
                  ELSE {cache}
    /\ \/ UNCHANGED spent
       \/ call[c].pc = "generate_sql" /\ spent' = Charged(c)
    /\ UNCHANGED <<ran, doubled>>

\* The TTL of an entry runs out.
Expire(s) ==
    /\ s \in cache
    /\ cache' = cache \ {s}
    /\ UNCHANGED <<ckpt, call, ran, tally>>

CallStep(c) ==
    \/ Resume(c) \/ GuardrailsIn(c) \/ LoadSchema(c) \/ Understand(c)
    \/ GenerateSql(c) \/ Validate(c)
    \/ LookUp(c) \/ Estimate(c) \/ RunQuery(c) \/ PutCache(c)
    \/ Analyze(c) \/ GenerateResponse(c) \/ GuardrailsOut(c)
    \/ Finalize(c) \/ Fail(c) \/ Raise(c)

Client(c) ==
    \/ \E t \in Thread : Ask(c, t) \/ \E d \in {"approve", "decline"} : Decide(c, t, d)
    \/ Abandon(c)

Next == (\E c \in Call : Client(c) \/ CallStep(c)) \/ \E s \in Statement : Expire(s)

Spec == Init /\ [][Next]_vars

(***************************************************************************)
(* Every call runs on a worker thread of its own and every LLM and         *)
(* database call returns or raises within its timeout; clients need not    *)
(* send anything.                                                          *)
(***************************************************************************)
FairSpec == Spec /\ \A c \in Call : WF_vars(CallStep(c))

-----------------------------------------------------------------------------
(***************************************************************************)
(* Properties.                                                             *)
(***************************************************************************)

\* The variables have their types. In particular the rows of a result were
\* read with a validated statement, never with the LLM's raw output.
TypeOK ==
    /\ ckpt \in [Thread -> Checkpoint]
    /\ call \in [Call -> Run]
    /\ cache \in SUBSET Statement
    /\ ran \in [Call -> Seq(Pending)]
    /\ spent \in [Call -> Nat]
    /\ doubled \in SUBSET Call

(***************************************************************************)
(* A question costs at most max_sql_retries regenerations, all calls that  *)
(* worked on it taken together: however often it is paused, resumed, re-run*)
(* after a crash or overtaken by other questions of its thread, what one   *)
(* run has spent the next one knows of. Two things escape the count: the   *)
(* generation in flight when a stream is dropped, which no checkpoint      *)
(* records, and a decision that takes a question up while another call is  *)
(* still running it, for the code lets both runs spend what is left.       *)
(***************************************************************************)
RetryBudget ==
    \A q \in Call \ doubled :
      spent[q] <= MaxSqlRetries + 1 + (IF call[q].outcome = "abandoned" THEN 1 ELSE 0)

\* The database runs a statement flagged for approval only in a call that
\* brought an approval, and at most once in it: a regenerated statement asks
\* again, and neither a new question nor a thread's history carries it over.
OneRunPerApproval ==
    \A c \in Call : Len(ran[c]) <= IF call[c].grant = None THEN 0 ELSE 1

\* What runs is what the human looked at: the same question and statement.
\* Holds while clients leave a thread alone until its call has returned.
ApprovedStatementRuns ==
    \A c \in Call : \A i \in DOMAIN ran[c] : ran[c][i] = call[c].grant

\* What a call that ran to the end returns fits the question it served.
Coherent(c) ==
    LET r == call[c].reply IN
    call[c].outcome \in {"answered", "failed"} =>
      /\ r # None
      /\ r.question = call[c].vals.question
      /\ call[c].outcome = "answered" =>
           r.error = "none" /\ r.rows \in Statement /\ r.rows = r.sql
      /\ call[c].outcome = "failed" => r.error # "none"

\* A call that ran to the end answers its own question: an answer shows the
\* rows of the very statement it shows, a failure says why it failed. The
\* channels of a thread hold rows, statements, errors and results of earlier
\* questions, which must not show through.
ReplyIsCoherent == \A c \in Call : Coherent(c)

(***************************************************************************)
(* How much of its own work call c has left: the SQL generations its       *)
(* thread's attempts still allow, and within one generation the stages up  *)
(* to the next. A regeneration goes back to a stage that ranks lower than  *)
(* the ones that send the run there. A decision not yet taken up may start *)
(* anywhere, with a whole budget.                                          *)
(***************************************************************************)
StageRank ==
    [done |-> 0, fail |-> 1, finalize |-> 1, guardrails_out |-> 2, generate_response |-> 3,
     analyze |-> 4, generate_sql |-> 5, put |-> 6, run |-> 7, estimate |-> 8, execute |-> 9,
     validate |-> 10, understand |-> 6, load_schema |-> 7, guardrails_in |-> 8,
     resume |-> 0, idle |-> 0]

GenerationsLeft(pc, attempts) ==
    LET retries == IF attempts <= MaxSqlRetries THEN MaxSqlRetries + 1 - attempts ELSE 0
    IN  CASE pc = "resume" -> MaxSqlRetries + 2
          [] pc \in {"guardrails_in", "load_schema", "understand", "generate_sql"}
               /\ retries = 0 -> 1
          [] pc \in {"done", "idle"} -> 0
          [] OTHER -> retries

WorkLeft(c) == 11 * GenerationsLeft(call[c].pc, call[c].vals.attempts) + StageRank[call[c].pc]

\* A call gets on with every step it takes, whatever the LLM writes and
\* whoever else runs on its thread: no edge of the graph, no resume and no
\* checkpoint another call left behind sends it back without spending a
\* generation. So it takes at most 11 * (MaxSqlRetries + 2) steps.
CallsGetOn ==
    [][\A c \in Call : Active(c) /\ call'[c] # call[c] => WorkLeft(c)' < WorkLeft(c)]_vars

\* Every call returns: the retry loop ends and nothing waits for another call.
EveryCallReturns == \A c \in Call : Active(c) ~> call[c].pc = "done"

\* Call d ran its question to the end on the thread of call c.
FinishedOnThreadOf(c, d) ==
    call[d].thread = call[c].thread /\ call[d].outcome \in {"answered", "failed"}

\* Whatever a call returns (a paused, declined or replayed one hands out what
\* the thread's result channel held) is the result of a question that ran to
\* its end on the same thread: never another conversation's, never half done.
RepliesStayOnTheirThread ==
    \A c \in Call : call[c].reply # None =>
      \E d \in Call : FinishedOnThreadOf(c, d) /\ call[d].reply = call[c].reply

\* "Allow up to max_sql_retries retries after the first generation": a
\* question fails on its SQL only when it has used them all.
FullRetryBudget ==
    \A c \in Call :
      call[c].outcome = "failed" /\ call[c].reply.error \in {"validation", "execution"}
        => call[c].vals.generated = MaxSqlRetries + 1

\* A call whose question waits for approval does not return the result of
\* another question.
PausedReplyIsOwn ==
    \A c \in Call :
      call[c].outcome = "paused" /\ call[c].reply # None
        => call[c].reply.question = call[c].vals.question
=============================================================================

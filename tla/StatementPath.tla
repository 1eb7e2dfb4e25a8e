--------------------------- MODULE StatementPath ---------------------------
(***************************************************************************)
(* The way of a statement, from the schema a question is given to the rows *)
(* and charts that answer it: the schema loader node, the schema index,    *)
(* the generator, the validator, the executor node with the result cache,  *)
(* the database and the chart recommender. Calls share the index, the      *)
(* cache and the databases.                                                *)
(*                                                                         *)
(* Retries and the channels of a thread are in SqlAgent: here a call       *)
(* generates once, and only the estimate calls for an approval. A call     *)
(* of the execute_sql tool (backend/tools/execute_sql.py) starts at the    *)
(* validator and takes no part in the cache.                               *)
(*                                                                         *)
(* Left out: the text the dialect makes of a statement, and what is in the *)
(* rows: a result is where and for which statement it was read.            *)
(***************************************************************************)
EXTENDS SqlValidator, SchemaIndex, ResultCache

CONSTANTS
    Call,         \* questions and tool calls
    Name,         \* names in statements, of tables and others
    Output,       \* what the LLM, or the caller of the tool, may write
    Tables,       \* Tables[d]: the tables of datasource d and their rows
    Dialect,      \* Dialect[d]
    MaxRows,      \* MaxRows[d]: the limit of the agent of datasource d
    ToolRows,     \* limits a caller of the tool gives
    Count,        \* bound: how many rows a statement may find
    Threshold     \* settings.expensive_query_threshold

Statement == {o.statement : o \in Output}

ASSUME OutputAssumption == Output \subseteq OutputOver(Name)
ASSUME CountAssumption == Count \subseteq Nat /\ ToolRows \subseteq Nat
ASSUME DatasourceAssumption ==
    \A d \in Datasource : /\ DOMAIN Tables[d] \subseteq Table
                          /\ MaxRows[d] \in Nat \ {0}

\* Seeded fault: the key is made of the statement alone.
KeyOfStatement(d, s) ==
    [datasource |-> CHOOSE any \in Datasource : TRUE, canonical |-> s.canonical, limit |-> 0]

\* ResultCache.cache_key. Statements may share a canonical form: what sqlglot
\* cannot parse has its white space collapsed, in string literals, too.
CacheKey(d, s) == [datasource |-> d, canonical |-> s.canonical, limit |-> MaxRows[d]]

ASSUME KeyAssumption == \A d \in Datasource, s \in Statement : CacheKey(d, s) \in Key

\* The rows of a statement: where and under which limit they were read, how many
\* there were and how many were kept.
Rows == [datasource: Datasource, statement: Statement, limit: Nat,
         there: Count, kept: Nat, truncated: BOOLEAN]

\* execute_read_only: the rows that are there now, up to the limit.
RowsOf(d, s, limit, n) ==
    [datasource |-> d, statement |-> s, limit |-> limit,
     there |-> n, kept |-> Kept(n, limit), truncated |-> Truncated(n, limit)]

ASSUME NothingAssumption == None \notin Statement \cup Rows

\* What earlier processes stored was read like what this one stores: the key has
\* the datasource and the limit in it.
ASSUME EarlierAssumption ==
    \A e \in Inherited : \E d \in Datasource, s \in Statement, n \in Count :
        e = Entry(CacheKey(d, s), RowsOf(d, s, MaxRows[d], n), e.expires)

VARIABLES
    pc,        \* pc[c]: what call c does next, or how it ended
    source,    \* source[c]: its datasource
    full,      \* full[c]: the tables that were reflected
    schema,    \* schema[c]: those the prompt and the validator get
    sql,       \* sql[c]: the statement
    decision,  \* decision[c]: what was decided when it was paused, while the node runs again
    result,    \* result[c]: the rows, None before there are any
    expiry,    \* expiry[c]: the expiry computed for them, until they are stored
    served,    \* served[c]: the rows the cache gave, None if it gave none
    charts     \* charts[c]: the recommended charts

callVars == <<pc, source, full, schema, sql, decision, result, expiry, served, charts>>
vars == <<callVars, indexVars, cacheVars>>

Init ==
    /\ IndexInit
    /\ CacheInit
    /\ pc = [c \in Call |-> "new"]
    /\ source = [c \in Call |-> None]
    /\ full = [c \in Call |-> {}]
    /\ schema = [c \in Call |-> {}]
    /\ sql = [c \in Call |-> None]
    /\ decision = [c \in Call |-> "none"]
    /\ result = [c \in Call |-> None]
    /\ expiry = [c \in Call |-> 0]
    /\ served = [c \in Call |-> None]
    /\ charts = [c \in Call |-> <<>>]

Go(c, from, to) ==
    /\ pc[c] = from
    /\ pc' = [pc EXCEPT ![c] = to]

-----------------------------------------------------------------------------
(***************************************************************************)
(* The schema and the statement.                                           *)
(***************************************************************************)

Ask(c, d) ==
    /\ Go(c, "new", "load_schema")
    /\ source' = [source EXCEPT ![c] = d]
    /\ UNCHANGED <<full, schema, sql, decision, result, expiry, served, charts,
                   indexVars, cacheVars>>

\* reflect_schema: a table that cannot be reflected is skipped, and if the tables
\* cannot be listed there are none. Then the schema is indexed. A database that
\* cannot be inspected raises.
LoadSchema(c) ==
    /\ pc[c] = "load_schema"
    /\ \/ \E tables \in SUBSET DOMAIN Tables[source[c]] :
            /\ full' = [full EXCEPT ![c] = tables]
            /\ \/ Go(c, "load_schema", "prune") /\ IndexSchema(source[c], tables)
               \/ Go(c, "load_schema", "raised") /\ IndexSchemaRaises(tables)
       \/ Go(c, "load_schema", "raised") /\ UNCHANGED <<full, indexVars>>
    /\ UNCHANGED <<source, schema, sql, decision, result, expiry, served, charts, cacheVars>>

\* relevant_schema, in the same node; other calls may index in between.
PruneSchema(c) ==
    /\ Go(c, "prune", "generate_sql")
    /\ \E hits \in SUBSET points :
         /\ Search(hits) \/ (hits = {} /\ SearchFails)
         /\ schema' = [schema EXCEPT ![c] = Pruned(full[c], hits)]
    /\ UNCHANGED <<source, full, sql, decision, result, expiry, served, charts, cacheVars>>

\* The generator and the validator: what is rejected goes no further.
Generate(c) ==
    /\ pc[c] = "generate_sql"
    /\ \E o \in Output :
         \/ /\ Extracted(o) /\ Valid(o.statement, schema[c])
            /\ sql' = [sql EXCEPT ![c] = o.statement]
            /\ Go(c, "generate_sql", "execute")
         \/ /\ ~Extracted(o) \/ ~Valid(o.statement, schema[c])
            /\ Go(c, "generate_sql", "rejected")
            /\ UNCHANGED sql
    /\ UNCHANGED <<source, full, schema, decision, result, expiry, served, charts,
                   indexVars, cacheVars>>

-----------------------------------------------------------------------------
(***************************************************************************)
(* ExecutorNode.                                                           *)
(***************************************************************************)

\* The cache is asked first.
LookUp(c) ==
    /\ LET k == CacheKey(source[c], sql[c])
       IN \/ /\ Go(c, "execute", "analyze")
             /\ CacheGet(k)
             /\ served' = [served EXCEPT ![c] = store[k].value]
             /\ result' = [result EXCEPT ![c] = store[k].value]
             /\ decision' = [decision EXCEPT ![c] = "none"]
          \/ /\ Go(c, "execute", "estimate")
             /\ CacheMiss(k)
             /\ UNCHANGED <<served, result, decision>>
    /\ UNCHANGED <<source, full, schema, sql, expiry, charts, indexVars>>

\* EXPLAIN, and the interrupt if the estimate calls for an approval. A decision
\* is gone with this run of the node.
Estimate(c) ==
    /\ pc[c] = "estimate"
    /\ \E e \in Estimates(Dialect[source[c]], sql[c], Tables[source[c]], Count) :
         Go(c, "estimate",
            IF ~NeedsApproval(e, Threshold) \/ decision[c] = "approve" THEN "run"
            ELSE IF decision[c] = "decline" THEN "declined" ELSE "paused")
    /\ decision' = [decision EXCEPT ![c] = "none"]
    /\ UNCHANGED <<source, full, schema, sql, result, expiry, served, charts,
                   indexVars, cacheVars>>

\* Seeded fault: a decision lets the call go on behind the node.
DecideBehind(c, choice) ==
    /\ Go(c, "paused", IF choice = "approve" THEN "analyze" ELSE "declined")
    /\ UNCHANGED <<source, full, schema, sql, decision, result, expiry, served, charts,
                   indexVars, cacheVars>>

\* Whatever is decided, the node starts over: the cache may have the rows by now,
\* and another estimate may ask for no decision.
Decide(c, choice) ==
    /\ Go(c, "paused", "execute")
    /\ decision' = [decision EXCEPT ![c] = choice]
    /\ UNCHANGED <<source, full, schema, sql, result, expiry, served, charts,
                   indexVars, cacheVars>>

Run(c) ==
    /\ \/ /\ Go(c, "run", IF Backend = "none" THEN "analyze" ELSE "put")
          /\ \E n \in Count :
               result' = [result EXCEPT ![c] =
                            RowsOf(source[c], sql[c], MaxRows[source[c]], n)]
       \/ Go(c, "run", "failed") /\ UNCHANGED result
    /\ UNCHANGED <<source, full, schema, sql, decision, expiry, served, charts,
                   indexVars, cacheVars>>

\* ResultCache.put, without a time to live of its own: the expiry first ...
Put(c) ==
    /\ Go(c, "put", "set")
    /\ expiry' = [expiry EXCEPT ![c] = Expiry(0)]
    /\ UNCHANGED <<source, full, schema, sql, decision, result, served, charts,
                   indexVars, cacheVars>>

\* ... and then the entry; the expiry was a local variable.
Set(c) ==
    /\ Go(c, "set", "analyze")
    /\ CacheSet(CacheKey(source[c], sql[c]), result[c], expiry[c])
    /\ expiry' = [expiry EXCEPT ![c] = 0]
    /\ UNCHANGED <<source, full, schema, sql, decision, result, served, charts, indexVars>>

\* _analyze
Analyze(c) ==
    /\ Go(c, "analyze", "answered")
    /\ charts' = [charts EXCEPT ![c] = Recommend(result[c].statement.columns, result[c].kept)]
    /\ UNCHANGED <<source, full, schema, sql, decision, result, expiry, served,
                   indexVars, cacheVars>>

-----------------------------------------------------------------------------
\* execute_sql: the caller's limit is brought into the tool's range.
ToolLimit(n) == Smaller(IF n < 1 THEN 1 ELSE n, 1000)

\* The schema is the one the tool was built with.
CallTool(c, d) ==
    /\ pc[c] = "new"
    /\ source' = [source EXCEPT ![c] = d]
    /\ \E tables \in SUBSET DOMAIN Tables[d], o \in Output :
         /\ full' = [full EXCEPT ![c] = tables]
         /\ schema' = [schema EXCEPT ![c] = tables]
         /\ IF Extracted(o) /\ Valid(o.statement, tables)
            THEN /\ sql' = [sql EXCEPT ![c] = o.statement]
                 /\ \/ /\ \E n \in Count, limit \in ToolRows :
                            result' = [result EXCEPT ![c] =
                                         RowsOf(d, o.statement, ToolLimit(limit), n)]
                       /\ Go(c, "new", "told")
                    \/ Go(c, "new", "failed") /\ UNCHANGED result
            ELSE Go(c, "new", "rejected") /\ UNCHANGED <<sql, result>>
    /\ UNCHANGED <<decision, expiry, served, charts, indexVars, cacheVars>>

Next ==
    \/ \E c \in Call :
         \/ \E d \in Datasource : Ask(c, d) \/ CallTool(c, d)
         \/ LoadSchema(c) \/ PruneSchema(c) \/ Generate(c)
         \/ LookUp(c) \/ Estimate(c) \/ \E choice \in {"approve", "decline"} : Decide(c, choice)
         \/ Run(c) \/ Put(c) \/ Set(c) \/ Analyze(c)
    \/ (CacheForgets \/ Tick) /\ UNCHANGED <<callVars, indexVars>>

Spec == Init /\ [][Next]_vars

-----------------------------------------------------------------------------
(***************************************************************************)
(* Properties.                                                             *)
(***************************************************************************)
Before == {"new", "load_schema", "prune", "generate_sql", "raised", "rejected"}
Checked == {"execute", "estimate", "paused", "run", "put", "set", "analyze",
            "answered", "declined", "failed", "told"}

EntryOver(Value) == [key: Key, value: Value, expires: Nat]

\* The state has its types: what executes is a statement, what is analyzed or
\* stored has rows, and the cache holds under a key what was stored under it.
TypeOK ==
    /\ pc \in [Call -> Before \cup Checked]
    /\ source \in [Call -> Datasource \cup {None}]
    /\ full \in [Call -> SUBSET Table]
    /\ schema \in [Call -> SUBSET Table]
    /\ sql \in [Call -> Statement \cup {None}]
    /\ decision \in [Call -> {"none", "approve", "decline"}]
    /\ result \in [Call -> Rows \cup {None}]
    /\ expiry \in [Call -> Nat]
    /\ served \in [Call -> Rows \cup {None}]
    /\ client \in BOOLEAN /\ collection \in BOOLEAN
    /\ points \subseteq Datasource \X Table
    /\ points # {} => collection
    /\ now \in Nat
    /\ stored \subseteq EntryOver(Rows)
    /\ store \in [Key -> stored \cup {None}]
    /\ \A c \in Call : /\ pc[c] # "new" => source[c] \in Datasource
                       /\ pc[c] \in Checked => sql[c] \in Statement
                       /\ pc[c] \in {"put", "set", "analyze", "answered", "told"}
                            => result[c] \in Rows

\* Whatever the shared index finds, documents of other datasources or of tables
\* that are gone, the schema a question is given is part of its own datasource's,
\* and it has a table if the datasource shows any.
SchemaIsOwn ==
    \A c \in Call : pc[c] \in Checked \cup {"generate_sql"} =>
        /\ schema[c] \subseteq DOMAIN Tables[source[c]]
        /\ schema[c] = {} => full[c] = {}

\* A statement that passed the validator, whose schema may be pruned, is one
\* statement without a dangerous keyword, and reads tables of its datasource and
\* names of its own: unless sqlglot cannot parse it, or no table was reflected.
StatementsKnowTheirTables ==
    \A c \in Call : pc[c] \in Checked =>
        /\ ~sql[c].forbidden
        /\ sql[c].key = "unparsed" \/ sql[c].pieces = 1
        /\ \/ sql[c].key = "unparsed"
           \/ full[c] = {}
           \/ sql[c].refs \subseteq sql[c].ctes \cup DOMAIN Tables[source[c]]

\* The rows a question is answered with, its own or those another question left in
\* the cache, were read from its datasource, by a statement of the same canonical
\* form and under the limit its agent has.
RowsAnswerTheStatement ==
    \A c \in Call : pc[c] \in {"put", "set", "analyze", "answered"} =>
        /\ result[c].datasource = source[c]
        /\ result[c].statement.canonical = sql[c].canonical
        /\ result[c].limit = MaxRows[source[c]]

\* Rows are said to be truncated exactly if some that were there are missing, also
\* when they come from the cache, and there are never more than the limit.
TruncationIsTold ==
    \A c \in Call : result[c] # None =>
        /\ result[c].truncated <=> result[c].there # result[c].kept
        /\ result[c].kept <= result[c].limit

\* Rows are charted if there are any: with a table, and before it at most MaxCharts
\* charts of a measure over something else, a pie only for few rows. The
\* columns are those of the rows, which may be another question's.
ChartsFit ==
    \A c \in Call : pc[c] = "answered" =>
        LET n == Len(charts[c])
            columns == result[c].statement.columns
        IN /\ n = 0 <=> (result[c].kept = 0 \/ columns = <<>>)
           /\ n <= MaxCharts + 1
           /\ \A i \in 1..n :
                /\ charts[c][i].type = "table" <=> i = n
                /\ i < n => /\ columns[charts[c][i].y] = "integer"
                            /\ columns[charts[c][i].x] # "integer"
                /\ charts[c][i].type = "pie" => result[c].kept <= PieRows

Wanted == [c \in Call |-> IF sql[c] = None THEN None ELSE CacheKey(source[c], sql[c])]

Promise == INSTANCE ForgetfulCache WITH
    Asker <- Call, Value <- Rows, TimeToLive <- Ttl, Absent <- None,
    clock <- now, offers <- stored, wanted <- Wanted, found <- served

\* The cache keeps its promise while calls look up, store and let time pass between
\* the computation of an expiry and the entry: what is served was stored under the
\* key of the call that is served, and has not expired.
KeepsCachePromise == Promise!Spec

=============================================================================

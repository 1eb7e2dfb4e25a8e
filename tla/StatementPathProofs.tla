------------------------ MODULE StatementPathProofs ------------------------
(***************************************************************************)
(* Proofs about StatementPath, for any datasources, tables, statements,    *)
(* limits, time to live and number of calls: what a call is given belongs  *)
(* to its datasource and its statement, and the result cache keeps the     *)
(* promise of ForgetfulCache.                                              *)
(*                                                                         *)
(* The inductive invariant follows the rows through the cache. An entry    *)
(* says where its rows were read (Filed), is filed under its own key, and  *)
(* a call that stores one computed its expiry in time (Punctual).          *)
(***************************************************************************)
EXTENDS StatementPath, WellFoundedInduction, TLAPS

\* What a call was shown is its datasource's.
Reflected ==
    \A c \in Call : IF pc[c] = "new" THEN full[c] = {}
                    ELSE full[c] \subseteq DOMAIN Tables[source[c]]

\* A statement appears when it passes the validator.
Unwritten == \A c \in Call : pc[c] \in Before => sql[c] = None

\* The rows v are those of key k.
Answers(v, k) ==
    /\ v.datasource = k.datasource
    /\ v.statement.canonical = k.canonical
    /\ v.limit = k.limit

\* The rows v say whether some are missing.
Told(v) == (v.truncated <=> v.there # v.kept) /\ v.kept <= v.limit

\* What was stored answers the key it is under.
Filed ==
    /\ \A e \in stored : Answers(e.value, e.key) /\ Told(e.value)
    /\ \A k \in Key : store[k] # None => store[k].key = k

\* No expiry lies further ahead than the time to live.
Punctual == \A c \in Call : expiry[c] <= now + Ttl

IInv ==
    /\ TypeOK
    /\ Reflected /\ SchemaIsOwn /\ Unwritten /\ StatementsKnowTheirTables
    /\ Filed /\ Punctual /\ RowsAnswerTheStatement /\ TruncationIsTold


-----------------------------------------------------------------------------
(***************************************************************************)
(* What is stored, and what is read.                                       *)
(***************************************************************************)

\* The rows execute_read_only returns say where they were read, and whether
\* some are missing.
LEMMA RowsOfFacts ==
  ASSUME NEW d \in Datasource, NEW s \in Statement, NEW limit \in Nat, NEW n \in Count
  PROVE  /\ RowsOf(d, s, limit, n) \in Rows
         /\ Told(RowsOf(d, s, limit, n))
         /\ RowsOf(d, s, limit, n).datasource = d
         /\ RowsOf(d, s, limit, n).statement = s
         /\ RowsOf(d, s, limit, n).limit = limit
<1>1. n \in Nat
  BY CountAssumption
<1>2. Kept(n, limit) \in Nat /\ Truncated(n, limit) \in BOOLEAN
  BY <1>1 DEF Kept, Smaller, Truncated
<1>. DEFINE r == RowsOf(d, s, limit, n)
<1>3. r \in Rows
  BY <1>2 DEF RowsOf, Rows
<1>4. /\ r.datasource = d /\ r.statement = s /\ r.limit = limit
      /\ r.there = n /\ r.kept = Kept(n, limit) /\ r.truncated = Truncated(n, limit)
  BY DEF RowsOf
<1>5. /\ Truncated(n, limit) <=> n # Kept(n, limit)
      /\ Kept(n, limit) <= limit
  BY <1>1 DEF Kept, Smaller, Truncated
<1>6. Told(r)
  BY <1>4, <1>5, Zenon DEF Told
<1>. QED
  BY <1>3, <1>4, <1>6

\* A statement that passes the validator with the tables of a schema.
LEMMA ValidFacts ==
  ASSUME NEW s \in Statement, NEW tables, Valid(s, tables)
  PROVE  /\ ~s.forbidden
         /\ s.key = "unparsed" \/ s.pieces = 1
         /\ s.key = "unparsed" \/ tables = {} \/ s.refs \subseteq s.ctes \cup tables
<1>1. s.pieces \in {1, 2}
  BY OutputAssumption DEF Statement, OutputOver, StatementOver
<1>. QED
  BY <1>1 DEF Valid, HasMultiple, Missing

LEMMA PrunedFacts ==
  ASSUME NEW tables, NEW hits
  PROVE  /\ Pruned(tables, hits) \subseteq tables
         /\ Pruned(tables, hits) = {} => tables = {}
BY DEF Pruned

LEMMA MaxRowsNat == \A d \in Datasource : MaxRows[d] \in Nat
BY DatasourceAssumption

\* What earlier processes left in the cache is what this one would store.
LEMMA InheritedFacts ==
  ASSUME NEW e \in Inherited
  PROVE  /\ e \in [key: Key, value: Rows, expires: 0..Ttl]
         /\ e \in EntryOver(Rows)
         /\ Answers(e.value, e.key) /\ Told(e.value)
<1>1. PICK d \in Datasource, s \in Statement, n \in Count :
        e = Entry(CacheKey(d, s), RowsOf(d, s, MaxRows[d], n), e.expires)
  BY EarlierAssumption
<1>2. CacheKey(d, s) \in Key /\ MaxRows[d] \in Nat
  BY KeyAssumption, DatasourceAssumption
<1>. DEFINE v == RowsOf(d, s, MaxRows[d], n)
<1>3. /\ v \in Rows /\ Told(v) /\ v.datasource = d /\ v.statement = s /\ v.limit = MaxRows[d]
  BY <1>2, RowsOfFacts
<1>. HIDE DEF v
<1>4. e.expires \in 0..Ttl /\ e.expires \in Nat
  BY InheritedAssumption, CacheAssumption
<1>5. e = [key |-> CacheKey(d, s), value |-> v, expires |-> e.expires]
  BY <1>1 DEF Entry, v
<1>6. e.key = CacheKey(d, s) /\ e.value = v
  BY <1>5
<1>7. e \in [key: Key, value: Rows, expires: 0..Ttl] /\ e \in EntryOver(Rows)
  BY <1>2, <1>3, <1>4, <1>5 DEF EntryOver
<1>8. Answers(e.value, e.key)
  BY <1>3, <1>6 DEF Answers, CacheKey
<1>. QED
  BY <1>3, <1>6, <1>7, <1>8

\* What the index does keeps its types.
LEMMA IndexFacts ==
  ASSUME client \in BOOLEAN, collection \in BOOLEAN, points \subseteq Datasource \X Table,
         points # {} => collection,
         NEW d \in Datasource, NEW tables \in SUBSET Table, NEW hits,
         \/ IndexSchema(d, tables) \/ IndexSchemaRaises(tables)
         \/ Search(hits) \/ SearchFails
  PROVE  /\ client' \in BOOLEAN /\ collection' \in BOOLEAN
         /\ points' \subseteq Datasource \X Table
         /\ points' # {} => collection'
BY DEF IndexSchema, IndexSchemaRaises, Search, SearchFails, GetClient, GetClientRaises, indexVars

-----------------------------------------------------------------------------

LEMMA AskKeeps ==
  ASSUME IInv, NEW c \in Call, NEW d \in Datasource, Ask(c, d)
  PROVE  IInv'
<1>1. TypeOK'
  BY DEF IInv, TypeOK, Ask, Go, indexVars, cacheVars, Before, Checked
<1>2. Reflected' /\ SchemaIsOwn' /\ Unwritten' /\ StatementsKnowTheirTables'
  BY DEF IInv, Reflected, SchemaIsOwn, Unwritten, StatementsKnowTheirTables, TypeOK, Ask, Go, Before, Checked
<1>3. Filed' /\ Punctual'
  BY DEF IInv, Filed, Punctual, TypeOK, Ask, Go, cacheVars
<1>4. RowsAnswerTheStatement' /\ TruncationIsTold'
  BY DEF IInv, RowsAnswerTheStatement, TruncationIsTold, TypeOK, Ask, Go
<1>. QED
  BY <1>1, <1>2, <1>3, <1>4 DEF IInv

LEMMA LoadSchemaKeeps ==
  ASSUME IInv, NEW c \in Call, LoadSchema(c)
  PROVE  IInv'
<1>. PICK tables \in SUBSET DOMAIN Tables[source[c]] :
       \/ /\ full' = [full EXCEPT ![c] = tables]
          /\ \/ Go(c, "load_schema", "prune") /\ IndexSchema(source[c], tables)
             \/ Go(c, "load_schema", "raised") /\ IndexSchemaRaises(tables)
       \/ Go(c, "load_schema", "raised") /\ UNCHANGED <<full, indexVars>>
  BY DEF LoadSchema
<1>. source[c] \in Datasource /\ tables \in SUBSET Table
  BY DatasourceAssumption DEF IInv, TypeOK, LoadSchema
<1>5. /\ client' \in BOOLEAN /\ collection' \in BOOLEAN
      /\ points' \subseteq Datasource \X Table
      /\ points' # {} => collection'
  <2>1. CASE UNCHANGED indexVars
    BY <2>1 DEF IInv, TypeOK, indexVars
  <2>2. CASE IndexSchema(source[c], tables) \/ IndexSchemaRaises(tables)
    BY <2>2, IndexFacts DEF IInv, TypeOK
  <2>. QED
    BY <2>1, <2>2
<1>1. TypeOK'
  BY <1>5 DEF IInv, TypeOK, LoadSchema, Go, indexVars, cacheVars, Before, Checked
<1>2. Reflected' /\ SchemaIsOwn' /\ Unwritten' /\ StatementsKnowTheirTables'
  BY DEF IInv, Reflected, SchemaIsOwn, Unwritten, StatementsKnowTheirTables, TypeOK, LoadSchema, Go, Before, Checked
<1>3. Filed' /\ Punctual'
  BY DEF IInv, Filed, Punctual, TypeOK, LoadSchema, Go, cacheVars
<1>4. RowsAnswerTheStatement' /\ TruncationIsTold'
  BY DEF IInv, RowsAnswerTheStatement, TruncationIsTold, TypeOK, LoadSchema, Go
<1>. QED
  BY <1>1, <1>2, <1>3, <1>4 DEF IInv

LEMMA PruneSchemaKeeps ==
  ASSUME IInv, NEW c \in Call, PruneSchema(c)
  PROVE  IInv'
<1>. PICK hits \in SUBSET points :
       /\ Search(hits) \/ SearchFails
       /\ schema' = [schema EXCEPT ![c] = Pruned(full[c], hits)]
  BY DEF PruneSchema
<1>. DEFINE x == Pruned(full[c], hits)
<1>a. /\ pc[c] = "prune" /\ pc' = [pc EXCEPT ![c] = "generate_sql"]
      /\ schema' = [schema EXCEPT ![c] = x]
      /\ UNCHANGED <<source, full, sql, decision, result, expiry, served, charts, now, store, stored>>
  BY DEF PruneSchema, Go, cacheVars
<1>b. source[c] \in Datasource /\ full[c] \in SUBSET Table
  BY <1>a DEF IInv, TypeOK
<1>c. /\ client' \in BOOLEAN /\ collection' \in BOOLEAN
      /\ points' \subseteq Datasource \X Table
      /\ points' # {} => collection'
  BY <1>b, IndexFacts DEF IInv, TypeOK
<1>d. x \subseteq full[c] /\ (x = {} => full[c] = {})
  BY PrunedFacts
<1>. HIDE DEF x
<1>1. TypeOK'
  BY <1>a, <1>b, <1>c, <1>d DEF IInv, TypeOK, Before, Checked
<1>2. Reflected' /\ SchemaIsOwn' /\ Unwritten' /\ StatementsKnowTheirTables'
  BY <1>a, <1>b, <1>d DEF IInv, Reflected, SchemaIsOwn, Unwritten, StatementsKnowTheirTables,
     TypeOK, Before, Checked
<1>3. Filed' /\ Punctual'
  BY <1>a DEF IInv, Filed, Punctual
<1>4. RowsAnswerTheStatement' /\ TruncationIsTold'
  BY <1>a DEF IInv, RowsAnswerTheStatement, TruncationIsTold, TypeOK
<1>. QED
  BY <1>1, <1>2, <1>3, <1>4 DEF IInv

LEMMA GenerateKeeps ==
  ASSUME IInv, NEW c \in Call, Generate(c)
  PROVE  IInv'
<1>a. CASE /\ Go(c, "generate_sql", "rejected")
             /\ UNCHANGED <<source, full, schema, sql, decision, result, expiry, served, charts,
                            indexVars, cacheVars>>
  <2>1. TypeOK'
    BY <1>a DEF IInv, TypeOK, Go, indexVars, cacheVars, Before, Checked
  <2>2. Reflected' /\ SchemaIsOwn' /\ Unwritten' /\ StatementsKnowTheirTables'
    BY <1>a DEF IInv, Reflected, SchemaIsOwn, Unwritten, StatementsKnowTheirTables,
       TypeOK, Go, Before, Checked
  <2>3. Filed' /\ Punctual' /\ RowsAnswerTheStatement' /\ TruncationIsTold'
    BY <1>a DEF IInv, Filed, Punctual, RowsAnswerTheStatement, TruncationIsTold, TypeOK, Go, cacheVars
  <2>. QED
    BY <2>1, <2>2, <2>3 DEF IInv
<1>b. ASSUME NEW s \in Statement, Valid(s, schema[c]), sql' = [sql EXCEPT ![c] = s],
             Go(c, "generate_sql", "execute"),
             UNCHANGED <<source, full, schema, decision, result, expiry, served, charts,
                         indexVars, cacheVars>>
      PROVE  IInv'
  <2>1. TypeOK'
    BY <1>b DEF IInv, TypeOK, Go, indexVars, cacheVars, Before, Checked
  <2>2. Reflected' /\ SchemaIsOwn' /\ Unwritten'
    BY <1>b DEF IInv, Reflected, SchemaIsOwn, Unwritten, TypeOK, Go, Before, Checked
  <2>3. StatementsKnowTheirTables'
    <3>1. /\ source[c] \in Datasource /\ pc[c] = "generate_sql"
          /\ schema[c] \subseteq DOMAIN Tables[source[c]]
          /\ schema[c] = {} => full[c] = {}
      BY <1>b DEF IInv, TypeOK, SchemaIsOwn, Go
    <3>2. /\ ~s.forbidden
          /\ s.key = "unparsed" \/ s.pieces = 1
          /\ \/ s.key = "unparsed"
             \/ full[c] = {}
             \/ s.refs \subseteq s.ctes \cup DOMAIN Tables[source[c]]
      BY <1>b, <3>1, ValidFacts
    <3>. QED
      BY <1>b, <3>2 DEF IInv, StatementsKnowTheirTables, TypeOK, Go, Checked
  <2>4. Filed' /\ Punctual' /\ RowsAnswerTheStatement' /\ TruncationIsTold'
    BY <1>b DEF IInv, Filed, Punctual, RowsAnswerTheStatement, TruncationIsTold, TypeOK, Go, cacheVars
  <2>. QED
    BY <2>1, <2>2, <2>3, <2>4 DEF IInv
<1>. QED
  BY <1>a, <1>b DEF Generate, Statement

LEMMA LookUpKeeps ==
  ASSUME IInv, NEW c \in Call, LookUp(c)
  PROVE  IInv'
<1>. DEFINE k == CacheKey(source[c], sql[c])
<1>. source[c] \in Datasource /\ sql[c] \in Statement /\ k \in Key
  BY KeyAssumption DEF IInv, TypeOK, LookUp, Go, Checked
<1>a. CASE Go(c, "execute", "estimate") /\ CacheMiss(k) /\ UNCHANGED <<served, result, decision>>
  <2>1. TypeOK'
    BY <1>a DEF LookUp, CacheMiss, IInv, TypeOK, Go, indexVars, Before, Checked
  <2>2. Reflected' /\ SchemaIsOwn' /\ Unwritten' /\ StatementsKnowTheirTables'
    BY <1>a DEF LookUp, IInv, Reflected, SchemaIsOwn, Unwritten, StatementsKnowTheirTables,
       TypeOK, Go, Before, Checked
  <2>3. Filed' /\ Punctual' /\ RowsAnswerTheStatement' /\ TruncationIsTold'
    BY <1>a DEF LookUp, CacheMiss, IInv, Filed, Punctual, RowsAnswerTheStatement, TruncationIsTold,
       TypeOK, Go
  <2>. QED
    BY <2>1, <2>2, <2>3 DEF IInv
<1>b. CASE /\ Go(c, "execute", "analyze")
             /\ CacheGet(k)
             /\ served' = [served EXCEPT ![c] = store[k].value]
             /\ result' = [result EXCEPT ![c] = store[k].value]
             /\ decision' = [decision EXCEPT ![c] = "none"]
  <2>. DEFINE v == store[k].value
  <2>1. store[k] \in stored /\ store[k].key = k
    BY <1>b DEF CacheGet, Hit, IInv, TypeOK, Filed
  <2>2. v \in Rows /\ Answers(v, k) /\ Told(v)
    BY <2>1 DEF IInv, TypeOK, EntryOver, Filed
  <2>3. /\ v.datasource = source[c] /\ v.statement.canonical = sql[c].canonical
        /\ v.limit = MaxRows[source[c]]
    BY <2>2 DEF Answers, CacheKey
  <2>. HIDE DEF v, k
  <2>4. /\ pc[c] = "execute" /\ pc' = [pc EXCEPT ![c] = "analyze"]
        /\ served' = [served EXCEPT ![c] = v] /\ result' = [result EXCEPT ![c] = v]
        /\ decision' = [decision EXCEPT ![c] = "none"]
        /\ UNCHANGED <<source, full, schema, sql, expiry, charts, client, collection, points,
                       now, store, stored>>
    BY <1>b DEF v, k, LookUp, Go, CacheGet, indexVars, cacheVars
  <2>5. TypeOK'
    BY <2>2, <2>4 DEF IInv, TypeOK, Before, Checked
  <2>6. Reflected' /\ SchemaIsOwn' /\ Unwritten' /\ StatementsKnowTheirTables'
    BY <2>4 DEF IInv, Reflected, SchemaIsOwn, Unwritten, StatementsKnowTheirTables,
       TypeOK, Before, Checked
  <2>7. Filed' /\ Punctual'
    BY <2>4 DEF IInv, Filed, Punctual
  <2>8. RowsAnswerTheStatement'
    BY <2>3, <2>4 DEF IInv, RowsAnswerTheStatement, TypeOK
  <2>9. TruncationIsTold'
    BY <2>2, <2>4 DEF IInv, TruncationIsTold, TypeOK, Told
  <2>. QED
    BY <2>5, <2>6, <2>7, <2>8, <2>9 DEF IInv
<1>. QED
  BY <1>a, <1>b DEF LookUp

LEMMA EstimateKeeps ==
  ASSUME IInv, NEW c \in Call, Estimate(c)
  PROVE  IInv'
<1>1. TypeOK'
  BY DEF IInv, TypeOK, Estimate, Go, indexVars, cacheVars, Before, Checked
<1>2. Reflected' /\ SchemaIsOwn' /\ Unwritten' /\ StatementsKnowTheirTables'
  BY DEF IInv, Reflected, SchemaIsOwn, Unwritten, StatementsKnowTheirTables, TypeOK, Estimate, Go, Before, Checked
<1>3. Filed' /\ Punctual'
  BY DEF IInv, Filed, Punctual, TypeOK, Estimate, Go, cacheVars
<1>4. RowsAnswerTheStatement' /\ TruncationIsTold'
  BY DEF IInv, RowsAnswerTheStatement, TruncationIsTold, TypeOK, Estimate, Go
<1>. QED
  BY <1>1, <1>2, <1>3, <1>4 DEF IInv

LEMMA DecideKeeps ==
  ASSUME IInv, NEW c \in Call, NEW choice \in {"approve", "decline"}, Decide(c, choice)
  PROVE  IInv'
<1>1. TypeOK'
  BY DEF IInv, TypeOK, Decide, Go, indexVars, cacheVars, Before, Checked
<1>2. Reflected' /\ SchemaIsOwn' /\ Unwritten' /\ StatementsKnowTheirTables'
  BY DEF IInv, Reflected, SchemaIsOwn, Unwritten, StatementsKnowTheirTables, TypeOK, Decide, Go, Before, Checked
<1>3. Filed' /\ Punctual'
  BY DEF IInv, Filed, Punctual, TypeOK, Decide, Go, cacheVars
<1>4. RowsAnswerTheStatement' /\ TruncationIsTold'
  BY DEF IInv, RowsAnswerTheStatement, TruncationIsTold, TypeOK, Decide, Go
<1>. QED
  BY <1>1, <1>2, <1>3, <1>4 DEF IInv

LEMMA RunKeeps ==
  ASSUME IInv, NEW c \in Call, Run(c)
  PROVE  IInv'
<1>. source[c] \in Datasource /\ sql[c] \in Statement /\ MaxRows[source[c]] \in Nat
  BY MaxRowsNat DEF IInv, TypeOK, Run, Go, Checked
<1>a. CASE Go(c, "run", "failed") /\ UNCHANGED result
  <2>1. TypeOK'
    BY <1>a DEF Run, IInv, TypeOK, Go, indexVars, cacheVars, Before, Checked
  <2>2. Reflected' /\ SchemaIsOwn' /\ Unwritten' /\ StatementsKnowTheirTables'
    BY <1>a DEF Run, IInv, Reflected, SchemaIsOwn, Unwritten, StatementsKnowTheirTables,
       TypeOK, Go, Before, Checked
  <2>3. Filed' /\ Punctual' /\ RowsAnswerTheStatement' /\ TruncationIsTold'
    BY <1>a DEF Run, IInv, Filed, Punctual, RowsAnswerTheStatement, TruncationIsTold,
       TypeOK, Go, cacheVars
  <2>. QED
    BY <2>1, <2>2, <2>3 DEF IInv
<1>b. ASSUME NEW n \in Count, Go(c, "run", IF Backend = "none" THEN "analyze" ELSE "put"),
             result' = [result EXCEPT ![c] = RowsOf(source[c], sql[c], MaxRows[source[c]], n)]
      PROVE  IInv'
  <2>. DEFINE v == RowsOf(source[c], sql[c], MaxRows[source[c]], n)
  <2>1. /\ v \in Rows /\ Told(v)
        /\ v.datasource = source[c] /\ v.statement = sql[c] /\ v.limit = MaxRows[source[c]]
    BY RowsOfFacts
  <2>2. /\ pc[c] = "run" /\ \E x \in {"analyze", "put"} : pc' = [pc EXCEPT ![c] = x]
        /\ result' = [result EXCEPT ![c] = v]
        /\ UNCHANGED <<source, full, schema, sql, decision, expiry, served, charts,
                       client, collection, points, now, store, stored>>
    BY <1>b DEF Run, Go, indexVars, cacheVars
  <2>. HIDE DEF v
  <2>3. TypeOK'
    BY <2>1, <2>2 DEF IInv, TypeOK, Before, Checked
  <2>4. Reflected' /\ SchemaIsOwn' /\ Unwritten' /\ StatementsKnowTheirTables'
    BY <2>2 DEF IInv, Reflected, SchemaIsOwn, Unwritten, StatementsKnowTheirTables,
       TypeOK, Before, Checked
  <2>5. Filed' /\ Punctual'
    BY <2>2 DEF IInv, Filed, Punctual
  <2>6. RowsAnswerTheStatement'
    BY <2>1, <2>2 DEF IInv, RowsAnswerTheStatement, TypeOK
  <2>7. TruncationIsTold'
    BY <2>1, <2>2 DEF IInv, TruncationIsTold, TypeOK, Told
  <2>. QED
    BY <2>3, <2>4, <2>5, <2>6, <2>7 DEF IInv
<1>. QED
  BY <1>a, <1>b DEF Run

LEMMA PutKeeps ==
  ASSUME IInv, NEW c \in Call, Put(c)
  PROVE  IInv'
<1>a. /\ pc[c] = "put" /\ pc' = [pc EXCEPT ![c] = "set"]
      /\ expiry' = [expiry EXCEPT ![c] = now + Ttl]
      /\ UNCHANGED <<source, full, schema, sql, decision, result, served, charts,
                     client, collection, points, now, store, stored>>
  BY DEF Put, Go, Expiry, indexVars, cacheVars
<1>1. TypeOK'
  BY <1>a, CacheAssumption DEF IInv, TypeOK, Before, Checked
<1>2. Reflected' /\ SchemaIsOwn' /\ Unwritten' /\ StatementsKnowTheirTables'
  BY <1>a DEF IInv, Reflected, SchemaIsOwn, Unwritten, StatementsKnowTheirTables,
     TypeOK, Before, Checked
<1>3. Filed'
  BY <1>a DEF IInv, Filed
<1>4. Punctual'
  BY <1>a, CacheAssumption DEF IInv, Punctual, TypeOK
<1>5. RowsAnswerTheStatement' /\ TruncationIsTold'
  BY <1>a DEF IInv, RowsAnswerTheStatement, TruncationIsTold, TypeOK
<1>. QED
  BY <1>1, <1>2, <1>3, <1>4, <1>5 DEF IInv

LEMMA SetKeeps ==
  ASSUME IInv, NEW c \in Call, Set(c)
  PROVE  IInv'
<1>. DEFINE k == CacheKey(source[c], sql[c])
             e == Entry(k, result[c], expiry[c])
<1>1. /\ source[c] \in Datasource /\ sql[c] \in Statement /\ result[c] \in Rows
      /\ expiry[c] \in Nat /\ k \in Key
  BY KeyAssumption DEF IInv, TypeOK, Set, Go, Checked
<1>2. e.key = k /\ e.value = result[c] /\ e \in EntryOver(Rows)
  BY <1>1 DEF Entry, EntryOver
<1>3. Answers(result[c], k) /\ Told(result[c])
  BY <1>1, NothingAssumption
     DEF IInv, RowsAnswerTheStatement, TruncationIsTold, Set, Go, Answers, Told, CacheKey
<1>4. /\ pc[c] = "set" /\ pc' = [pc EXCEPT ![c] = "analyze"]
      /\ expiry' = [expiry EXCEPT ![c] = 0]
      /\ UNCHANGED <<source, full, schema, sql, decision, result, served, charts,
                     client, collection, points, now>>
      /\ \/ store' = [store EXCEPT ![k] = e] /\ stored' = stored \cup {e}
         \/ UNCHANGED <<store, stored>>
  BY DEF Set, Go, CacheSet, indexVars, cacheVars
<1>. HIDE DEF k, e
<1>5. stored' \subseteq EntryOver(Rows) /\ store' \in [Key -> stored' \cup {None}]
  BY <1>1, <1>2, <1>4 DEF IInv, TypeOK
<1>6. TypeOK'
  BY <1>4, <1>5 DEF IInv, TypeOK, Before, Checked
<1>7. Reflected' /\ SchemaIsOwn' /\ Unwritten' /\ StatementsKnowTheirTables'
  BY <1>4 DEF IInv, Reflected, SchemaIsOwn, Unwritten, StatementsKnowTheirTables,
     TypeOK, Before, Checked
<1>8. Filed'
  BY <1>1, <1>2, <1>3, <1>4 DEF IInv, TypeOK, Filed
<1>9. Punctual'
  BY <1>4, CacheAssumption DEF IInv, Punctual, TypeOK
<1>10. RowsAnswerTheStatement' /\ TruncationIsTold'
  BY <1>4 DEF IInv, RowsAnswerTheStatement, TruncationIsTold, TypeOK
<1>. QED
  BY <1>6, <1>7, <1>8, <1>9, <1>10 DEF IInv

LEMMA AnalyzeKeeps ==
  ASSUME IInv, NEW c \in Call, Analyze(c)
  PROVE  IInv'
<1>1. TypeOK'
  BY DEF IInv, TypeOK, Analyze, Go, indexVars, cacheVars, Before, Checked
<1>2. Reflected' /\ SchemaIsOwn' /\ Unwritten' /\ StatementsKnowTheirTables'
  BY DEF IInv, Reflected, SchemaIsOwn, Unwritten, StatementsKnowTheirTables, TypeOK, Analyze, Go, Before, Checked
<1>3. Filed' /\ Punctual'
  BY DEF IInv, Filed, Punctual, TypeOK, Analyze, Go, cacheVars
<1>4. RowsAnswerTheStatement' /\ TruncationIsTold'
  BY DEF IInv, RowsAnswerTheStatement, TruncationIsTold, TypeOK, Analyze, Go
<1>. QED
  BY <1>1, <1>2, <1>3, <1>4 DEF IInv

LEMMA CallToolKeeps ==
  ASSUME IInv, NEW c \in Call, NEW d \in Datasource, CallTool(c, d)
  PROVE  IInv'
<1>. PICK tables \in SUBSET DOMAIN Tables[d], o \in Output :
       /\ full' = [full EXCEPT ![c] = tables]
       /\ schema' = [schema EXCEPT ![c] = tables]
       /\ IF Extracted(o) /\ Valid(o.statement, tables)
          THEN /\ sql' = [sql EXCEPT ![c] = o.statement]
               /\ \/ /\ \E n \in Count, limit \in ToolRows :
                          result' = [result EXCEPT ![c] = RowsOf(d, o.statement, ToolLimit(limit), n)]
                     /\ Go(c, "new", "told")
                  \/ Go(c, "new", "failed") /\ UNCHANGED result
          ELSE Go(c, "new", "rejected") /\ UNCHANGED <<sql, result>>
  BY DEF CallTool
<1>. DEFINE s == o.statement
<1>1. /\ pc[c] = "new" /\ s \in Statement /\ tables \in SUBSET Table
  BY DatasourceAssumption DEF CallTool, Statement
<1>2. /\ source' = [source EXCEPT ![c] = d]
      /\ full' = [full EXCEPT ![c] = tables] /\ schema' = [schema EXCEPT ![c] = tables]
      /\ UNCHANGED <<decision, expiry, served, charts, client, collection, points, now, store, stored>>
  BY DEF CallTool, indexVars, cacheVars
<1>3. \/ pc' = [pc EXCEPT ![c] = "rejected"] /\ UNCHANGED <<sql, result>>
      \/ /\ Valid(s, tables) /\ sql' = [sql EXCEPT ![c] = s]
         /\ \/ pc' = [pc EXCEPT ![c] = "failed"] /\ UNCHANGED result
            \/ /\ pc' = [pc EXCEPT ![c] = "told"]
               /\ \E v \in Rows : Told(v) /\ result' = [result EXCEPT ![c] = v]
  <2>1. ASSUME NEW n \in Count, NEW limit \in ToolRows
        PROVE  /\ RowsOf(d, s, ToolLimit(limit), n) \in Rows
               /\ Told(RowsOf(d, s, ToolLimit(limit), n))
    <3>1. ToolLimit(limit) \in Nat
      BY CountAssumption DEF ToolLimit, Smaller
    <3>. QED
      BY <1>1, <3>1, RowsOfFacts
  <2>. QED
    BY <2>1 DEF Go
<1>4. Valid(s, tables) =>
        /\ ~s.forbidden
        /\ s.key = "unparsed" \/ s.pieces = 1
        /\ s.key = "unparsed" \/ tables = {} \/ s.refs \subseteq s.ctes \cup tables
  BY <1>1, ValidFacts
<1>. HIDE DEF s
<1>5. TypeOK'
  BY <1>1, <1>2, <1>3 DEF IInv, TypeOK, Before, Checked
<1>6. Reflected' /\ SchemaIsOwn' /\ Unwritten'
  BY <1>1, <1>2, <1>3 DEF IInv, Reflected, SchemaIsOwn, Unwritten, TypeOK, Before, Checked
<1>7. StatementsKnowTheirTables'
  <2>1. Valid(s, tables) =>
          /\ ~s.forbidden
          /\ s.key = "unparsed" \/ s.pieces = 1
          /\ \/ s.key = "unparsed"
             \/ tables = {}
             \/ s.refs \subseteq s.ctes \cup DOMAIN Tables[d]
    BY <1>4
  <2>. QED
    BY <1>1, <1>2, <1>3, <2>1 DEF IInv, StatementsKnowTheirTables, TypeOK, Checked
<1>8. Filed' /\ Punctual'
  BY <1>2 DEF IInv, Filed, Punctual
<1>9. RowsAnswerTheStatement'
  BY <1>1, <1>2, <1>3 DEF IInv, RowsAnswerTheStatement, TypeOK
<1>10. TruncationIsTold'
  BY <1>1, <1>2, <1>3 DEF IInv, TruncationIsTold, TypeOK, Told
<1>. QED
  BY <1>5, <1>6, <1>7, <1>8, <1>9, <1>10 DEF IInv

LEMMA CacheForgetsKeeps ==
  ASSUME IInv, CacheForgets, UNCHANGED <<callVars, indexVars>>
  PROVE  IInv'
<1>1. PICK ks : store' = [k \in Key |-> IF k \in ks THEN None ELSE store[k]]
  BY DEF CacheForgets
<1>2. TypeOK'
  BY <1>1 DEF IInv, TypeOK, CacheForgets, callVars, indexVars, Before, Checked
<1>3. Reflected' /\ SchemaIsOwn' /\ Unwritten' /\ StatementsKnowTheirTables'
  BY DEF IInv, Reflected, SchemaIsOwn, Unwritten, StatementsKnowTheirTables, callVars
<1>4. Filed'
  BY <1>1 DEF IInv, Filed, CacheForgets
<1>5. Punctual' /\ RowsAnswerTheStatement' /\ TruncationIsTold'
  BY DEF IInv, Punctual, RowsAnswerTheStatement, TruncationIsTold, CacheForgets, callVars
<1>. QED
  BY <1>2, <1>3, <1>4, <1>5 DEF IInv

LEMMA TickKeeps ==
  ASSUME IInv, Tick, UNCHANGED <<callVars, indexVars>>
  PROVE  IInv'
<1>1. TypeOK'
  BY DEF IInv, TypeOK, Tick, callVars, indexVars, Before, Checked
<1>2. Reflected' /\ SchemaIsOwn' /\ Unwritten' /\ StatementsKnowTheirTables'
  BY DEF IInv, Reflected, SchemaIsOwn, Unwritten, StatementsKnowTheirTables, callVars
<1>3. Filed' /\ RowsAnswerTheStatement' /\ TruncationIsTold'
  BY DEF IInv, Filed, RowsAnswerTheStatement, TruncationIsTold, Tick, callVars
<1>4. Punctual'
  BY CacheAssumption DEF IInv, Punctual, TypeOK, Tick, callVars
<1>. QED
  BY <1>1, <1>2, <1>3, <1>4 DEF IInv

LEMMA StutterKeeps ==
  ASSUME IInv, UNCHANGED vars
  PROVE  IInv'
<1>1. TypeOK'
  BY DEF IInv, TypeOK, vars, callVars, indexVars, cacheVars
<1>2. Reflected' /\ SchemaIsOwn' /\ Unwritten' /\ StatementsKnowTheirTables'
  BY DEF IInv, Reflected, SchemaIsOwn, Unwritten, StatementsKnowTheirTables, vars, callVars
<1>3. Filed' /\ Punctual' /\ RowsAnswerTheStatement' /\ TruncationIsTold'
  BY DEF IInv, Filed, Punctual, RowsAnswerTheStatement, TruncationIsTold, vars, callVars, cacheVars
<1>. QED
  BY <1>1, <1>2, <1>3 DEF IInv

LEMMA InitIInv == Init => IInv
<1>. SUFFICES ASSUME Init PROVE IInv
  OBVIOUS
<1>1. TypeOK
  <2>1. points \subseteq Datasource \X Table /\ (points # {} => collection)
    BY LeftAssumption DEF Init, IndexInit
  <2>. QED
    BY <2>1, InheritedFacts, CacheAssumption
       DEF Init, IndexInit, CacheInit, TypeOK, Before, Checked
<1>2. Reflected /\ SchemaIsOwn /\ Unwritten /\ StatementsKnowTheirTables
  BY DEF Init, Reflected, SchemaIsOwn, Unwritten, StatementsKnowTheirTables, Checked
<1>3. Filed /\ Punctual /\ RowsAnswerTheStatement /\ TruncationIsTold
  BY CacheAssumption, InheritedFacts
     DEF Init, CacheInit, Filed, Punctual, RowsAnswerTheStatement, TruncationIsTold
<1>. QED
  BY <1>1, <1>2, <1>3 DEF IInv

LEMMA NextIInv == IInv /\ [Next]_vars => IInv'
<1>. SUFFICES ASSUME IInv, [Next]_vars PROVE IInv'
  OBVIOUS
<1>1. ASSUME NEW c \in Call, NEW d \in Datasource, Ask(c, d) \/ CallTool(c, d) PROVE IInv'
  BY <1>1, AskKeeps, CallToolKeeps
<1>2. ASSUME NEW c \in Call, LoadSchema(c) \/ PruneSchema(c) \/ Generate(c) PROVE IInv'
  BY <1>2, LoadSchemaKeeps, PruneSchemaKeeps, GenerateKeeps
<1>3. ASSUME NEW c \in Call, LookUp(c) \/ Estimate(c) PROVE IInv'
  BY <1>3, LookUpKeeps, EstimateKeeps
<1>4. ASSUME NEW c \in Call, NEW choice \in {"approve", "decline"}, Decide(c, choice) PROVE IInv'
  BY <1>4, DecideKeeps
<1>5. ASSUME NEW c \in Call, Run(c) \/ Put(c) \/ Set(c) \/ Analyze(c) PROVE IInv'
  BY <1>5, RunKeeps, PutKeeps, SetKeeps, AnalyzeKeeps
<1>6. CASE (CacheForgets \/ Tick) /\ UNCHANGED <<callVars, indexVars>>
  BY <1>6, CacheForgetsKeeps, TickKeeps
<1>7. CASE UNCHANGED vars
  BY <1>7, StutterKeeps
<1>. QED
  BY <1>1, <1>2, <1>3, <1>4, <1>5, <1>6, <1>7 DEF Next

\* What a call is given and what the cache holds stay consistent.
THEOREM PathInvariance == Spec => []IInv
BY InitIInv, NextIInv, PTL DEF Spec

\* The state of the path of a statement has its types.
THEOREM TypeCorrectness == Spec => []TypeOK
BY PathInvariance, PTL DEF IInv

\* The schema of a question is its datasource's own, whatever the shared index finds.
THEOREM OwnSchema == Spec => []SchemaIsOwn
BY PathInvariance, PTL DEF IInv

\* What passed the validator is one harmless statement on known tables.
THEOREM KnownTables == Spec => []StatementsKnowTheirTables
BY PathInvariance, PTL DEF IInv

\* The rows of an answer are those of its statement, from the cache or not.
THEOREM OwnRows == Spec => []RowsAnswerTheStatement
BY PathInvariance, PTL DEF IInv

\* Truncation is told exactly, also of cached rows.
THEOREM ToldTruncation == Spec => []TruncationIsTold
BY PathInvariance, PTL DEF IInv

-----------------------------------------------------------------------------
(***************************************************************************)
(* The result cache keeps its promise.                                     *)
(***************************************************************************)
promised == <<now, stored, Wanted, served>>

\* A step that leaves statements, rows given and the cache alone.
LEMMA PromiseStutter ==
  ASSUME IInv, UNCHANGED <<now, stored, served, sql>>,
         \A c \in Call : sql[c] # None => source'[c] = source[c]
  PROVE  UNCHANGED promised
<1>1. Wanted' = Wanted
  BY DEF Wanted, CacheKey
<1>. QED
  BY <1>1 DEF promised

\* A statement that passes the validator is what its call wants rows of.
LEMMA PromiseWant ==
  ASSUME IInv, NEW c \in Call, sql[c] = None, NEW s \in Statement,
         sql' = [sql EXCEPT ![c] = s], source'[c] \in Datasource,
         \A b \in Call \ {c} : source'[b] = source[b],
         UNCHANGED <<now, stored, served>>
  PROVE  Promise!Next
<1>. DEFINE k == CacheKey(source'[c], s)
<1>1. k \in Key
  BY KeyAssumption
<1>2. /\ sql'[c] = s /\ s # None
      /\ \A b \in Call \ {c} : sql'[b] = sql[b]
  BY NothingAssumption DEF IInv, TypeOK
<1>3. Wanted[c] = None /\ Wanted' = [Wanted EXCEPT ![c] = k]
  BY <1>2 DEF Wanted, CacheKey
<1>. HIDE DEF k
<1>4. Promise!Want(c, k)
  BY <1>3 DEF Promise!Want
<1>. QED
  BY <1>1, <1>4 DEF Promise!Next

LEMMA InitPromise == Init => Promise!Init
<1>. SUFFICES ASSUME Init PROVE Promise!Init
  OBVIOUS
<1>1. stored \subseteq [key: Key, value: Rows, expires: 0..(now + Ttl)]
  <2>1. ASSUME NEW e \in stored PROVE e \in [key: Key, value: Rows, expires: 0..(now + Ttl)]
    BY InheritedFacts, CacheAssumption DEF Init, CacheInit
  <2>. QED
    BY <2>1
<1>. QED
  BY <1>1, CacheAssumption DEF Init, CacheInit, Promise!Init, Wanted

LEMMA NextPromise == IInv /\ [Next]_vars => [Promise!Next]_promised
<1>. SUFFICES ASSUME IInv, [Next]_vars PROVE Promise!Next \/ UNCHANGED promised
  OBVIOUS
<1>1. ASSUME NEW c \in Call, NEW d \in Datasource, Ask(c, d) PROVE UNCHANGED promised
  <2>1. pc[c] = "new" /\ sql[c] = None
    BY <1>1 DEF Ask, Go, IInv, Unwritten, Before
  <2>. QED
    BY <1>1, <2>1, PromiseStutter DEF Ask, IInv, TypeOK, cacheVars
<1>2. ASSUME NEW c \in Call, NEW d \in Datasource, CallTool(c, d)
      PROVE  Promise!Next \/ UNCHANGED promised
  <2>1. pc[c] = "new" /\ sql[c] = None
    BY <1>2 DEF CallTool, IInv, Unwritten, Before
  <2>2. /\ UNCHANGED <<now, stored, served>> /\ source' = [source EXCEPT ![c] = d]
        /\ source'[c] = d /\ \A b \in Call \ {c} : source'[b] = source[b]
    BY <1>2 DEF CallTool, cacheVars, IInv, TypeOK
  <2>3. CASE UNCHANGED sql
    BY <2>1, <2>2, <2>3, PromiseStutter
  <2>4. ASSUME NEW s \in Statement, sql' = [sql EXCEPT ![c] = s] PROVE Promise!Next
    BY <2>1, <2>2, <2>4, PromiseWant
  <2>. QED
    BY <1>2, <2>3, <2>4 DEF CallTool, Statement
<1>3. ASSUME NEW c \in Call, Generate(c) PROVE Promise!Next \/ UNCHANGED promised
  <2>1. pc[c] = "generate_sql" /\ sql[c] = None /\ source[c] \in Datasource
    BY <1>3 DEF Generate, IInv, TypeOK, Unwritten, Before
  <2>2. UNCHANGED <<now, stored, served, source>>
    BY <1>3 DEF Generate, cacheVars
  <2>3. CASE UNCHANGED sql
    BY <2>2, <2>3, PromiseStutter
  <2>4. ASSUME NEW s \in Statement, sql' = [sql EXCEPT ![c] = s] PROVE Promise!Next
    BY <2>1, <2>2, <2>4, PromiseWant
  <2>. QED
    BY <1>3, <2>3, <2>4 DEF Generate, Statement
<1>4. ASSUME NEW c \in Call, LookUp(c) PROVE Promise!Next \/ UNCHANGED promised
  <2>. DEFINE k == CacheKey(source[c], sql[c])
  <2>1. sql[c] \in Statement /\ k \in Key /\ Wanted[c] = k /\ UNCHANGED <<sql, source>>
    BY <1>4, KeyAssumption, NothingAssumption DEF LookUp, Go, IInv, TypeOK, Checked, Wanted
  <2>2. CASE CacheMiss(k) /\ UNCHANGED served
    BY <2>1, <2>2, PromiseStutter DEF CacheMiss
  <2>3. CASE CacheGet(k) /\ served' = [served EXCEPT ![c] = store[k].value]
    <3>1. store[k] \in stored /\ store[k].key = k
      BY <2>1, <2>3 DEF CacheGet, Hit, IInv, TypeOK, Filed
    <3>2. now < store[k].expires
      BY <2>3, <3>1 DEF CacheGet, Hit, Expired, IInv, TypeOK, EntryOver
    <3>3. UNCHANGED <<now, stored>> /\ Wanted' = Wanted
      BY <2>1, <2>3 DEF CacheGet, cacheVars, Wanted, CacheKey
    <3>4. Promise!Find(c)
      BY <2>1, <2>3, <3>1, <3>2, <3>3 DEF Promise!Find
    <3>. QED
      BY <3>4 DEF Promise!Next
  <2>. QED
    BY <1>4, <2>2, <2>3 DEF LookUp
<1>5. ASSUME NEW c \in Call, Set(c) PROVE Promise!Next \/ UNCHANGED promised
  <2>. DEFINE k == CacheKey(source[c], sql[c])
              e == Entry(k, result[c], expiry[c])
  <2>1. k \in Key /\ result[c] \in Rows /\ expiry[c] \in 0..(now + Ttl)
    BY <1>5, KeyAssumption, CacheAssumption DEF Set, Go, IInv, TypeOK, Punctual, Checked
  <2>2. e \in [key: Key, value: Rows, expires: 0..(now + Ttl)]
    BY <2>1 DEF Entry
  <2>3. UNCHANGED <<now, sql, source, served>>
        /\ (stored' = stored \cup {e} \/ UNCHANGED stored)
    BY <1>5 DEF Set, CacheSet, cacheVars
  <2>. HIDE DEF e
  <2>4. CASE stored' = stored \cup {e}
    <3>1. Wanted' = Wanted
      BY <2>3 DEF Wanted, CacheKey
    <3>2. Promise!Offer
      BY <2>2, <2>3, <2>4, <3>1 DEF Promise!Offer
    <3>. QED
      BY <3>2 DEF Promise!Next
  <2>. QED
    BY <2>3, <2>4, PromiseStutter
<1>6. ASSUME NEW c \in Call, NEW choice \in {"approve", "decline"},
             \/ LoadSchema(c) \/ PruneSchema(c) \/ Estimate(c) \/ Decide(c, choice)
             \/ Run(c) \/ Put(c) \/ Analyze(c)
      PROVE  UNCHANGED promised
  <2>1. UNCHANGED <<now, stored, served, sql, source>>
    BY <1>6 DEF LoadSchema, PruneSchema, Estimate, Decide, Run, Put, Analyze, cacheVars
  <2>. QED
    BY <2>1, PromiseStutter
<1>7. ASSUME CacheForgets, UNCHANGED <<callVars, indexVars>> PROVE UNCHANGED promised
  BY <1>7, PromiseStutter DEF CacheForgets, callVars
<1>8. ASSUME Tick, UNCHANGED <<callVars, indexVars>> PROVE Promise!Next
  <2>1. now' > now /\ Wanted' = Wanted /\ UNCHANGED <<stored, served>>
    BY <1>8 DEF Tick, callVars, Wanted, CacheKey, IInv, TypeOK
  <2>. QED
    BY <2>1 DEF Promise!Next, Promise!Pass
<1>9. CASE UNCHANGED vars
  BY <1>9, PromiseStutter DEF vars, callVars, cacheVars
<1>. QED
  BY <1>1, <1>2, <1>3, <1>4, <1>5, <1>6, <1>7, <1>8, <1>9 DEF Next

\* What the cache serves was stored under the key of the call that is served, and
\* has not expired, however calls and time interleave.
THEOREM CachePromiseKept == Spec => KeepsCachePromise
<1>1. IInv /\ [Next]_vars => [Promise!Next]_<<now, stored, Wanted, served>>
  BY NextPromise DEF promised
<1>. QED
  BY <1>1, InitPromise, PathInvariance, PTL DEF Spec, KeepsCachePromise, Promise!Spec

-----------------------------------------------------------------------------
(***************************************************************************)
(* The charts.                                                             *)
(***************************************************************************)
LEMMA MinFacts ==
  ASSUME NEW S \in SUBSET Nat, S # {}
  PROVE  Min(S) \in S
<1>. DEFINE R == OpToRel(<, Nat)
<1>1. IsWellFoundedOn(R, Nat)
  BY NatLessThanWellFounded, Zenon
<1>2. \A m, n \in Nat : m < n => <<m, n>> \in R
  BY DEF OpToRel
<1>. HIDE DEF R
<1>3. PICK x \in S : \A y \in S : ~(<<y, x>> \in R)
  BY <1>1, WFMin
<1>4. ASSUME NEW y \in S PROVE x <= y
  <2>1. x \in Nat /\ y \in Nat
    OBVIOUS
  <2>2. ~(y < x)
    BY <1>2, <1>3, <2>1, Zenon
  <2>. QED
    BY <2>1, <2>2
<1>. QED
  BY <1>4 DEF Min

ChartSpec == [type: {"line", "bar", "pie", "table"}, x: Nat, y: Nat]

\* The charts specs, without the table, are of a measure over something else.
Drawn(specs, columns, rows) ==
    /\ specs \in Seq(ChartSpec) /\ Len(specs) <= MaxCharts
    /\ \A i \in 1..Len(specs) :
          /\ specs[i].type # "table"
          /\ columns[specs[i].y] = "integer" /\ columns[specs[i].x] # "integer"
          /\ specs[i].type = "pie" => rows <= PieRows

LEMMA AddFacts ==
  ASSUME NEW columns, NEW rows \in Nat, NEW specs, Drawn(specs, columns, rows),
         NEW wanted \in BOOLEAN, NEW type \in {"line", "bar", "pie"}, NEW x \in Nat, NEW y \in Nat,
         wanted => /\ columns[y] = "integer" /\ columns[x] # "integer"
                   /\ type = "pie" => rows <= PieRows
  PROVE  Drawn(Add(specs, wanted, Chart(type, x, y)), columns, rows)
<1>. DEFINE chart == Chart(type, x, y)
<1>1. CASE wanted /\ RoomFor(specs)
  <2>1. chart \in ChartSpec /\ chart.type = type /\ chart.x = x /\ chart.y = y
    BY DEF Chart, ChartSpec
  <2>. HIDE DEF chart
  <2>2. /\ specs \in Seq(ChartSpec) /\ Len(specs) \in Nat /\ Len(specs) < MaxCharts
        /\ Add(specs, wanted, chart) = Append(specs, chart)
    BY <1>1 DEF Drawn, RoomFor, Add
  <2>3. /\ Append(specs, chart) \in Seq(ChartSpec)
        /\ Len(Append(specs, chart)) = Len(specs) + 1
        /\ Append(specs, chart)[Len(specs) + 1] = chart
        /\ \A i \in 1..Len(specs) : Append(specs, chart)[i] = specs[i]
    BY <2>1, <2>2
  <2>4. ASSUME NEW i \in 1..(Len(specs) + 1)
        PROVE  /\ Append(specs, chart)[i].type # "table"
               /\ columns[Append(specs, chart)[i].y] = "integer"
               /\ columns[Append(specs, chart)[i].x] # "integer"
               /\ Append(specs, chart)[i].type = "pie" => rows <= PieRows
    <3>1. CASE i = Len(specs) + 1
      BY <1>1, <2>1, <2>3, <3>1
    <3>2. CASE i \in 1..Len(specs)
      BY <2>3, <3>2 DEF Drawn
    <3>. QED
      BY <2>2, <3>1, <3>2
  <2>5. Drawn(Append(specs, chart), columns, rows)
    BY <2>2, <2>3, <2>4 DEF Drawn, MaxCharts
  <2>. QED
    BY <2>2, <2>5 DEF chart
<1>2. CASE ~(wanted /\ RoomFor(specs))
  BY <1>2 DEF Add
<1>. QED
  BY <1>1, <1>2

LEMMA RecommendFacts ==
  ASSUME NEW columns \in Seq(Type), NEW rows \in Nat
  PROVE  LET specs == Recommend(columns, rows)
             n == Len(specs)
         IN /\ specs \in Seq(ChartSpec)
            /\ n = 0 <=> (rows = 0 \/ columns = <<>>)
            /\ n <= MaxCharts + 1
            /\ \A i \in 1..n :
                 /\ specs[i].type = "table" <=> i = n
                 /\ i < n => columns[specs[i].y] = "integer" /\ columns[specs[i].x] # "integer"
                 /\ specs[i].type = "pie" => rows <= PieRows
<1>. DEFINE kinds == [i \in DOMAIN columns |-> Sanitized(columns[i])]
             First(kind) == IF Columns(kinds, kind) = {} THEN 0 ELSE Min(Columns(kinds, kind))
             number == First("number")
             day == First("date")
             word == First("word")
             measured == word # 0 /\ number # 0
             line == Add(<<>>, day # 0 /\ number # 0, Chart("line", day, number))
             bar == Add(line, measured, Chart("bar", word, number))
             pie == Add(bar, measured /\ rows <= PieRows, Chart("pie", word, number))
             table == Chart("table", 0, 0)
<1>1. ASSUME NEW kind \in {"number", "date", "word"}
      PROVE  /\ First(kind) \in Nat
             /\ First(kind) # 0 => /\ First(kind) \in DOMAIN columns
                                    /\ Sanitized(columns[First(kind)]) = kind
  <2>1. Columns(kinds, kind) \in SUBSET Nat /\ 0 \notin Columns(kinds, kind)
        /\ \A i \in Columns(kinds, kind) : i \in DOMAIN columns /\ Sanitized(columns[i]) = kind
    BY DEF Columns
  <2>. QED
    BY <2>1, MinFacts
<1>2. /\ number \in Nat /\ day \in Nat /\ word \in Nat
      /\ number # 0 => columns[number] = "integer"
      /\ day # 0 => columns[day] # "integer"
      /\ word # 0 => columns[word] # "integer"
  <2>1. \A x : Sanitized(x) = "number" <=> x = "integer"
    BY DEF Sanitized
  <2>. HIDE DEF First
  <2>. QED
    BY <1>1, <2>1
<1>. HIDE DEF number, day, word
<1>3. Drawn(<<>>, columns, rows)
  BY DEF Drawn, MaxCharts
<1>4. Drawn(line, columns, rows)
  BY <1>2, <1>3, AddFacts
<1>. HIDE DEF line
<1>5. Drawn(bar, columns, rows)
  BY <1>2, <1>4, AddFacts
<1>. HIDE DEF bar
<1>6. Drawn(pie, columns, rows)
  BY <1>2, <1>5, AddFacts
<1>7. Recommend(columns, rows)
        = IF rows = 0 \/ columns = <<>> THEN <<>> ELSE Append(pie, table)
  BY DEF Recommend, number, day, word, line, bar
<1>. HIDE DEF pie
<1>8. table \in ChartSpec /\ table.type = "table"
  BY DEF Chart, ChartSpec
<1>. HIDE DEF table
<1>9. CASE rows = 0 \/ columns = <<>>
  BY <1>7, <1>9 DEF MaxCharts
<1>10. CASE ~(rows = 0 \/ columns = <<>>)
  <2>. DEFINE specs == Append(pie, table)
  <2>1. /\ specs \in Seq(ChartSpec) /\ Len(pie) \in Nat /\ Len(specs) = Len(pie) + 1
        /\ specs[Len(pie) + 1] = table
        /\ \A i \in 1..Len(pie) : specs[i] = pie[i]
    BY <1>6, <1>8 DEF Drawn
  <2>. HIDE DEF specs
  <2>2. ASSUME NEW i \in 1..Len(specs)
        PROVE  /\ specs[i].type = "table" <=> i = Len(specs)
               /\ i < Len(specs) =>
                    columns[specs[i].y] = "integer" /\ columns[specs[i].x] # "integer"
               /\ specs[i].type = "pie" => rows <= PieRows
    <3>1. CASE i = Len(pie) + 1
      BY <1>8, <2>1, <3>1
    <3>2. CASE i \in 1..Len(pie)
      BY <1>6, <2>1, <3>2 DEF Drawn
    <3>. QED
      BY <2>1, <3>1, <3>2
  <2>3. Len(specs) # 0 /\ Len(specs) <= MaxCharts + 1
    BY <1>6, <2>1 DEF Drawn, MaxCharts
  <2>. QED
    BY <1>7, <1>10, <2>1, <2>2, <2>3 DEF specs
<1>. QED
  BY <1>9, <1>10

\* The charts of a call are those of its rows.
ChartInv == charts \in [Call -> Seq(ChartSpec)] /\ ChartsFit

LEMMA NextCharts == IInv /\ ChartInv /\ [Next]_vars => ChartInv'
<1>. SUFFICES ASSUME IInv, ChartInv, [Next]_vars PROVE ChartInv'
  OBVIOUS
<1>1. ASSUME NEW c \in Call, Analyze(c) PROVE ChartInv'
  <2>1. result[c] \in Rows
    BY <1>1 DEF Analyze, Go, IInv, TypeOK
  <2>2. result[c].statement.columns \in Seq(Type) /\ result[c].kept \in Nat
    BY <2>1, OutputAssumption DEF Rows, Statement, OutputOver, StatementOver
  <2>. DEFINE columns == result[c].statement.columns
              specs == Recommend(columns, result[c].kept)
  <2>3. /\ pc' = [pc EXCEPT ![c] = "answered"] /\ UNCHANGED result
        /\ charts' = [charts EXCEPT ![c] = specs]
    BY <1>1 DEF Analyze, Go
  <2>4. /\ specs \in Seq(ChartSpec)
        /\ Len(specs) = 0 <=> (result[c].kept = 0 \/ columns = <<>>)
        /\ Len(specs) <= MaxCharts + 1
        /\ \A i \in 1..Len(specs) :
             /\ specs[i].type = "table" <=> i = Len(specs)
             /\ i < Len(specs) =>
                  columns[specs[i].y] = "integer" /\ columns[specs[i].x] # "integer"
             /\ specs[i].type = "pie" => result[c].kept <= PieRows
    BY <2>2, RecommendFacts
  <2>. HIDE DEF specs
  <2>5. charts' \in [Call -> Seq(ChartSpec)]
    BY <2>3, <2>4 DEF ChartInv
  <2>6. ChartsFit'
    <3>. SUFFICES ASSUME NEW b \in Call, pc'[b] = "answered"
                  PROVE  LET n == Len(charts'[b])
                             shown == result'[b].statement.columns
                         IN /\ n = 0 <=> (result'[b].kept = 0 \/ shown = <<>>)
                            /\ n <= MaxCharts + 1
                            /\ \A i \in 1..n :
                                 /\ charts'[b][i].type = "table" <=> i = n
                                 /\ i < n => /\ shown[charts'[b][i].y] = "integer"
                                             /\ shown[charts'[b][i].x] # "integer"
                                 /\ charts'[b][i].type = "pie" => result'[b].kept <= PieRows
      BY DEF ChartsFit
    <3>1. CASE b = c
      <4>1. charts'[b] = specs /\ result'[b] = result[c]
        BY <2>3, <3>1 DEF ChartInv
      <4>. QED
        BY <2>4, <4>1
    <3>2. CASE b # c
      <4>1. charts'[b] = charts[b] /\ result'[b] = result[b] /\ pc[b] = "answered"
        BY <2>3, <3>2 DEF ChartInv, IInv, TypeOK
      <4>. QED
        BY <4>1 DEF ChartInv, ChartsFit
    <3>. QED
      BY <3>1, <3>2
  <2>. QED
    BY <2>5, <2>6 DEF ChartInv
<1>2. ASSUME UNCHANGED charts,
             \A c \in Call : pc'[c] = "answered" => pc[c] = "answered" /\ result'[c] = result[c]
      PROVE  ChartInv'
  BY <1>2 DEF ChartInv, ChartsFit
<1>3. ASSUME NEW c \in Call,
             \/ LoadSchema(c) \/ PruneSchema(c) \/ Generate(c) \/ LookUp(c)
             \/ Estimate(c) \/ Run(c) \/ Put(c) \/ Set(c)
      PROVE  ChartInv'
  BY <1>2, <1>3
     DEF IInv, TypeOK, Go, LoadSchema, PruneSchema, Generate, LookUp, Estimate, Run, Put, Set
<1>4. ASSUME NEW c \in Call,
             \/ \E d \in Datasource : Ask(c, d) \/ CallTool(c, d)
             \/ \E choice \in {"approve", "decline"} : Decide(c, choice)
      PROVE  ChartInv'
  BY <1>2, <1>4 DEF IInv, TypeOK, Go, Ask, CallTool, Decide
<1>5. CASE (CacheForgets \/ Tick) /\ UNCHANGED <<callVars, indexVars>>
  BY <1>2, <1>5 DEF callVars
<1>6. CASE UNCHANGED vars
  BY <1>2, <1>6 DEF vars, callVars
<1>. QED
  BY <1>1, <1>3, <1>4, <1>5, <1>6 DEF Next

\* An answer has a table if it has rows, and before it few charts, each of a
\* measure over something else.
THEOREM FittingCharts == Spec => []ChartsFit
<1>1. Init => ChartInv
  BY DEF Init, ChartInv, ChartsFit
<1>2. ChartInv => ChartsFit
  BY DEF ChartInv
<1>. QED
  BY <1>1, <1>2, NextCharts, PathInvariance, PTL DEF Spec
=============================================================================

---------------------------- MODULE SchemaIndex ----------------------------
(***************************************************************************)
(* The schema index (backend/vector/schema_indexer.py) and the vector      *)
(* store under it (backend/providers/vector/qdrant_store.py). One          *)
(* collection holds the documents of all datasources, and the agents of    *)
(* all datasources share the store. The similarity of documents is left    *)
(* out: a search finds any of them. The documents of a table and of its    *)
(* columns all name the table, and one stands for them. reset and count,   *)
(* which only tests call, are left out.                                    *)
(***************************************************************************)
EXTENDS Naturals, FiniteSets

CONSTANTS
    Datasource,
    Table,     \* names of tables; datasources may use the same
    Left,      \* bound: documents earlier processes may have left in the index
    TopK       \* documents a search returns, at most

ASSUME LeftAssumption == Left \subseteq Datasource \X Table

VARIABLES
    client,      \* whether QdrantStore has a client
    collection,  \* whether the collection exists
    points       \* the documents in it

indexVars == <<client, collection, points>>

\* Qdrant keeps what earlier processes indexed.
IndexInit ==
    /\ client = FALSE
    /\ collection \in BOOLEAN
    /\ points \in IF collection THEN SUBSET Left ELSE {{}}

\* _get_client: the first use makes the client and sees to the collection.
GetClient ==
    /\ client' = TRUE
    /\ collection' = (collection \/ ~client)

\* It raises: without a client, or with one but before the collection is there.
GetClientRaises ==
    /\ ~client
    /\ client' \in BOOLEAN
    /\ UNCHANGED <<collection, points>>

\* index_schema, QdrantStore.add: nothing to do, or an upsert.
IndexSchema(d, tables) ==
    \/ tables = {} /\ UNCHANGED indexVars
    \/ /\ tables # {}
       /\ GetClient
       /\ collection'
       /\ points' = points \cup ({d} \X tables)

\* add catches nothing: no client, no collection, or the server fails.
IndexSchemaRaises(tables) ==
    /\ tables # {}
    /\ \/ GetClientRaises
       \/ GetClient /\ UNCHANGED points

\* search: the documents it may find, none only if there are none.
Search(hits) ==
    /\ GetClient
    /\ collection'
    /\ hits \subseteq points
    /\ Cardinality(hits) <= TopK
    /\ points # {} => hits # {}
    /\ UNCHANGED points

\* search catches everything and finds nothing.
SearchFails == GetClientRaises \/ (GetClient /\ UNCHANGED points)

\* Seeded fault: the tables the hits name, whoever has them.
PrunedToTheHits(tables, hits) ==
    IF hits = {} THEN tables ELSE {h[2] : h \in hits}

\* relevant_schema: the datasource's own tables among those the hits name.
Pruned(tables, hits) ==
    LET relevant == tables \cap {h[2] : h \in hits}
    IN IF relevant = {} THEN tables ELSE relevant

=============================================================================

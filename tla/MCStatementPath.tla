-------------------------- MODULE MCStatementPath --------------------------
(***************************************************************************)
(* Two datasources with a table of the same name; the index may hold a     *)
(* document of a table the second one no longer has, and Redis an entry of *)
(* an earlier process.                                                     *)
(***************************************************************************)
EXTENDS StatementPath, TLC

MCTables == [d1 |-> [a |-> 1, b |-> 100], d2 |-> [a |-> 1]]
MCDatasource == DOMAIN MCTables
MCDialect == [d1 |-> "sqlite", d2 |-> "postgresql"]
MCMaxRows == [d1 |-> 8, d2 |-> 9]
MCLeft == {<<"d2", "b">>}
MCTable == {"a", "b"}
MCName == {"a", "b", "w"}
MCCount == {0, 9}
MCToolRows == {0}

Select(text) ==
    [head |-> "SELECT", key |-> "select", pieces |-> 1, semicolon |-> FALSE,
     refs |-> {"a"}, ctes |-> {}, forbidden |-> FALSE,
     columns |-> <<"iso", "decimal", "integer">>, canonical |-> text, text |-> text]

\* A WITH clause over a table of one datasource only, and a column that is no number.
With ==
    [Select("with") EXCEPT !.head = "WITH", !.refs = {"b", "w"}, !.ctes = {"w"},
                           !.columns = <<"text", "integer">>]

\* Two statements sqlglot cannot parse, which differ by a space in a literal.
Unparsed(text) == [Select(text) EXCEPT !.key = "unparsed", !.canonical = "unparsed"]

Two == [Select("two") EXCEPT !.pieces = 2, !.semicolon = TRUE]

MCOutput ==
    {[form |-> "fence", statement |-> s] :
        s \in {With, Unparsed("one space"), Unparsed("two spaces"), Two}}
    \cup {[form |-> "bare", statement |-> [Select("drop") EXCEPT !.head = "other", !.key = "other",
                                                                  !.forbidden = TRUE]]}

MCKey == {CacheKey(d, s) : d \in Datasource, s \in Statement}

\* Rows of the one, which answer the other as well.
MCInherited ==
    {Entry(CacheKey("d1", s), RowsOf("d1", s, MaxRows["d1"], 9), 1) : s \in {Unparsed("one space")}}

MCSymmetry == Permutations(Call)
============================================================================

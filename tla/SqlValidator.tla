---------------------------- MODULE SqlValidator ----------------------------
(***************************************************************************)
(* What is decided about a statement without running it: the validator     *)
(* (backend/agents/validator.py), the cost estimate made of an EXPLAIN     *)
(* (backend/database/optimizer.py) and the charts recommended for its rows *)
(* (backend/agents/chart.py). Operators only.                              *)
(*                                                                         *)
(* A statement is what these look at: its first keyword, what sqlglot      *)
(* makes of its first piece (a SELECT, something else, or an error), how   *)
(* many pieces there are, whether a semicolon is in it, the tables it      *)
(* names, the names its WITH clauses define, whether a dangerous keyword   *)
(* is anywhere in it, the types of the columns it returns, and the form    *)
(* the result cache gives it. Case is left out: the names of tables are    *)
(* compared without regard to it.                                          *)
(***************************************************************************)
EXTENDS Naturals, Sequences, FiniteSets, FiniteSetsExt

\* What the values of a column are: "iso" is text that looks like a date.
Type == {"integer", "decimal", "date", "time", "text", "iso", "null"}

StatementOver(Name) ==
    [head: {"SELECT", "WITH", "other"}, key: {"select", "other", "unparsed"},
     pieces: {1, 2}, semicolon: BOOLEAN, refs: SUBSET Name, ctes: SUBSET Name,
     forbidden: BOOLEAN, columns: Seq(Type), canonical: STRING, text: STRING]

OutputOver(Name) == [form: {"fence", "bare"}, statement: StatementOver(Name)]

-----------------------------------------------------------------------------
(***************************************************************************)
(* SqlValidator.                                                           *)
(***************************************************************************)

\* _extract_sql: what a fence holds, or a text that looks like a statement.
Extracted(o) == o.form = "fence" \/ o.statement.head \in {"SELECT", "WITH"}

\* _classify_statement: a SELECT or a WITH. What sqlglot calls otherwise, a UNION
\* for one, is judged by its first keyword, like what it cannot parse.
Reads(s) == s.key = "select" \/ s.head \in {"SELECT", "WITH"}

\* _has_multiple_statements
HasMultiple(s) == IF s.key = "unparsed" THEN s.semicolon ELSE s.pieces > 1

\* Seeded fault: every name is looked up among the tables except when the
\* statement defines names of its own.
MissingUnlessWith(s, tables) ==
    IF tables = {} \/ s.key = "unparsed" \/ s.ctes # {} THEN {} ELSE s.refs \ tables

\* _missing_identifiers
Missing(s, tables) ==
    IF tables = {} \/ s.key = "unparsed" THEN {} ELSE s.refs \ (s.ctes \cup tables)

\* validate: no reason against the extracted statement.
Valid(s, tables) ==
    /\ Reads(s)
    /\ ~HasMultiple(s)
    /\ Missing(s, tables) = {}
    /\ ~s.forbidden

-----------------------------------------------------------------------------
(***************************************************************************)
(* estimate_rows_scanned. The plan of a statement is the set of tables it  *)
(* scans (sqlite), the row numbers of its lines (mysql) or of its first    *)
(* line (postgresql). An estimate is a set of at most one number: none if  *)
(* the cost is unknown.                                                    *)
(***************************************************************************)
Largest(counts) == IF counts = {} THEN {} ELSE {Max(counts)}

\* What EXPLAIN may lead to when the tables have so many rows: it may fail, and
\* so may the count of a table or the reading of a line.
Estimates(dialect, s, rows, guesses) ==
    CASE dialect = "sqlite" ->
           {Largest({rows[t] : t \in scanned}) : scanned \in SUBSET (s.refs \cap DOMAIN rows)}
      [] dialect = "mysql" -> {Largest(lines) : lines \in SUBSET guesses}
      [] dialect = "postgresql" -> {{}} \cup {{n} : n \in guesses}
      [] OTHER -> {{}}

\* ExecutorNode: the comparison is strict.
NeedsApproval(estimate, threshold) == \E n \in estimate : n > threshold

-----------------------------------------------------------------------------
(***************************************************************************)
(* execute_read_only and _sanitize_row: what is kept of n rows, and what   *)
(* becomes of a value. A decimal becomes text, and a time is no date.      *)
(***************************************************************************)
Smaller(m, n) == IF m < n THEN m ELSE n

\* Seeded fault: a result as long as the limit counts as cut.
TruncatedAtLimit(n, cap) == n >= cap

Kept(n, cap) == Smaller(n, cap)
Truncated(n, cap) == n > cap

Sanitized(type) ==
    CASE type = "integer" -> "number"
      [] type \in {"date", "iso"} -> "date"
      [] OTHER -> "word"

-----------------------------------------------------------------------------
(***************************************************************************)
(* HeuristicChartRecommender.recommend. A column is given by its index, 0  *)
(* is none.                                                                *)
(***************************************************************************)
MaxCharts == 2
PieRows == 8

Columns(kinds, kind) == {i \in DOMAIN kinds : kinds[i] = kind}

Chart(type, x, y) == [type |-> type, x |-> x, y |-> y]

\* Seeded fault: one chart more than the limit.
RoomForOneMore(specs) == Len(specs) <= MaxCharts

RoomFor(specs) == Len(specs) < MaxCharts

Add(specs, wanted, chart) == IF wanted /\ RoomFor(specs) THEN Append(specs, chart) ELSE specs

Recommend(columns, rows) ==
    LET kinds == [i \in DOMAIN columns |-> Sanitized(columns[i])]
        First(kind) == IF Columns(kinds, kind) = {} THEN 0 ELSE Min(Columns(kinds, kind))
        number == First("number")
        day == First("date")
        word == First("word")
        measured == word # 0 /\ number # 0
        line == Add(<<>>, day # 0 /\ number # 0, Chart("line", day, number))
        bar == Add(line, measured, Chart("bar", word, number))
        pie == Add(bar, measured /\ rows <= PieRows, Chart("pie", word, number))
    IN IF rows = 0 \/ columns = <<>> THEN <<>> ELSE Append(pie, Chart("table", 0, 0))

=============================================================================

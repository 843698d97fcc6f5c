----------------------------- MODULE RowQueries -----------------------------
(***************************************************************************)
(* What the engine makes of a statement and of its rows (poqi-engine       *)
(* query_analysis.rs, value_format.rs, models.rs): which statements may be *)
(* edited in the grid, how the identity of a row travels with it in hidden *)
(* columns, and what a cell shows.  One table, known by its name.          *)
(***************************************************************************)
EXTENDS Naturals, Sequences, FiniteSets, SequencesExt

CONSTANTS Columns,      \* the columns of the table, in order
          Texts,        \* the values a cell may have, by their text
          Undecodable,  \* the columns of a type that the engine cannot decode
          Opaque        \* values of other types that their decoders refuse

ASSUME RowQueriesAssumption ==
    /\ Columns \in Seq(STRING) /\ Columns # <<>>
    /\ Opaque \subseteq Texts
    /\ Undecodable \subseteq {Columns[i] : i \in DOMAIN Columns}

Null   == "null"
Value  == Texts \cup {Null}
Column == {Columns[i] : i \in DOMAIN Columns}

None == "none"

(***************************************************************************)
(* A statement as pg_query parses it.  "qualified" is FALSE when a target  *)
(* names a table or an alias that is not the one of FROM.                  *)
(***************************************************************************)
Clauses ==
    {"into", "with", "values", "set operation", "distinct", "where", "group", "having",
     "window", "sort", "limit", "locking", "alias columns"}

SystemColumns == {"tableoid", "xmin", "ctid"}

Target    == [is: {"star", "column", "expression"}, column: Column \cup SystemColumns \cup {None},
              name: STRING, qualified: BOOLEAN]
Statement == [statements: Nat, is: {"select", "other", "unparsed"}, clauses: SUBSET Clauses,
              from: {"table", "several"}, targets: Seq(Target)]

NoStatement == [statements |-> 1, is |-> "other", clauses |-> {}, from |-> "table", targets |-> <<>>]

Conflicts(s, clauses) == s.clauses \cap clauses # {}

\* extract_single_range, and the tests of analyze_single_table_select before it.
SingleTable(s) ==
    /\ s.is = "select"
    /\ ~Conflicts(s, {"into", "with", "values", "set operation"})
    /\ s.from = "table"

IsStar(t) == t.is = "star" /\ t.qualified

\* direct_source_column, is_system_column
DirectSource(t) == t.is = "column" /\ t.qualified /\ t.column \notin SystemColumns

\* editable_projection: the statement shows every row of the table once, and
\* every cell is a column of it.
NoProjection == [all |-> FALSE, named |-> <<>>]
EditableProjection(s) ==
    IF \/ Conflicts(s, {"distinct", "where", "group", "having", "window", "sort", "limit",
                        "locking", "alias columns"})
       \/ s.targets = <<>>
    THEN NoProjection
    ELSE IF Len(s.targets) = 1 /\ IsStar(s.targets[1]) THEN [all |-> TRUE, named |-> <<>>]
    ELSE IF \A i \in DOMAIN s.targets : DirectSource(s.targets[i])
    THEN [all |-> FALSE, named |-> [i \in DOMAIN s.targets |-> s.targets[i].column]]
    ELSE NoProjection

\* is_simple_select, which decides how the grid is refreshed.
Simple(s) ==
    /\ ~Conflicts(s, {"where", "group", "having", "sort", "window", "distinct"})
    /\ s.targets # <<>>
    /\ \A i \in DOMAIN s.targets : s.targets[i].is = "star"

\* plan_run_sql; a batch is refused before (IsBatch).
IsBatch(s) == s.is # "unparsed" /\ s.statements # 1

RunSqlPlan(s) ==
    IF SingleTable(s)
    THEN [projection |-> EditableProjection(s), table |-> TRUE,
          origin |-> IF Simple(s) THEN "rerun" ELSE "row"]
    ELSE [projection |-> NoProjection, table |-> FALSE, origin |-> "unknown"]

IsEditable(plan) == plan.projection # NoProjection

\* SourceProjection::resolve
Resolve(projection, shown) ==
    IF projection.all THEN shown
    ELSE IF Len(projection.named) = Len(shown) THEN projection.named
    ELSE [i \in DOMAIN shown |-> None]

(***************************************************************************)
(* What PostgreSQL answers for one row of the table: the targets of the    *)
(* statement, then the hidden columns that the identity needs.             *)
(***************************************************************************)
Answered(t, row) ==
    CASE t.is = "star"                          -> [i \in DOMAIN Columns |-> row.cells[Columns[i]]]
      [] t.is = "column" /\ t.column \in Column -> <<row.cells[t.column]>>
      [] OTHER                                  -> <<CHOOSE x \in Texts : TRUE>>

Titles(t) == IF t.is = "star" THEN Columns ELSE <<t.name>>

\* The type of a column of the answer, named by the column of the table it has it from.
TypesOf(t) == IF t.is = "star" THEN Columns ELSE <<t.column>>

ResultColumns(s)  == FlattenSeq([i \in DOMAIN s.targets |-> Titles(s.targets[i])])
ResultTypes(s)    == FlattenSeq([i \in DOMAIN s.targets |-> TypesOf(s.targets[i])])
ResultCells(s, r) == FlattenSeq([i \in DOMAIN s.targets |-> Answered(s.targets[i], r)])

\* identity_projection, rewrite_with_row_identity
HiddenCells(r, key) == <<r.table, r.ctid, r.xmin>> \o [i \in DOMAIN key |-> r.cells[key[i]]]

(***************************************************************************)
(* Identities.  A plan names the relation and its primary key; an identity *)
(* is the physical place, the transaction that wrote the row and the key.  *)
(***************************************************************************)
NoPlan     == [oid |-> 0, key |-> <<>>, type |-> 0]
NoIdentity == [oid |-> 0, table |-> 0, ctid |-> 0, xmin |-> 0, key |-> <<>>, type |-> 0, values |-> <<>>]

\* decode_row_identity, from the hidden columns that start after "start": the
\* type of the key is the one of the statement's own answer, not the plan's.
DecodeIdentity(wire, plan, start, type) ==
    IF plan = NoPlan THEN NoIdentity
    ELSE [oid |-> plan.oid, table |-> wire[start + 1], ctid |-> wire[start + 2], xmin |-> wire[start + 3],
          key |-> plan.key, type |-> type,
          values |-> [i \in DOMAIN plan.key |-> wire[start + 3 + i]]]

(***************************************************************************)
(* A result, its rows, null masks and identities in sequences of their own *)
(* (QueryResult, ResultMetadata).  "versions" is no part of the code: it   *)
(* remembers which version of a row of the table was read.                 *)
(***************************************************************************)
EmptyResult ==
    [columns |-> <<>>, rows |-> <<>>, nulls |-> <<>>, identities |-> <<>>, source |-> <<>>,
     table |-> FALSE, origin |-> "unknown", sql |-> NoStatement, versions |-> <<>>]

\* format_oid .. format_uuid: what the decoder of the type reads; a null shows
\* the text that a string may have too (format_optional).
Decoded(v) == IF v = Null THEN "NULL" ELSE v

\* format_unknown, for nulls too, and a decoder that fails: the name of the type.
Undecoded == "<type>"

\* format_value
Display(type, v) == IF type \in Undecodable \/ v \in Opaque THEN Undecoded ELSE Decoded(v)

\* NullProbe: the mask of a cell does not depend on its type.
IsNull(v) == v = Null

\* rows_to_result: the hidden columns are cut off what is shown.  "types" are
\* the types of the columns shown, "type" is the one of the key.
RowsToResult(columns, types, wires, versions, plan, type) ==
    LET width == IF plan = NoPlan THEN Len(columns) ELSE Len(columns) - (3 + Len(plan.key))
    IN  [EmptyResult EXCEPT
           !.columns = SubSeq(columns, 1, width),
           !.rows = [i \in DOMAIN wires |-> [j \in 1 .. width |-> Display(types[j], wires[i][j])]],
           !.nulls = [i \in DOMAIN wires |-> [j \in 1 .. width |-> IsNull(wires[i][j])]],
           !.identities = [i \in DOMAIN wires |-> DecodeIdentity(wires[i], plan, width, type)],
           !.source = [j \in 1 .. width |-> None],
           !.versions = versions]
=============================================================================

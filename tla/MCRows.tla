------------------------------- MODULE MCRows -------------------------------
(* A table with two columns and two rows that one transaction wrote; plain *)
(* or in two partitions.  The engine cannot show the type of the second    *)
(* column, so only the null mask tells its cells apart, nor one value of   *)
(* the first.  A search prefers rows whose second column is null, the text *)
(* NULL in the first, and a title over none.                               *)
EXTENDS Rows

MCColumns == <<"a", "b">>
MCKeys    == {<<"a">>, <<"b">>, <<>>}
Cells(a, b) == [c \in {"a", "b"} |-> IF c = "a" THEN a ELSE b]

Plain == [oid |-> 10, tables |-> {10}, partitioned |-> FALSE, key |-> <<"a">>, type |-> 1]
Parts == [Plain EXCEPT !.tables = {11, 12}, !.partitioned = TRUE]

MCTables ==
    {[rel |-> Plain, rows |-> {Row(10, 1, 1, Cells("x", "NULL"), <<1, 1>>),
                               Row(10, 2, 1, Cells("NULL", Null), <<1, 2>>)}],
     [rel |-> Parts, rows |-> {Row(11, 1, 1, Cells("x", "NULL"), <<1, 1>>),
                               Row(12, 1, 1, Cells("NULL", Null), <<1, 2>>)}]}

MCOtherCells == {Cells("x", "x"), Cells("NULL", Null)}

Col(c, n)   == [is |-> "column", column |-> c, name |-> n, qualified |-> TRUE]
Select(ts)  == [NoStatement EXCEPT !.is = "select", !.targets = ts]

MCStatements ==
    {SelectAll, [SelectAll EXCEPT !.statements = 2],
     Select(<<Col("b", "a"), Col("a", "b")>>),
     [Select(<<Col("b", "b")>>) EXCEPT !.clauses = {"where"}]}

MCScore(prompt, doc) ==
    (IF doc.title = "<type>" THEN 1 ELSE 0) + (IF doc.cells[2] = Sentinel THEN 2 ELSE 0)
        + (IF doc.cells[1] = "NULL" THEN 1 ELSE 0)
=============================================================================

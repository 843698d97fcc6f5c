---------------------------- MODULE RowIdentity ----------------------------
(***************************************************************************)
(* The engine on a table that other sessions change (poqi-engine lib.rs).  *)
(* Every operation looks the primary key up in one transaction and runs    *)
(* its statement in another; between the two, and between the result that  *)
(* showed a row and the edit of that row, anything may happen to it.       *)
(*                                                                         *)
(* PostgreSQL runs a statement on the rows that it finds, at READ          *)
(* COMMITTED: one that waited for another transaction looks again.         *)
(***************************************************************************)
EXTENDS RowQueries

CONSTANTS PrimaryKeys,   \* the keys the table may have, sequences of columns
          OtherCells,    \* bound: what other sessions write
          MaxCtid,       \* bound: places of a table
          MaxOthers      \* bound: transactions of other sessions

ASSUME RowIdentityAssumption ==
    /\ PrimaryKeys \subseteq Seq(Column)
    /\ OtherCells \subseteq [Column -> Value]
    /\ MaxCtid \in Nat /\ MaxOthers \in Nat

Relation == [oid : Nat, tables : SUBSET Nat, key : Seq(Column), type : Nat, partitioned : BOOLEAN]

VARIABLES rel,       \* the relation that the name denotes
          rows,      \* its rows
          clock,     \* transactions that wrote
          others,    \* transactions other sessions may still run
          op         \* the operation of the engine

tableVars == <<rel, rows, clock, others>>

(***************************************************************************)
(* The table.  A partitioned relation keeps its rows in several tables; a  *)
(* relation that others inherit from shows theirs too.                     *)
(***************************************************************************)
Places == 1 .. MaxCtid
Row(t, c, x, cells, version) ==
    [table |-> t, ctid |-> c, xmin |-> x, cells |-> cells, version |-> version]

KeyOf(cells, key) == [i \in DOMAIN key |-> cells[key[i]]]

\* No two rows of a relation with a key share it; none of its columns is null.
KeysHold(rs, r) ==
    r.key # <<>> =>
      /\ \A a \in rs : \A i \in DOMAIN r.key : a.cells[r.key[i]] # Null
      /\ \A a, b \in rs : KeyOf(a.cells, r.key) = KeyOf(b.cells, r.key) => a = b

\* What a grid remembers of a row: its version, whether the user typed a value
\* of it since it was read, and whether the key it was read by was the table's.
Read(r, key) == [of |-> r.version, typed |-> FALSE, keyed |-> rel.key = key]
Typed(r)     == [of |-> r.version, typed |-> TRUE, keyed |-> TRUE]
NotRead      == [of |-> <<>>, typed |-> FALSE, keyed |-> FALSE]

PlacesHold(rs) == \A a, b \in rs : a.table = b.table /\ a.ctid = b.ctid => a = b

Becomes(rs) ==
    /\ KeysHold(rs, rel) /\ PlacesHold(rs)
    /\ rows' = rs
    /\ clock' = clock + 1

(***************************************************************************)
(* Other sessions.                                                         *)
(***************************************************************************)
OtherWrites ==
    \* One transaction inserts two rows, or changes or deletes one: a place
    \* that was free, or that a vacuum freed, is used again.
    \/ \E t \in rel.tables, c1, c2 \in Places, one, two \in OtherCells :
          /\ c1 < c2
          /\ Becomes(rows \cup {Row(t, c1, clock, one, <<clock, 1>>), Row(t, c2, clock, two, <<clock, 2>>)})
    \/ \E r \in rows, c \in Places, new \in OtherCells :
          /\ new # r.cells
          /\ Becomes((rows \ {r}) \cup {Row(r.table, c, clock, new, <<clock, 1>>)})
    \/ \E r \in rows : Becomes(rows \ {r})

\* VACUUM FULL moves the rows of a table and keeps who wrote them.
Moved(t, place) ==
    {IF r.table = t THEN Row(t, place[r.ctid], r.xmin, r.cells, r.version) ELSE r : r \in rows}
VacuumFull(t)   == \E place \in [Places -> Places] : PlacesHold(Moved(t, place)) /\ rows' = Moved(t, place)

\* The key is dropped, or replaced by another one or by one of another type.
ChangesKey ==
    \E key \in PrimaryKeys, type \in {rel.type, rel.type + 1} :
        /\ <<key, type>> # <<rel.key, rel.type>>
        /\ KeysHold(rows, [rel EXCEPT !.key = key])
        /\ rel' = [rel EXCEPT !.key = key, !.type = type]

\* The table is dropped and one of the same name created, with the same rows or none.
Recreated ==
    LET oid == rel.oid + 10
    IN  /\ rel' = [rel EXCEPT !.oid = oid, !.tables = {oid}, !.partitioned = FALSE]
        /\ \/ rows' = {}
           \/ rows' = {Row(oid, r.ctid, clock, r.cells, <<clock, r.version>>) : r \in rows}
        /\ PlacesHold(rows')

\* A table starts to inherit from the relation.
Inherited == rel' = [rel EXCEPT !.tables = @ \cup {rel.oid + 5}]

OtherSession ==
    /\ others > 0
    /\ others' = others - 1
    /\ \/ OtherWrites /\ UNCHANGED rel
       \/ \E t \in rel.tables : VacuumFull(t) /\ UNCHANGED <<rel, clock>>
       \/ ChangesKey /\ UNCHANGED <<rows, clock>>
       \/ Recreated /\ clock' = clock + 1
       \/ ~rel.partitioned /\ Inherited /\ UNCHANGED <<rows, clock>>
    /\ UNCHANGED op

(***************************************************************************)
(* Operations.  "version", "shown" and "null" remember what the user saw.  *)
(***************************************************************************)
SelectAll   == [NoStatement EXCEPT !.is = "select",
                  !.targets = <<[is |-> "star", column |-> None, name |-> None, qualified |-> TRUE]>>]

Answer(is, result, identity, version) ==
    [is |-> is, result |-> result, identity |-> identity, version |-> version]
NoAnswer == Answer("none", EmptyResult, NoIdentity, NotRead)
Refusal(is) == [NoAnswer EXCEPT !.is = is]

Idle ==
    [do |-> "idle", at |-> "idle", statement |-> NoStatement, plan |-> NoPlan, identity |-> NoIdentity,
     column |-> None, value |-> Null, target |-> 0, cell |-> 0, version |-> NotRead, null |-> FALSE, shown |-> None, answer |-> NoAnswer]

At(do, at)   == op.do \in do /\ op.at = at
Answers(a)   == op' = [op EXCEPT !.at = "answered", !.answer = a]
Refuses(is)  == op' = [Idle EXCEPT !.do = op.do, !.at = "answered", !.answer = Refusal(is)]
Mutations    == {"update", "delete"}
ByIdentity   == Mutations \cup {"refresh"}
Queries      == {"run", "top"}

\* row_identity_plan: one relation, its rows in one place unless partitioned.
RelationWide      == rel.partitioned \/ Cardinality(rel.tables) = 1
RowIdentityPlan ==
    IF rel.key # <<>> /\ RelationWide
    THEN [oid |-> rel.oid, key |-> rel.key, type |-> rel.type] ELSE NoPlan

\* A batch is refused before anything is sent.
RefuseBatch ==
    /\ At({"run"}, "start")
    /\ IsBatch(op.statement)
    /\ Refuses("error")
    /\ UNCHANGED tableVars

NeedsPlan == op.do # "run" \/ IsEditable(RunSqlPlan(op.statement))

\* Engine::execute and crud: what needs no identity goes to its statement.
WithoutPlan ==
    /\ At({"run"}, "start")
    /\ ~IsBatch(op.statement)
    /\ ~NeedsPlan
    /\ op' = [op EXCEPT !.at = "statement"]
    /\ UNCHANGED tableVars

LookUpPlan ==
    /\ At(Queries, "start")
    /\ NeedsPlan
    /\ ~IsBatch(op.statement)
    /\ op' = [op EXCEPT !.at = "statement", !.plan = RowIdentityPlan]
    /\ UNCHANGED tableVars

\* validated_identity_plan
Validates(plan, identity) ==
    /\ plan # NoPlan
    /\ plan.oid = identity.oid
    /\ plan.key = identity.key
    /\ plan.type = identity.type

ValidatePlan ==
    /\ At(ByIdentity, "start")
    /\ IF Validates(RowIdentityPlan, op.identity)
       THEN op' = [op EXCEPT !.at = "statement", !.plan = RowIdentityPlan]
       ELSE Refuses("stale")
    /\ UNCHANGED tableVars

(***************************************************************************)
(* The statements.                                                         *)
(***************************************************************************)
Before(a, b) == a.table < b.table \/ (a.table = b.table /\ a.ctid < b.ctid)
InOrder(rs) ==
    [k \in 1 .. Cardinality(rs) |-> CHOOSE r \in rs : k = 1 + Cardinality({q \in rs : Before(q, r)})]

HiddenNames(plan) == IF plan = NoPlan THEN <<>> ELSE <<"oid", "ctid", "xmin">> \o plan.key

\* DatabaseEngine::query on the rows that the statement reads.
QueryResult(s, plan) ==
    LET read == InOrder(rows)
    IN  RowsToResult(ResultColumns(s) \o HiddenNames(plan), ResultTypes(s),
                     [i \in DOMAIN read |-> ResultCells(s, read[i])
                         \o (IF plan = NoPlan THEN <<>> ELSE HiddenCells(read[i], plan.key))],
                     [i \in DOMAIN read |-> Read(read[i], plan.key)], plan, rel.type)

\* Engine::execute, and crud for SelectTop: the metadata.
Described(result, plan) ==
    LET run == RunSqlPlan(op.statement)
    IN  [result EXCEPT
           !.table = op.do = "top" \/ run.table,
           !.sql = op.statement,
           !.origin = IF op.do = "top" THEN "top" ELSE run.origin,
           !.source = IF plan = NoPlan THEN @
                      ELSE IF op.do = "top" THEN result.columns
                      ELSE Resolve(run.projection, result.columns)]

RunQuery ==
    /\ At(Queries, "statement")
    /\ Answers(Answer("rows", Described(QueryResult(op.statement, op.plan), op.plan), NoIdentity, NotRead))
    /\ UNCHANGED tableVars

\* Mutant: the key is not compared.
PlaceOnly(r, identity) == TRUE

SameKey(r, identity) == KeyOf(r.cells, identity.key) = identity.values

\* identity_predicate
IdentityPredicate(r, identity) ==
    /\ rel.oid = identity.oid
    /\ r.table = identity.table
    /\ r.ctid = identity.ctid
    /\ r.xmin = identity.xmin
    /\ SameKey(r, identity)
    /\ rel.key = identity.key

Found == {r \in rows : IdentityPredicate(r, op.identity)}

\* to_sql: the statement is prepared anew, a key of another type is refused.
Prepares == rel.type = op.identity.type

IdentityOf(r) == DecodeIdentity(HiddenCells(r, op.plan.key), op.plan, 0, rel.type)

\* query_single_identity
NoRowFound ==
    /\ At(ByIdentity, "statement")
    /\ Prepares
    /\ Found = {}
    /\ Refuses("stale")
    /\ UNCHANGED tableVars

\* The connection may be lost after the commit: the outcome is unknown then.
AnswersOrLost(a) == Answers(a) \/ Refuses("error")

UpdateCell ==
    /\ At({"update"}, "statement")
    /\ Prepares
    /\ \E r \in Found, c \in Places :
          LET new == Row(r.table, c, clock, [r.cells EXCEPT ![op.column] = op.value], <<clock, 1>>)
          IN  /\ c # r.ctid
              /\ Becomes((rows \ {r}) \cup {new})
              /\ AnswersOrLost(Answer("updated", EmptyResult, IdentityOf(new), Typed(new)))
    /\ UNCHANGED <<rel, others>>

DeleteRow ==
    /\ At({"delete"}, "statement")
    /\ Prepares
    /\ \E r \in Found :
          /\ Becomes(rows \ {r})
          /\ AnswersOrLost(Refusal("deleted"))
    /\ UNCHANGED <<rel, others>>

RefreshRow ==
    /\ At({"refresh"}, "statement")
    /\ Prepares
    /\ \E r \in Found :
          LET read == RowsToResult(Columns \o HiddenNames(op.plan), ResultTypes(SelectAll),
                        <<ResultCells(SelectAll, r) \o HiddenCells(r, op.plan.key)>>, <<Read(r, op.plan.key)>>,
                        op.plan, rel.type)
          IN  Answers(Answer("rows", [read EXCEPT !.table = TRUE, !.source = read.columns], NoIdentity, NotRead))
    /\ UNCHANGED tableVars

\* Any step may fail: a refused statement, a timeout, a lost connection.
EngineFails ==
    /\ op.at \in {"start", "statement"}
    /\ Refuses("error")
    /\ UNCHANGED tableVars

Engine ==
    \/ RefuseBatch \/ WithoutPlan \/ LookUpPlan \/ ValidatePlan \/ RunQuery
    \/ NoRowFound \/ UpdateCell \/ DeleteRow \/ RefreshRow \/ EngineFails
=============================================================================

----------------------------- MODULE Statements -----------------------------
(***************************************************************************)
(* From the text of a statement to its effect: what the parser keeps of    *)
(* it, and the steps by which the query processor computes a SELECT or     *)
(* changes a table.  The plan of the optimizer is not executed, so none is *)
(* here.  Other sessions are kept out by table locks.                      *)
(*                                                                         *)
(* sql is the statement as it is written, in the form Relational explains; *)
(* pq is the ParsedQuery made of it.                                       *)
(***************************************************************************)
EXTENDS Relational

CONSTANTS
    Written,        \* the statements in use
    InitialTables,  \* InitialTables[t]: the rows of table t
    DashedTexts,    \* texts with a character of arithmetic, such as a date
    MaxStatements   \* bound: statements in a behaviour

ASSUME WrittenAssumption == Written \subseteq Selects \cup Inserts \cup Updates \cup Deletes
ASSUME InitialTablesAssumption ==
    DOMAIN InitialTables = Tables /\ \A t \in Tables : IsTable(t, InitialTables[t])
ASSUME MaxStatementsAssumption == MaxStatements \in Nat

VARIABLES
    tables,     \* tables[t]: the rows of t
    sql, pq,    \* the statement being executed, or None
    stage,      \* the step the query processor is at
    read,       \* the rows of the tables read so far, one sequence per table
    result,     \* the rows on their way to the answer
    undo,       \* rows a DELETE hands to the recovery manager
    ideal,      \* history: the tables as the statements mean them
    exact,      \* history: every change so far was a plain one
    count

None == [kind |-> "none"]

vars == <<tables, sql, pq, stage, read, result, undo, ideal, exact, count>>

-----------------------------------------------------------------------------
(* The parser.                                                             *)

(* An operand is a literal; a column to compare with is left as a text.    *)
parse_condition(cond) == [column |-> cond.column, operation |-> cond.operation,
                          operand |-> cond.operand, logical_operator |-> cond.link]

parse_conditions(where) == [i \in DOMAIN where |-> parse_condition(where[i])]

(* record_table_reference, for each table in turn.                         *)
table_aliases(sources) ==
    LET labels == {sources[i].table : i \in DOMAIN sources}
                      \cup ({sources[i].alias : i \in DOMAIN sources} \ {NoName})
        last(a) == CHOOSE i \in DOMAIN sources :
            /\ a \in {sources[i].table, sources[i].alias}
            /\ \A j \in i + 1..Len(sources) : a \notin {sources[j].table, sources[j].alias}
    IN  [a \in labels |-> sources[last(a)].table]

(* The tables of FROM and of the JOINs.                                    *)
parse_from_clause(s) == [i \in DOMAIN Sources(s) |-> Sources(s)[i].table]

parse_select_query(s) ==
    [kind |-> "select",
     select_columns |-> IF s.select = <<>> THEN <<Star>>
                        ELSE [i \in DOMAIN s.select |-> s.select[i].column],
     select_aliases |-> IF s.select = <<>> THEN <<Star>>
                        ELSE [i \in DOMAIN s.select |-> Name(s.select[i].label)],
     table_aliases |-> table_aliases(Sources(s)),
     where_conditions |-> parse_conditions(s.where),
     from_tables |-> parse_from_clause(s), join_clauses |-> s.joins,
     order_by_column |-> s.order, order_ascending |-> s.ascending, limit_value |-> s.limit]

parse_insert_query(s) ==
    [kind |-> "insert", table |-> s.table,
     insert_columns |-> s.columns, insert_values |-> s.literals]

(* UPDATE and DELETE keep the first condition only.                        *)
FirstCondition(s) ==
    IF s.where = <<>> THEN <<>> ELSE <<parse_condition(s.where[1])>>

parse_update_query(s) ==
    [kind |-> "update", table |-> s.table, set_value |-> s.set, where_conditions |-> FirstCondition(s)]

parse_delete_query(s) ==
    [kind |-> "delete", table |-> s.table, where_conditions |-> FirstCondition(s)]

sql_parser(s) ==
    CASE s.kind = "select" -> parse_select_query(s)
      [] s.kind = "insert" -> parse_insert_query(s)
      [] s.kind = "update" -> parse_update_query(s)
      [] s.kind = "delete" -> parse_delete_query(s)

-----------------------------------------------------------------------------
(* Columns and conditions.  A row of the processor also knows its table.   *)

resolve_aliased_column(n, aliases) ==
    IF Qualifier(n) \in DOMAIN aliases THEN <<aliases[Qualifier(n)], Base(n)>> ELSE n

full_scan(t, columns) ==
    [i \in DOMAIN tables[t] |->
        [table |-> t,
         columns |-> IF Star \in Range(columns) THEN tables[t][i]
                     ELSE Restrict(tables[t][i], Range(columns) \cap DOMAIN tables[t][i])]]

(* With two aliases of one table, the same one serves both.                *)
apply_table_aliases(rows, t, aliases) ==
    LET own == {a \in DOMAIN aliases \ {t} : aliases[a] = t}
        alias == CHOOSE a \in own : TRUE
        prefixed(f) == [n \in {<<alias, Base(k)>> : k \in DOMAIN f} |-> f[Name(Base(n))]]
    IN  IF own = {} THEN rows
        ELSE [i \in DOMAIN rows |-> [rows[i] EXCEPT !.columns = prefixed(@)]]

(* find_column_value: the column itself, or one that differs from it in    *)
(* the lack of a qualifier, on either side.                                *)
Found(row, n) ==
    IF n \in DOMAIN row.columns THEN {n}
    ELSE IF Qualifier(n) = NoName THEN {k \in DOMAIN row.columns : Base(k) = Base(n)}
    ELSE {Name(Base(n))} \cap DOMAIN row.columns

ValueOf(row, n) == row.columns[CHOOSE k \in Found(row, n) : TRUE]

(* Values are compared as the left one's type; what is no number counts as *)
(* 0 and what is no text as the empty one, which comes before every text.  *)
Truncated(v) == Payload(v) - (Payload(v) % 2)

Compare(left, operation, right) ==
    CASE Type(left) = "int" ->
            Holds(operation, Payload(left), IF IsNumber(right) THEN Truncated(right) ELSE 0)
      [] Type(left) = "float" ->
            Holds(operation, Payload(left), IF IsNumber(right) THEN Payload(right) ELSE 0)
      [] Type(left) = "string" ->
            IF Type(right) = "string" THEN Holds(operation, Payload(left), Payload(right))
            ELSE operation \in {"!=", ">"}
      [] OTHER -> FALSE

(* A text with a dot is taken for a column.                                *)
IsColumnReference(v) == Type(v) = "string" /\ Qualifier(Payload(v)) # NoName

evaluate_condition(row, cond) ==
    /\ Found(row, cond.column) # {}
    /\ IsColumnReference(cond.operand) => Found(row, Payload(cond.operand)) # {}
    /\ Compare(ValueOf(row, cond.column), cond.operation,
               IF IsColumnReference(cond.operand) THEN ValueOf(row, Payload(cond.operand))
               ELSE cond.operand)

(* Fault: the link is looked for on the condition itself.                  *)
OwnLink(row, conditions) ==
    LET holds[i \in DOMAIN conditions] ==
            IF i = 1 THEN evaluate_condition(row, conditions[1])
            ELSE IF conditions[i].logical_operator = "OR"
            THEN holds[i - 1] \/ evaluate_condition(row, conditions[i])
            ELSE holds[i - 1] /\ evaluate_condition(row, conditions[i])
    IN  holds[Len(conditions)]

(* From left to right, whichever links come.                               *)
Selected(row, conditions) ==
    LET holds[i \in DOMAIN conditions] ==
            IF i = 1 THEN evaluate_condition(row, conditions[1])
            ELSE IF conditions[i - 1].logical_operator = "OR"
            THEN holds[i - 1] \/ evaluate_condition(row, conditions[i])
            ELSE holds[i - 1] /\ evaluate_condition(row, conditions[i])
    IN  holds[Len(conditions)]

apply_where_clause(rows, conditions) ==
    IF conditions = <<>> THEN rows
    ELSE Sublist(rows, {i \in DOMAIN rows : Selected(rows[i], conditions)})

(* The storage engine has its own comparison, for values of one type.      *)
Meets(row, cond) ==
    /\ cond.column \in DOMAIN row
    /\ Type(row[cond.column]) = Type(cond.operand)
    /\ Type(cond.operand) # "double"
    /\ Holds(cond.operation, Payload(row[cond.column]), Payload(cond.operand))

check_conditions(row, conditions) == \A i \in DOMAIN conditions : Meets(row, conditions[i])

-----------------------------------------------------------------------------
(* Joins, one row of the left by one of the right.                         *)

Pairs(left, right) ==
    FlattenSeq([i \in DOMAIN left |-> [j \in DOMAIN right |-> <<left[i], right[j]>>]])

JoinRows(left, right, Matches(_, _), Merged(_, _)) ==
    LET all == Pairs(left, right)
        pairs == Sublist(all, {i \in DOMAIN all : Matches(all[i][1], all[i][2])})
    IN  [i \in DOMAIN pairs |->
            [table |-> pairs[i][1].table, columns |-> Merged(pairs[i][1], pairs[i][2])]]

(* std::map: what f has is taken from f.                                   *)
Over(f, g) == [n \in DOMAIN f \cup DOMAIN g |-> IF n \in DOMAIN f THEN f[n] ELSE g[n]]

Bases(row) == {Base(n) : n \in DOMAIN row.columns}

(* A natural join truncates an amount that meets a whole number.           *)
SameValue(x, y) ==
    /\ Type(x) # "double" /\ Type(y) # "double" /\ (IsNumber(x) <=> IsNumber(y))
    /\ IF Type(x) = Type(y) THEN x = y ELSE Truncated(x) = Truncated(y)

AllCommon(l, r, common) ==
    \A c \in common :
        /\ Found(l, Name(c)) # {} /\ Found(r, Name(c)) # {}
        /\ SameValue(ValueOf(l, Name(c)), ValueOf(r, Name(c)))

(* The common columns are those of the first rows.                         *)
NaturalJoin(left, right) ==
    LET common == IF left = <<>> \/ right = <<>> THEN {} ELSE Bases(left[1]) \cap Bases(right[1])
        merged(l, r) == [n \in {Name(b) : b \in Bases(l) \cup Bases(r)} |->
                            IF Base(n) \in Bases(l) THEN ValueOf(l, n) ELSE ValueOf(r, n)]
    IN  IF common = {} THEN <<>>
        ELSE JoinRows(left, right, LAMBDA l, r : AllCommon(l, r, common), merged)

CartesianProduct(left, right) ==
    LET full(row) == [n \in {IF Qualifier(k) = NoName THEN <<row.table, Base(k)>> ELSE k :
                                 k \in DOMAIN row.columns} |->
                         row.columns[IF n \in DOMAIN row.columns THEN n ELSE Name(Base(n))]]
    IN  JoinRows(left, right, LAMBDA l, r : TRUE, LAMBDA l, r : Over(full(r), full(l)))

(* The left column is looked for on the left only, the right one on the    *)
(* right.  Columns of the same name are those of the right.                *)
JoinOn(left, right, left_col, right_col) ==
    JoinRows(left, right,
             LAMBDA l, r : /\ Found(l, left_col) # {} /\ Found(r, right_col) # {}
                           /\ Compare(ValueOf(l, left_col), "=", ValueOf(r, right_col)),
             LAMBDA l, r : Over(r.columns, l.columns))

(* The first clause belongs to the second table, though it may have been   *)
(* written for a later one.  The kind of an outer join is not looked at.   *)
execute_join(left, right, clauses, i) ==
    IF i > Len(clauses) THEN CartesianProduct(left, right)
    ELSE IF clauses[i].natural THEN NaturalJoin(left, right)
    ELSE JoinOn(left, right, clauses[i].left, clauses[i].right)

-----------------------------------------------------------------------------
(* The last steps of a SELECT.                                             *)

(* std::sort may leave equal rows in any order, and all rows if some lack  *)
(* the column or have another type in it: that compares as no order.  It   *)
(* looks for the column by its very name, in the first row to begin with.  *)
OrderedVersions(rows, n, ascending) ==
    LET before(x, y) == IF ascending THEN Payload(x) < Payload(y) ELSE Payload(x) > Payload(y)
        versions == {[i \in DOMAIN rows |-> rows[p[i]]] : p \in SetToSeqs(DOMAIN rows)}
        alike == \A row \in Range(rows) :
            n \in DOMAIN row.columns /\ Type(row.columns[n]) = Type(rows[1].columns[n])
    IN  IF rows = <<>> \/ n \notin DOMAIN rows[1].columns THEN {rows}
        ELSE {v \in versions :
                 alike => \A i \in DOMAIN v : \A j \in i + 1..Len(v) :
                              ~before(v[j].columns[n], v[i].columns[n])}

apply_limit(rows, limit) ==
    IF limit <= 0 \/ limit >= Len(rows) THEN rows ELSE SubSeq(rows, 1, limit)

(* The column of a row for an item of the SELECT list.                     *)
Source(row, n) ==
    IF n \in DOMAIN row.columns THEN {n}
    ELSE {k \in DOMAIN row.columns : Qualifier(n) = NoName /\ Base(k) = Base(n)}

Projected(row, columns, labels) ==
    LET found == {i \in DOMAIN columns : Source(row, columns[i]) # {}}
        last(n) == CHOOSE i \in found : labels[i] = n /\ \A j \in found : labels[j] = n => j <= i
    IN  [row EXCEPT !.columns =
            [n \in {labels[i] : i \in found} |->
                row.columns[CHOOSE k \in Source(row, columns[last(n)]) : TRUE]]]

-----------------------------------------------------------------------------
(* The part of SQL that statements are executed in as they are written.    *)

(* The names of columns that the steps of a SELECT look at.                *)
Used(s) ==
    LET on == {j \in DOMAIN s.joins : ~s.joins[j].natural}
        columns == {i \in DOMAIN s.where : s.where[i].isColumn}
    IN  {s.where[i].column : i \in DOMAIN s.where}
            \cup {Payload(s.where[i].operand) : i \in columns}
            \cup {s.joins[j].left : j \in on} \cup {s.joins[j].right : j \in on}
            \cup ({s.order} \ {Star})

Asked(s) == {s.select[i].column : i \in DOMAIN s.select}

Shared(s) ==
    {c \in UNION {ColumnsOf(x.table) : x \in Range(Sources(s))} :
        Cardinality({i \in DOMAIN Sources(s) : c \in ColumnsOf(Sources(s)[i].table)}) > 1}

(* Columns left out of the SELECT list, or qualified in it, are dropped    *)
(* before the other clauses see them.                                      *)
KeepsColumns(s) ==
    s.select # <<>> =>
        /\ \A n \in Asked(s) : Qualifier(n) = NoName
        /\ {Base(n) : n \in Used(s)} \cup Shared(s) \subseteq {Base(n) : n \in Asked(s)}
        /\ \A i, j \in DOMAIN s.select : s.select[i].label = s.select[j].label => i = j

(* Natural joins, which come first, make one column of those of one name.  *)
InNatural(s, i) == \E j \in DOMAIN s.joins : s.joins[j].natural /\ i <= Len(s.from) + j

(* Every name is that of a column, and of one only.                        *)
IsClear(s, n) ==
    /\ Candidates(s, n) # {}
    /\ \A i, j \in Candidates(s, n) : i = j \/ (InNatural(s, i) /\ InNatural(s, j))

NamesAreClear(s) == \A n \in Used(s) \cup Asked(s) : IsClear(s, n)

(* No AND comes after an OR.                                               *)
LinksInOrder(s) ==
    \A i, j \in 1..Len(s.where) - 1 : i < j => s.where[i].link = "AND" \/ s.where[j].link = "OR"

(* A text with a dot passes for a column, a column without one for a text. *)
OperandIsPlain(cond) == cond.isColumn <=> IsColumnReference(cond.operand)

TypeOf(s, n) == Schemas[Sources(s)[SourceOf(s, n)].table].types[Base(n)]

(* An operand is not truncated, nor compared across kinds.                 *)
OperandFits(s, cond) ==
    LET type == TypeOf(s, cond.column)
        other == IF cond.isColumn THEN TypeOf(s, Payload(cond.operand)) ELSE Type(cond.operand)
    IN  \/ type \in {"string", "int"} /\ other = type
        \/ type = "float" /\ other # "string"

(* The sources differ, and no alias is the name of a table in use.         *)
SourcesDiffer(s) ==
    LET src == Sources(s)
    IN  \A i, j \in DOMAIN src :
            /\ src[i].alias # src[j].table
            /\ i # j => src[i].table # src[j].table
                        /\ (src[i].alias = NoName \/ src[i].alias # src[j].alias)

(* Joins are inner, those that are natural come first and have columns in  *)
(* common, and ON has the new table on its right.                          *)
PlainJoins(s) ==
    /\ s.joins # <<>> => Len(s.from) = 1
    /\ \A j \in DOMAIN s.joins :
        LET join == s.joins[j]
            at == Len(s.from) + j
            columns(i) == ColumnsOf(Sources(s)[i].table)
            types(i) == Schemas[Sources(s)[i].table].types
        IN  /\ join.type = "INNER"
            /\ IF join.natural
               THEN /\ \A k \in 1..j : s.joins[k].natural
                    /\ \E i \in 1..at - 1 : columns(i) \cap columns(at) # {}
                    /\ \A i \in 1..at - 1 : \A c \in columns(i) \cap columns(at) :
                          types(i)[c] = types(at)[c]
               ELSE /\ Qualifier(join.right) = Label(join.table)
                    /\ SourceOf(s, join.left) < at
                    /\ TypeOf(s, join.left) = TypeOf(s, join.right)

(* After JOIN ON, columns of one name are told apart by aliases only.      *)
NamesApart(s) ==
    LET on == {j \in DOMAIN s.joins : ~s.joins[j].natural}
    IN  on = {} \/ Shared(s) = {} \/ \A i \in DOMAIN Sources(s) : Sources(s)[i].alias # NoName

(* What a column of source i is called once the sources are joined.        *)
Heading(s, i, c) ==
    IF InNatural(s, i) THEN Name(c)
    ELSE IF Len(s.from) > 1 THEN <<Label(Sources(s)[i]), c>>
    ELSE <<Sources(s)[i].alias, c>>

(* ORDER BY names the column as the rows have it by then.                  *)
OrderIsFound(s) ==
    s.order = Star \/ s.order = Heading(s, SourceOf(s, s.order), Base(s.order))

PlainSelect(s) ==
    /\ SourcesDiffer(s) /\ KeepsColumns(s) /\ NamesAreClear(s) /\ LinksInOrder(s)
    /\ PlainJoins(s) /\ NamesApart(s) /\ OrderIsFound(s) /\ s.limit # 0
    /\ \A i \in DOMAIN s.where : OperandIsPlain(s.where[i]) /\ OperandFits(s, s.where[i])

(* Changes need a literal of the very type, in the one condition that is   *)
(* kept, and a value of the column's type.                                 *)
PlainCondition(s) ==
    \A i \in DOMAIN s.where :
        /\ OperandIsPlain(s.where[i]) /\ ~s.where[i].isColumn
        /\ s.where[i].column \in {Name(col) : col \in ColumnsOf(s.table)}
        /\ Type(s.where[i].operand) = Schemas[s.table].types[Base(s.where[i].column)]

PlainChange(s) ==
    CASE s.kind = "insert" ->
            /\ Range(Listed(s)) = ColumnsOf(s.table) /\ IsInjective(Listed(s))
            /\ \A i \in DOMAIN Listed(s) \cap DOMAIN s.literals :
                  IF Listed(s)[i] = Schemas[s.table].key
                  THEN Type(s.literals[i]) = Schemas[s.table].types[Listed(s)[i]]
                  ELSE IsNumber(s.literals[i]) = (Schemas[s.table].types[Listed(s)[i]] # "string")
      [] s.kind = "update" ->
            /\ Len(s.where) = 1 /\ PlainCondition(s)
            /\ s.set.column \in ColumnsOf(s.table) \ {Schemas[s.table].key}
            /\ Type(s.set.value) = Schemas[s.table].types[s.set.column]
            /\ Type(s.set.value) # "string" \/ Payload(s.set.value) \notin DashedTexts
            /\ s.set.plus # 0 => Type(s.set.value) = "int" /\ s.set.plus % 2 = 0
      [] s.kind = "delete" -> Len(s.where) <= 1 /\ PlainCondition(s)

-----------------------------------------------------------------------------

Init ==
    /\ tables = InitialTables /\ ideal = InitialTables
    /\ sql = None /\ pq = None /\ stage = "idle"
    /\ read = <<>> /\ result = <<>> /\ undo = <<>>
    /\ exact = TRUE /\ count = 0

Parse(s) ==
    /\ stage = "idle" /\ count < MaxStatements
    /\ sql' = s /\ pq' = sql_parser(s) /\ stage' = IF s.kind = "select" THEN "read" ELSE "change"
    /\ read' = <<>> /\ result' = <<>> /\ undo' = <<>>
    /\ count' = count + 1
    /\ UNCHANGED <<tables, ideal, exact>>

Unchanged == UNCHANGED <<tables, sql, pq, undo, ideal, exact, count>>

(* execute_select reads one table after the other ...                      *)
ReadTable ==
    /\ stage = "read"
    /\ LET t == pq.from_tables[Len(read) + 1]
           columns == [i \in DOMAIN pq.select_columns |->
                          resolve_aliased_column(pq.select_columns[i], pq.table_aliases)]
       IN  read' = Append(read, apply_table_aliases(full_scan(t, columns), t, pq.table_aliases))
    /\ result' = read'[1]
    /\ stage' = IF Len(read') < Len(pq.from_tables) THEN "read"
                ELSE IF Len(read') > 1 THEN "join" ELSE "where"
    /\ Unchanged

(* ... joins them from the left ...                                        *)
JoinTables ==
    /\ stage = "join" /\ stage' = "where"
    /\ LET joined[i \in DOMAIN read] ==
               IF i = 1 THEN read[1]
               ELSE execute_join(joined[i - 1], read[i], pq.join_clauses, i - 1)
       IN  result' = joined[Len(read)]
    /\ UNCHANGED read /\ Unchanged

FilterRows ==
    /\ stage = "where" /\ stage' = "order"
    /\ result' = apply_where_clause(result, pq.where_conditions)
    /\ UNCHANGED read /\ Unchanged

OrderRows ==
    /\ stage = "order" /\ stage' = "limit"
    /\ result' \in IF pq.order_by_column = Star THEN {result}
                   ELSE OrderedVersions(result, pq.order_by_column, pq.order_ascending)
    /\ UNCHANGED read /\ Unchanged

(* ... and cuts and renames what is left.                                  *)
LimitRows ==
    /\ stage = "limit" /\ stage' = "done"
    /\ LET limited == apply_limit(result, pq.limit_value)
       IN  result' = IF pq.select_columns = <<Star>> THEN limited
                     ELSE [i \in DOMAIN limited |->
                              Projected(limited[i], pq.select_columns, pq.select_aliases)]
    /\ UNCHANGED read /\ Unchanged

Return ==
    /\ stage = "done" /\ stage' = "idle"
    /\ sql' = None /\ pq' = None /\ read' = <<>> /\ result' = <<>> /\ undo' = <<>>
    /\ UNCHANGED <<tables, ideal, exact, count>>

-----------------------------------------------------------------------------
(* Changes of a table.                                                     *)

Names(columns) == [i \in DOMAIN columns |-> Name(columns[i])]

insert_columns ==
    IF pq.insert_columns = <<>> THEN Schemas[pq.table].columns ELSE pq.insert_columns

(* Fault: no key is compared.                                              *)
NoDuplicateKey == FALSE

(* The key is compared as it was written, with keys of the same type.      *)
DuplicateKey ==
    LET key == Schemas[pq.table].key
        at == {i \in DOMAIN insert_columns \cap DOMAIN pq.insert_values : insert_columns[i] = key}
    IN  \E i \in at : \E row \in Range(tables[pq.table]) :
            /\ Name(key) \in DOMAIN row /\ row[Name(key)] = pq.insert_values[i]
            /\ Type(row[Name(key)]) # "double"

MappedRow ==
    [n \in Range(Names(insert_columns)) |->
        Converted(pq.insert_values[CHOOSE i \in DOMAIN insert_columns : insert_columns[i] = Base(n)],
                  Schemas[pq.table].types[Base(n)])]

(* The rows of the table change; what they ought to be is remembered.      *)
Changed(rows) ==
    /\ stage = "change" /\ stage' = "done"
    /\ tables' = [tables EXCEPT ![pq.table] = rows]
    /\ exact' = (exact /\ PlainChange(sql))
    /\ ideal' = IF exact' THEN [ideal EXCEPT ![pq.table] = RowsAfter(sql, ideal)] ELSE ideal
    /\ UNCHANGED <<sql, pq, read, result, count>>

execute_insert ==
    /\ pq.kind = "insert"
    /\ Changed(IF DuplicateKey \/ Len(pq.insert_values) # Len(insert_columns)
               THEN tables[pq.table] ELSE Append(tables[pq.table], MappedRow))
    /\ UNCHANGED undo

Assign(row, value) ==
    LET at == Name(pq.set_value.column)
    IN  [n \in DOMAIN row \cup {at} |-> IF n = at THEN value ELSE row[n]]

(* The rows a change is about, as the query processor and as the storage   *)
(* engine find them.                                                       *)
FoundByProcessor ==
    {i \in DOMAIN tables[pq.table] :
        pq.where_conditions = <<>> \/ Selected([columns |-> tables[pq.table][i]], pq.where_conditions)}
FoundByStorage ==
    {i \in DOMAIN tables[pq.table] : check_conditions(tables[pq.table][i], pq.where_conditions)}

(* evaluate_expression: a whole result is an int, any other a float.  A    *)
(* text with a dash is an expression too, of operands that are 0.          *)
IsDashed(v) == Type(v) = "string" /\ Payload(v) \in DashedTexts
IsExpression == pq.set_value.plus # 0 \/ IsDashed(pq.set_value.value)

evaluate_expression(row) ==
    LET n == Name(pq.set_value.column)
        amount == IF pq.set_value.plus = 0 THEN 0
                  ELSE (IF n \in DOMAIN row /\ IsNumber(row[n]) THEN Payload(row[n]) ELSE 0)
                       + pq.set_value.plus
    IN  <<IF amount % 2 = 0 THEN "int" ELSE "float", amount>>

(* Expressions go row by row: each row found is looked up by its key, in   *)
(* the table as the rows before have left it.                              *)
UpdatedByKey ==
    LET key == Name(Schemas[pq.table].key)
        old == tables[pq.table]
        after[i \in 0..Len(old)] ==
            IF i = 0 THEN old
            ELSE IF i \notin FoundByProcessor \/ key \notin DOMAIN old[i] THEN after[i - 1]
            ELSE [k \in DOMAIN old |->
                     IF check_conditions(after[i - 1][k],
                            <<[column |-> key, operation |-> "=", operand |-> old[i][key]]>>)
                     THEN Assign(after[i - 1][k], evaluate_expression(old[i]))
                     ELSE after[i - 1][k]]
    IN  after[Len(old)]

(* Without conditions the storage engine inserts the new values as a row.  *)
(* An expression that applies to no row is stored as the text it is.       *)
Updated ==
    LET value == IF pq.set_value.plus = 0 THEN pq.set_value.value
                 ELSE <<"string", Name("expression")>>
    IN  IF pq.where_conditions = <<>>
        THEN Append(tables[pq.table], [n \in {Name(pq.set_value.column)} |-> value])
        ELSE [i \in DOMAIN tables[pq.table] |->
                 IF i \in FoundByStorage THEN Assign(tables[pq.table][i], value)
                 ELSE tables[pq.table][i]]

execute_update ==
    /\ pq.kind = "update"
    /\ Changed(IF IsExpression /\ FoundByProcessor # {} THEN UpdatedByKey ELSE Updated)
    /\ UNCHANGED undo

RowsAt(indices) == Sublist(tables[pq.table], indices)

(* Fault: without conditions nothing is remembered.                        *)
LoggedByCondition == {i \in FoundByProcessor : pq.where_conditions # <<>>}

(* A rollback puts back the rows the processor found.                      *)
Logged == FoundByProcessor

execute_delete ==
    /\ pq.kind = "delete"
    /\ Changed(RowsAt(DOMAIN tables[pq.table] \ FoundByStorage))
    /\ undo' = IF FoundByStorage = {} THEN <<>> ELSE RowsAt(Logged)

Next ==
    \/ \E s \in Written : Parse(s)
    \/ ReadTable \/ JoinTables \/ FilterRows \/ OrderRows \/ LimitRows \/ Return
    \/ execute_insert \/ execute_update \/ execute_delete

Spec == Init /\ [][Next]_vars

-----------------------------------------------------------------------------

(* A row of the result as the client sees it, or "missing" for a column.   *)
Shown(row) ==
    [f \in Fields(sql) |-> IF Found(row, f) = {} THEN <<"missing", 0>> ELSE ValueOf(row, f)]

(* A SELECT in the plain part of SQL returns what it means: scans, joins,  *)
(* filter, order, limit and renaming together lose, repeat, mix up or      *)
(* disorder no row.                                                        *)
SelectsAreExact ==
    exact /\ stage = "done" /\ sql.kind = "select" /\ PlainSelect(sql) =>
        IsAnswer(sql, tables, [i \in DOMAIN result |-> Shown(result[i])])

(* Plain changes, one after the other, leave the rows they mean: only the  *)
(* rows of the clause change, and no key comes twice.                      *)
ChangesAreExact == exact => tables = ideal

Occurrences(row, rows) == Cardinality({i \in DOMAIN rows : rows[i] = row})

(* The rows a DELETE hands over for a rollback are those it removes, plain *)
(* or not, unless its literal is a text with a dot: the processor and the  *)
(* storage engine find the same rows, or the storage engine finds none.    *)
DeletesCanBeUndone ==
    [][exact /\ execute_delete /\ (\A i \in DOMAIN pq.where_conditions :
                                      ~IsColumnReference(pq.where_conditions[i].operand)) =>
        LET old == tables[pq.table]
            new == tables'[pq.table]
        IN  \A row \in Range(old \o undo') :
                Occurrences(row, old) = Occurrences(row, new) + Occurrences(row, undo')]_vars

=============================================================================

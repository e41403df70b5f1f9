----------------------------- MODULE Relational -----------------------------
(***************************************************************************)
(* What an SQL statement means: the reference for Statements.              *)
(*                                                                         *)
(* A name is a pair of a qualifier, "" for none, and a column.  A value    *)
(* has a type and, if it is a number, twice its amount, so that halves are *)
(* exact.  A text is a name too: one with a qualifier stands for a text    *)
(* with a dot, such as an e-mail address.  A row maps names to values.     *)
(***************************************************************************)
EXTENDS Integers, Sequences, SequencesExt, FiniteSets

CONSTANT Schemas    \* Schemas[t] = [columns |-> in order, types |-> of each, key |-> column]

(* A double is only found in statements: it is how a fraction is written.  *)
ColumnTypes == {"int", "float", "string"}
ColumnNames == STRING \X STRING
Values ==
    ({"int"} \X {amount \in Int : amount % 2 = 0}) \cup ({"float", "double"} \X Int)
        \cup ({"string"} \X ColumnNames)

(* No qualifier, no alias.                                                 *)
NoName == ""
Name(c) == <<NoName, c>>
Qualifier(n) == n[1]
Base(n) == n[2]

Type(v) == v[1]
Payload(v) == v[2]
IsNumber(v) == Type(v) \in {"int", "float", "double"}

(* All columns of a table; in ORDER BY, none.                              *)
All == "*"
Star == <<All, All>>
ColumnsOf(t) == Range(Schemas[t].columns)

(* "" and "*" stand for something else where a table is named.             *)
ASSUME SchemasAssumption ==
    \A t \in DOMAIN Schemas :
        /\ t \in STRING \ {NoName, All}
        /\ Schemas[t].columns \in Seq(STRING) /\ IsInjective(Schemas[t].columns)
        /\ Schemas[t].types \in [ColumnsOf(t) -> ColumnTypes]
        /\ Schemas[t].key \in ColumnsOf(t)

(* The rows a table may have, each with a key of its own.                  *)
Rows(t) ==
    {row \in [{Name(col) : col \in ColumnsOf(t)} -> Values] :
        \A col \in ColumnsOf(t) : Type(row[Name(col)]) = Schemas[t].types[col]}

IsTable(t, rows) ==
    /\ rows \in Seq(Rows(t))
    /\ \A i, j \in DOMAIN rows :
          rows[i][Name(Schemas[t].key)] = rows[j][Name(Schemas[t].key)] => i = j

(* The statements there are, as written.                                   *)
Tables == DOMAIN Schemas
TableSources == [table : Tables, alias : STRING \ {All}]
Conditions ==
    {cond \in [column : ColumnNames, operation : {"=", "!=", "<", ">"}, operand : Values,
                isColumn : BOOLEAN, link : {"AND", "OR"}] :
        cond.isColumn => Type(cond.operand) = "string"}

Selects ==
    [kind : {"select"}, select : Seq([column : ColumnNames, label : STRING]),
     from : Seq(TableSources) \ {<<>>},
     joins : Seq([table : TableSources, type : STRING, natural : BOOLEAN,
                  left : ColumnNames, right : ColumnNames]),
     where : Seq(Conditions), order : ColumnNames, ascending : BOOLEAN, limit : Int]

Inserts == [kind : {"insert"}, table : Tables, columns : Seq(STRING), literals : Seq(Values)]

Updates ==
    [kind : {"update"}, table : Tables, where : Seq(Conditions),
     set : [column : STRING, value : Values, plus : Int]]

Deletes == [kind : {"delete"}, table : Tables, where : Seq(Conditions)]

(* Comparison of numbers or texts; texts are only compared for equality.   *)
Holds(operation, x, y) ==
    CASE operation = "=" -> x = y
      [] operation = "!=" -> x # y
      [] operation = "<" -> x < y
      [] operation = ">" -> x > y

(* A value as a column of the type has it.                                 *)
Converted(v, type) ==
    IF type = "int" /\ IsNumber(v) THEN <<"int", Payload(v) - (Payload(v) % 2)>>
    ELSE IF type = "float" /\ IsNumber(v) THEN <<"float", Payload(v)>>
    ELSE v

(* The elements at some of the indices of a sequence, in their order.      *)
Sublist(rows, indices) ==
    [i \in 1..Cardinality(indices) |->
        rows[CHOOSE k \in indices : Cardinality({j \in indices : j <= k}) = i]]

-----------------------------------------------------------------------------
(* SELECT.  The sources are the tables of FROM and of the JOINs after it.  *)

Sources(s) == s.from \o [i \in DOMAIN s.joins |-> s.joins[i].table]
Label(source) == IF source.alias = NoName THEN source.table ELSE source.alias

(* A combination picks a row of every source.                              *)
Combinations(s, db) ==
    LET src == Sources(s)
        index == UNION {DOMAIN db[src[i].table] : i \in DOMAIN src}
    IN  {c \in [DOMAIN src -> index] : \A i \in DOMAIN src : c[i] \in DOMAIN db[src[i].table]}

(* The source a name is about, the first of those that natural joins made  *)
(* equal.                                                                  *)
Candidates(s, n) ==
    {i \in DOMAIN Sources(s) :
        /\ Base(n) \in ColumnsOf(Sources(s)[i].table)
        /\ Qualifier(n) \in {NoName, Label(Sources(s)[i])}}

SourceOf(s, n) == CHOOSE i \in Candidates(s, n) : \A j \in Candidates(s, n) : i <= j

ValueIn(s, db, c, n) ==
    LET i == SourceOf(s, n)
    IN  db[Sources(s)[i].table][c[i]][Name(Base(n))]

Satisfies(s, db, c, cond) ==
    LET left == ValueIn(s, db, c, cond.column)
        right == IF cond.isColumn THEN ValueIn(s, db, c, cond.operand[2]) ELSE cond.operand
    IN  /\ IsNumber(left) <=> IsNumber(right)
        /\ Holds(cond.operation, Payload(left), Payload(right))

(* AND binds more tightly than OR: some run of conditions between two ORs  *)
(* holds.                                                                  *)
SatisfiesAll(s, db, c, where) ==
    where = <<>> \/
    \E first \in DOMAIN where : \E last \in first..Len(where) :
        /\ first = 1 \/ where[first - 1].link = "OR"
        /\ last = Len(where) \/ where[last].link = "OR"
        /\ \A i \in first..last : Satisfies(s, db, c, where[i])

Joined(s, db, c) ==
    \A j \in DOMAIN s.joins :
        LET join == s.joins[j]
            at == Len(s.from) + j
            src == Sources(s)
        IN  IF join.natural
            THEN \A i \in 1..at - 1 :
                    \A col \in ColumnsOf(src[i].table) \cap ColumnsOf(src[at].table) :
                        db[src[i].table][c[i]][Name(col)] = db[src[at].table][c[at]][Name(col)]
            ELSE ValueIn(s, db, c, join.left) = ValueIn(s, db, c, join.right)

Chosen(s, db) == {c \in Combinations(s, db) : Joined(s, db, c) /\ SatisfiesAll(s, db, c, s.where)}

(* The names of the columns of the answer, and what each stands for.       *)
Fields(s) ==
    IF s.select = <<>>
    THEN UNION {{<<Label(src), col>> : col \in ColumnsOf(src.table)} : src \in Range(Sources(s))}
    ELSE {Name(s.select[i].label) : i \in DOMAIN s.select}

Expression(s, field) ==
    IF s.select = <<>> THEN field
    ELSE s.select[CHOOSE i \in DOMAIN s.select : Name(s.select[i].label) = field].column

Answer(s, db, c) == [f \in Fields(s) |-> ValueIn(s, db, c, Expression(s, f))]

Before(s, x, y) == IF s.ascending THEN Payload(x) < Payload(y) ELSE Payload(x) > Payload(y)

(* answer is one of the answers allowed: rows of the chosen combinations,  *)
(* each once, ordered, and as many of the first ones as the limit says.    *)
IsAnswer(s, db, answer) ==
    LET chosen == Chosen(s, db)
        key(c) == ValueIn(s, db, c, s.order)
        size == IF s.limit < 0 \/ s.limit > Cardinality(chosen) THEN Cardinality(chosen) ELSE s.limit
    IN  /\ Len(answer) = size
        /\ \E pick \in [1..size -> chosen] :
              /\ \A i, j \in 1..size : i # j => pick[i] # pick[j]
              /\ \A i \in 1..size : Answer(s, db, pick[i]) = answer[i]
              /\ s.order # Star =>
                    /\ \A i \in 1..size : \A j \in i + 1..size : ~Before(s, key(pick[j]), key(pick[i]))
                    /\ \A c \in chosen \ Range(pick) : \A i \in 1..size :
                          ~Before(s, key(c), key(pick[i]))

-----------------------------------------------------------------------------
(* Changes of a table, row by row, in place.                               *)

(* A change is a query on its one table, for its conditions.               *)
Hit(s, db, i) ==
    SatisfiesAll([from |-> <<[table |-> s.table, alias |-> NoName]>>, joins |-> <<>>],
                 db, <<i>>, s.where)

Assigned(row, set) ==
    IF set.plus = 0 THEN set.value
    ELSE <<Type(row[Name(set.column)]), Payload(row[Name(set.column)]) + set.plus>>

KeyTaken(t, row, rows) ==
    \E i \in DOMAIN rows : rows[i][Name(Schemas[t].key)] = row[Name(Schemas[t].key)]

(* The row of an INSERT, with or without a list of columns.                *)
Listed(s) == IF s.columns = <<>> THEN Schemas[s.table].columns ELSE s.columns

NewRow(s) ==
    [n \in {Name(col) : col \in Range(Listed(s))} |->
        Converted(s.literals[CHOOSE i \in DOMAIN Listed(s) : Listed(s)[i] = Base(n)],
                  Schemas[s.table].types[Base(n)])]

RowsAfter(s, db) ==
    LET rows == db[s.table]
    IN  CASE s.kind = "insert" ->
               IF Len(s.literals) # Len(Listed(s)) \/ KeyTaken(s.table, NewRow(s), rows)
               THEN rows ELSE Append(rows, NewRow(s))
          [] s.kind = "update" ->
               [i \in DOMAIN rows |->
                   IF Hit(s, db, i)
                   THEN [rows[i] EXCEPT ![Name(s.set.column)] = Assigned(rows[i], s.set)]
                   ELSE rows[i]]
          [] s.kind = "delete" ->
               Sublist(rows, {i \in DOMAIN rows : ~Hit(s, db, i)})

=============================================================================

---------------------------- MODULE MCStatements ----------------------------
(* Statements over students and the courses they take, with statements of  *)
(* every shape, inside and outside of the plain part of SQL.               *)
EXTENDS Statements

Whole(n) == <<"int", 2 * n>>
Decimal(halves) == <<"double", halves>>
Float(halves) == <<"float", halves>>
Text(c) == <<"string", <<"", c>>>>
DottedText(q, c) == <<"string", <<q, c>>>>

MCSchemas ==
    "student" :> [columns |-> <<"id", "name", "gpa">>, key |-> "id",
                  types |-> [id |-> "int", name |-> "string", gpa |-> "float"]] @@
    "takes" :> [columns |-> <<"id", "course">>, key |-> "course",
                types |-> [id |-> "int", course |-> "int"]] @@
    "room" :> [columns |-> <<"no", "course">>, key |-> "no",
               types |-> [no |-> "int", course |-> "int"]]

Student(id, name, gpa) ==
    Name("id") :> Whole(id) @@ Name("name") :> Text(name) @@ Name("gpa") :> Float(gpa)
Takes(id, course) == Name("id") :> Whole(id) @@ Name("course") :> Whole(course)
Room(no, course) == Name("no") :> Whole(no) @@ Name("course") :> Whole(course)

MCTables ==
    "student" :> <<Student(2, "ann", 7), Student(1, "bob", 6)>> @@
    "takes" :> <<Takes(1, 1), Takes(2, 2), Takes(2, 3)>> @@
    "room" :> <<Room(1, 2)>>

MCDashed == {<<"", "a-b">>}

Table(t) == [table |-> t, alias |-> ""]
As(t, a) == [table |-> t, alias |-> a]
Item(c) == [column |-> Name(c), label |-> c]
Where(n, operation, v) ==
    [column |-> n, operation |-> operation, operand |-> v, isColumn |-> FALSE, link |-> "AND"]
Or(cond) == [cond EXCEPT !.link = "OR"]
SameAs(n, m) ==
    [column |-> n, operation |-> "=", operand |-> <<"string", m>>, isColumn |-> TRUE, link |-> "AND"]
On(table, left, right) ==
    [table |-> table, type |-> "INNER", natural |-> FALSE, left |-> left, right |-> right]
Natural(table) ==
    [table |-> table, type |-> "INNER", natural |-> TRUE, left |-> Star, right |-> Star]

Select(items, from, joins, where) ==
    [kind |-> "select", select |-> items, from |-> from, joins |-> joins, where |-> where,
     order |-> Star, ascending |-> TRUE, limit |-> -1]
Ordered(s, n, ascending, limit) ==
    [s EXCEPT !.order = n, !.ascending = ascending, !.limit = limit]

id == Name("id")
course == Name("course")
gpa == Name("gpa")

(* WHERE clauses on the students.                                          *)
MCClauses ==
    {<<>>, <<Where(id, "=", Whole(1))>>, <<Where(id, "!=", Whole(1))>>, <<Where(id, "<", Decimal(3))>>,
     <<Where(gpa, ">", Decimal(6))>>, <<Where(gpa, ">", Whole(3))>>,
     <<Where(Name("name"), "=", Text("ann"))>>, <<Where(Name("name"), "!=", DottedText("a", "b"))>>,
     <<Where(id, "=", Whole(1)), Where(id, "=", Whole(2))>>,
     <<Where(id, "<", Whole(2)), Or(Where(gpa, "<", Whole(3))), Where(id, "=", Whole(2))>>,
     <<Or(Where(id, "=", Whole(2))), Where(id, "=", Whole(1)), Where(gpa, "<", Whole(2))>>}

OneTable == {Select(<<>>, <<Table("student")>>, <<>>, where) : where \in MCClauses}
    \cup {Select(<<Item("id"), [column |-> gpa, label |-> "grade"]>>, <<As("student", "s")>>, <<>>, where) :
             where \in MCClauses}

Joins ==
    {Select(<<>>, <<Table("student")>>, <<Natural(Table("takes"))>>, <<>>),
     Select(<<>>, <<As("student", "s")>>, <<Natural(As("takes", "t"))>>, <<Where(gpa, ">", Decimal(6))>>),
     Select(<<>>, <<Table("student")>>, <<On(Table("takes"), <<"student", "id">>, <<"takes", "id">>)>>, <<>>),
     Select(<<>>, <<As("student", "s")>>, <<On(As("takes", "t"), <<"s", "id">>, <<"t", "id">>)>>,
            <<Where(<<"t", "course">>, "<", Whole(3))>>),
     Select(<<Item("id"), Item("name"), Item("course")>>, <<Table("student")>>,
            <<Natural(Table("takes"))>>, <<>>),
     Select(<<>>, <<Table("student"), Table("takes")>>, <<>>,
            <<SameAs(<<"student", "id">>, <<"takes", "id">>)>>),
     Select(<<>>, <<Table("student")>>, <<Natural(Table("takes")), Natural(Table("room"))>>, <<>>),
     Select(<<>>, <<Table("student"), Table("takes")>>,
            <<On(Table("room"), <<"takes", "course">>, <<"room", "course">>)>>, <<>>),
     Select(<<>>, <<As("student", "s"), As("takes", "t")>>,
            <<On(As("room", "r"), <<"t", "course">>, <<"r", "course">>)>>, <<>>),
     Select(<<>>, <<Table("takes")>>, <<On(Table("room"), <<"takes", "id">>, <<"room", "no">>)>>, <<>>),
     Select(<<>>, <<As("takes", "t")>>, <<On(As("takes", "u"), <<"t", "id">>, <<"u", "course">>)>>, <<>>),
     Select(<<>>, <<As("takes", "t")>>, <<On(As("room", "r"), <<"r", "no">>, <<"t", "id">>)>>, <<>>)}

Sorted ==
    {Ordered(Select(<<>>, <<Table("takes")>>, <<>>, <<>>), id, ascending, limit) :
        ascending \in BOOLEAN, limit \in {-1, 0, 1, 2}}
    \cup {Ordered(Select(<<>>, <<As("student", "s")>>, <<Natural(As("takes", "t"))>>, <<>>), course, FALSE, 2),
          Ordered(Select(<<>>, <<Table("takes")>>, <<>>, <<>>), <<"takes", "id">>, FALSE, -1)}

Insert(table, columns, literals) ==
    [kind |-> "insert", table |-> table, columns |-> columns, literals |-> literals]

MCInserts ==
    {Insert("student", <<>>, <<Whole(1), Text("eve"), Decimal(7)>>),
     Insert("student", <<>>, <<Whole(3), Text("eve"), Whole(3)>>),
     Insert("student", <<>>, <<Whole(3), Text("eve")>>),
     Insert("student", <<"id", "gpa", "name">>, <<Whole(3), Decimal(7), Text("eve")>>),
     Insert("student", <<"id", "gpa", "name">>, <<Decimal(3), Decimal(7), Text("eve")>>),
     Insert("takes", <<"course">>, <<Whole(4)>>),
     Insert("takes", <<>>, <<Decimal(3), Whole(1)>>)}

Set(column, value, plus) == [column |-> column, value |-> value, plus |-> plus]

MCUpdates ==
    {[kind |-> "update", table |-> "student", set |-> set, where |-> where] :
        set \in {Set("name", Text("eve"), 0), Set("name", <<"string", <<"", "a-b">>>>, 0),
                 Set("id", Whole(0), 2), Set("gpa", Float(0), 1), Set("gpa", Decimal(7), 0)},
        where \in MCClauses}
    \cup {[kind |-> "update", table |-> "takes", set |-> Set("id", Whole(0), 2), where |-> where] :
             where \in {<<>>, <<Where(id, "=", Whole(2))>>, <<Where(id, "<", Whole(2))>>}}

MCDeletes == {[kind |-> "delete", table |-> "student", where |-> where] : where \in MCClauses}

MCWritten == OneTable \cup Joins \cup Sorted \cup MCInserts \cup MCUpdates \cup MCDeletes
=============================================================================

-------------------------- MODULE StatementsProofs --------------------------
(***************************************************************************)
(* Proofs that plain statements do what they mean, for all schemas, rows   *)
(* and statements: the changes of a table leave the rows the reference     *)
(* leaves, a DELETE hands over for a rollback the rows it removes, and a   *)
(* SELECT returns an answer the reference allows.                          *)
(***************************************************************************)
EXTENDS Statements, DataLemmas, FunctionTheorems

-----------------------------------------------------------------------------
(* Values, names and parts of tables.                                      *)

LEMMA ValueFacts ==
    ASSUME NEW v \in Values
    PROVE  /\ v = <<Type(v), Payload(v)>>
           /\ Type(v) \in {"int", "float", "double", "string"}
           /\ Type(v) = "int" => Payload(v) \in Int /\ Payload(v) % 2 = 0
           /\ Type(v) \in {"float", "double"} => Payload(v) \in Int
BY DEF Values, Type, Payload

LEMMA NumbersAreValues ==
    /\ \A n \in Int : n % 2 = 0 => <<"int", n>> \in Values
    /\ \A n \in Int : <<"float", n>> \in Values
BY DEF Values

LEMMA NameFacts ==
    /\ \A c : Base(Name(c)) = c /\ Qualifier(Name(c)) = NoName
    /\ \A c, d : Name(c) = Name(d) => c = d
BY DEF Base, Name, Qualifier

LEMMA ConvertedFacts ==
    ASSUME NEW v \in Values, NEW type \in ColumnTypes
    PROVE  /\ IsNumber(v) = (type # "string") =>
                 Converted(v, type) \in Values /\ Type(Converted(v, type)) = type
           /\ Type(v) = type => Converted(v, type) = v
<1>1. CASE type = "int" /\ IsNumber(v)
    <2>1. Payload(v) \in Int
        BY <1>1, ValueFacts DEF IsNumber
    <2> DEFINE n == Payload(v) - (Payload(v) % 2)
    <2>2. n \in Int /\ n % 2 = 0
        BY <2>1
    <2>3. Converted(v, type) = <<"int", n>>
        BY <1>1 DEF Converted
    <2>4. Type(v) = "int" => n = Payload(v)
        BY ValueFacts, <2>1
    <2> HIDE DEF n
    <2> QED
        BY <1>1, <2>2, <2>3, <2>4, ValueFacts, NumbersAreValues DEF Type
<1>2. CASE type = "float" /\ IsNumber(v)
    <2>1. Payload(v) \in Int /\ Converted(v, type) = <<"float", Payload(v)>>
        BY <1>2, ValueFacts DEF IsNumber, Converted
    <2> QED
        BY <1>2, <2>1, ValueFacts, NumbersAreValues DEF Type
<1>3. CASE ~IsNumber(v)
    BY <1>3, ValueFacts DEF Converted, ColumnTypes, IsNumber
<1>4. CASE type = "string"
    BY <1>4, ValueFacts DEF Converted, IsNumber
<1> QED
    BY <1>1, <1>2, <1>3, <1>4 DEF ColumnTypes

(* f lists the n members of S, each once.                                  *)
Enumerates(f, n, S) ==
    /\ f \in [1..n -> S]
    /\ \A i, j \in 1..n : f[i] = f[j] => i = j
    /\ \A x \in S : \E i \in 1..n : f[i] = x

Rank(I, k) == Cardinality({j \in I : j <= k})

LEMMA RankFacts ==
    ASSUME NEW N \in Nat, NEW I \in SUBSET (1..N)
    PROVE  /\ IsFiniteSet(I) /\ Cardinality(I) \in Nat
           /\ \A k \in I : Rank(I, k) \in 1..Cardinality(I)
           /\ \A k, l \in I : Rank(I, k) = Rank(I, l) => k = l
           /\ \A i \in 1..Cardinality(I) : \E k \in I : Rank(I, k) = i
<1>1. IsFiniteSet(1..N)
    BY FS_Interval
<1>2. IsFiniteSet(I) /\ Cardinality(I) \in Nat
    BY <1>1, FS_Subset, FS_CardinalityType
<1>3. ASSUME NEW k \in I
      PROVE  Rank(I, k) \in 1..Cardinality(I)
    <2> DEFINE S == {j \in I : j <= k}
    <2>1. S \in SUBSET I /\ k \in S
        OBVIOUS
    <2> HIDE DEF S
    <2>2. IsFiniteSet(S) /\ Cardinality(S) <= Cardinality(I) /\ Cardinality(S) \in Nat
        BY <1>2, <2>1, FS_Subset, FS_CardinalityType
    <2>3. Cardinality(S) # 0
        BY <2>1, <2>2, FS_EmptySet
    <2> QED
        BY <1>2, <2>2, <2>3 DEF Rank, S
<1>4. ASSUME NEW k \in I, NEW l \in I, k < l
      PROVE  Rank(I, k) # Rank(I, l)
    <2> DEFINE S == {j \in I : j <= k}
               T == {j \in I : j <= l}
    <2>0. k \in Nat /\ l \in Nat /\ \A j \in I : j \in Nat
        OBVIOUS
    <2>1. S \in SUBSET T /\ l \in T /\ l \notin S /\ T \in SUBSET I
        <3>1. \A j \in S : j \in T
            BY <1>4, <2>0
        <3>2. l \in T /\ l \notin S
            BY <1>4, <2>0
        <3> QED
            BY <3>1, <3>2
    <2> HIDE DEF S, T
    <2>2. IsFiniteSet(T)
        BY <1>2, <2>1, FS_Subset
    <2>3. Cardinality(T) = Cardinality(S) => T = S
        BY <2>1, <2>2, FS_Subset
    <2> QED
        BY <2>1, <2>3 DEF Rank, S, T
<1>5. \A k, l \in I : Rank(I, k) = Rank(I, l) => k = l
    BY <1>4
<1>6. \A i \in 1..Cardinality(I) : \E k \in I : Rank(I, k) = i
    <2> DEFINE n == Cardinality(I)
               f == [k \in I |-> Rank(I, k)]
    <2>1. f \in Injection(I, 1..n)
        BY <1>3, <1>5, Fun_IsInj
    <2>2. IsFiniteSet(1..n) /\ Cardinality(1..n) = n
        BY <1>2, FS_Interval
    <2>3. f \in Surjection(I, 1..n)
        <3> HIDE DEF f
        <3> QED
            BY <2>1, <2>2, FS_Injection
    <2>4. \A i \in 1..n : \E k \in I : f[k] = i
        <3> HIDE DEF f
        <3> QED
            BY <2>3, Fun_SurjectionProperties
    <2> QED
        BY <2>4
<1> QED
    BY <1>2, <1>3, <1>5, <1>6

LEMMA SublistIs ==
    ASSUME NEW R, NEW rows \in Seq(R), NEW I \in SUBSET (DOMAIN rows)
    PROVE  /\ IsFiniteSet(I) /\ Cardinality(I) \in Nat
           /\ Sublist(rows, I) \in Seq(R) /\ Len(Sublist(rows, I)) = Cardinality(I)
           /\ \E f : /\ Enumerates(f, Cardinality(I), I)
                     /\ \A i \in 1..Cardinality(I) : Sublist(rows, I)[i] = rows[f[i]]
<1> DEFINE n == Cardinality(I)
           f == [i \in 1..n |-> CHOOSE k \in I : Rank(I, k) = i]
<1>1. I \in SUBSET (1..Len(rows)) /\ Len(rows) \in Nat
    OBVIOUS
<1>2. /\ IsFiniteSet(I) /\ n \in Nat
      /\ \A k \in I : Rank(I, k) \in 1..n
      /\ \A k, l \in I : Rank(I, k) = Rank(I, l) => k = l
      /\ \A i \in 1..n : \E k \in I : Rank(I, k) = i
    BY <1>1, RankFacts
<1>3. \A i \in 1..n : f[i] \in I /\ Rank(I, f[i]) = i
    BY <1>2
<1>4. Sublist(rows, I) = [i \in 1..n |-> rows[f[i]]]
    BY DEF Sublist, Rank
<1>5. f \in [1..n -> I]
    BY <1>3
<1> HIDE DEF f
<1>6. \A x \in I : f[Rank(I, x)] = x
    BY <1>2, <1>3
<1>7. Enumerates(f, n, I)
    BY <1>2, <1>3, <1>5, <1>6 DEF Enumerates
<1>8. \A i \in 1..n : rows[f[i]] \in R
    BY <1>1, <1>3
<1>9. Sublist(rows, I) \in Seq(R) /\ Len(Sublist(rows, I)) = n
    BY <1>2, <1>4, <1>8
<1>10. \A i \in 1..n : Sublist(rows, I)[i] = rows[f[i]]
    BY <1>4
<1> HIDE DEF n
<1> QED
    BY <1>2, <1>7, <1>9, <1>10 DEF n
IsDatabase(db) == DOMAIN db = Tables /\ \A t \in Tables : IsTable(t, db[t])

LEMMA SchemaFacts ==
    ASSUME NEW t \in Tables
    PROVE  /\ Schemas[t].columns \in Seq(STRING) /\ IsInjective(Schemas[t].columns)
           /\ \A c \in ColumnsOf(t) : Schemas[t].types[c] \in ColumnTypes
           /\ Schemas[t].key \in ColumnsOf(t)
BY SchemasAssumption DEF Tables

LEMMA RowFacts ==
    ASSUME NEW t \in Tables, NEW row \in Rows(t)
    PROVE  /\ DOMAIN row = {Name(c) : c \in ColumnsOf(t)}
           /\ \A c \in ColumnsOf(t) :
                /\ row[Name(c)] \in Values
                /\ Type(row[Name(c)]) = Schemas[t].types[c]
                /\ Type(row[Name(c)]) \in ColumnTypes
BY SchemaFacts DEF Rows

LEMMA InsertIsExact ==
    ASSUME sql \in Inserts, pq = parse_insert_query(sql), PlainChange(sql), IsDatabase(tables)
    PROVE  /\ (IF DuplicateKey \/ Len(pq.insert_values) # Len(insert_columns)
               THEN tables[pq.table] ELSE Append(tables[pq.table], MappedRow)) = RowsAfter(sql, tables)
           /\ IsTable(sql.table, RowsAfter(sql, tables))
<1> DEFINE t == sql.table
           cols == Listed(sql)
           key == Schemas[t].key
           types == Schemas[t].types
           rows == tables[t]
           lits == sql.literals
<1>1. /\ sql.kind = "insert" /\ t \in Tables /\ lits \in Seq(Values)
      /\ sql.columns \in Seq(STRING)
      /\ pq.table = t /\ pq.insert_columns = sql.columns /\ pq.insert_values = lits
    BY DEF Inserts, parse_insert_query
<1>2. insert_columns = cols /\ cols \in Seq(STRING)
    BY <1>1, SchemaFacts DEF insert_columns, Listed
<1>3. /\ Range(cols) = ColumnsOf(t) /\ IsInjective(cols)
      /\ \A i \in DOMAIN cols \cap DOMAIN lits :
            IF cols[i] = key THEN Type(lits[i]) = types[cols[i]]
            ELSE IsNumber(lits[i]) = (types[cols[i]] # "string")
    BY <1>1 DEF PlainChange
<1>4. IsTable(t, rows)
    BY <1>1 DEF IsDatabase
<1>5. RowsAfter(sql, tables) =
        IF Len(lits) # Len(cols) \/ KeyTaken(t, NewRow(sql), rows) THEN rows
        ELSE Append(rows, NewRow(sql))
    BY <1>1 DEF RowsAfter
<1>6. \A c \in ColumnsOf(t) : types[c] \in ColumnTypes
    BY <1>1, SchemaFacts
<1>7. key \in ColumnsOf(t)
    BY <1>1, SchemaFacts
<1> DEFINE at(c) == CHOOSE i \in DOMAIN cols : cols[i] = c
<1>8. \A c \in ColumnsOf(t) : at(c) \in DOMAIN cols /\ cols[at(c)] = c
    BY <1>3 DEF Range
<1>9. NewRow(sql) = [n \in {Name(c) : c \in ColumnsOf(t)} |-> Converted(lits[at(Base(n))], types[Base(n)])]
    BY <1>3 DEF NewRow
<1>10. MappedRow = NewRow(sql)
    <2>1. Range(Names(insert_columns)) = {Name(c) : c \in ColumnsOf(t)}
        BY <1>2, <1>3 DEF Range, Names
    <2> QED
        BY <1>1, <1>2, <1>9, <2>1 DEF MappedRow
<1> HIDE DEF at, t, cols, key, types, rows, lits
<1>11. CASE Len(lits) # Len(cols)
    BY <1>1, <1>2, <1>4, <1>5, <1>11 DEF t, rows
<1>12. CASE Len(lits) = Len(cols)
    <2>1. DOMAIN lits = DOMAIN cols /\ \A i \in DOMAIN lits : lits[i] \in Values
        BY <1>1, <1>2, <1>12
    <2>2. ASSUME NEW c \in ColumnsOf(t)
          PROVE  /\ NewRow(sql)[Name(c)] = Converted(lits[at(c)], types[c])
                 /\ lits[at(c)] \in Values
                 /\ IF c = key THEN Type(lits[at(c)]) = types[c]
                    ELSE IsNumber(lits[at(c)]) = (types[c] # "string")
        <3>1. NewRow(sql)[Name(c)] = Converted(lits[at(c)], types[c])
            BY <1>9, NameFacts
        <3>2. at(c) \in DOMAIN cols \cap DOMAIN lits /\ cols[at(c)] = c
            BY <1>8, <2>1
        <3> QED
            BY <1>3, <2>1, <3>1, <3>2
    <2>3. ASSUME NEW c \in ColumnsOf(t)
          PROVE  NewRow(sql)[Name(c)] \in Values /\ Type(NewRow(sql)[Name(c)]) = types[c]
        <3>1. CASE c = key
            BY <1>6, <2>2, <3>1, ConvertedFacts
        <3>2. CASE c # key
            BY <1>6, <2>2, <3>2, ConvertedFacts
        <3> QED
            BY <3>1, <3>2
    <2>4. NewRow(sql) \in Rows(t)
        BY <1>9, <2>3 DEF Rows, types
    <2>5. NewRow(sql)[Name(key)] = lits[at(key)]
        BY <1>6, <1>7, <2>2, ConvertedFacts
    <2>6. DuplicateKey <=> KeyTaken(t, NewRow(sql), rows)
        <3>1. \A i \in DOMAIN cols \cap DOMAIN lits : cols[i] = key <=> i = at(key)
            BY <1>3, <1>7, <1>8 DEF IsInjective
        <3>2. at(key) \in DOMAIN cols \cap DOMAIN lits
            BY <1>7, <1>8, <2>1
        <3>3. \A i \in DOMAIN rows : /\ Name(key) \in DOMAIN rows[i]
                                     /\ Type(rows[i][Name(key)]) # "double"
            <4> TAKE i \in DOMAIN rows
            <4>1. rows[i] \in Rows(t)
                BY <1>4 DEF IsTable
            <4> QED
                BY <1>1, <1>7, <4>1, RowFacts DEF ColumnTypes, t
        <3>4. DuplicateKey <=> \E row \in Range(rows) : row[Name(key)] = lits[at(key)]
            <4>1. DuplicateKey <=>
                    \E row \in Range(rows) : /\ Name(key) \in DOMAIN row
                                             /\ row[Name(key)] = lits[at(key)]
                                             /\ Type(row[Name(key)]) # "double"
                BY <1>1, <1>2, <3>1, <3>2 DEF DuplicateKey, key, rows, t
            <4> QED
                BY <3>3, <4>1 DEF Range
        <3> QED
            BY <2>5, <3>4 DEF KeyTaken, Range, key, t
    <2>7. CASE DuplicateKey
        BY <1>1, <1>4, <1>5, <2>6, <2>7 DEF t, rows
    <2>8. CASE ~DuplicateKey
        <3>1. /\ RowsAfter(sql, tables) = Append(rows, NewRow(sql))
              /\ pq.insert_values = lits /\ Len(pq.insert_values) = Len(insert_columns)
            BY <1>1, <1>2, <1>5, <1>12, <2>6, <2>8
        <3>2. \A i \in DOMAIN rows : rows[i][Name(key)] # NewRow(sql)[Name(key)]
            BY <2>6, <2>8 DEF KeyTaken, key
        <3>3. IsTable(t, Append(rows, NewRow(sql)))
            <4>1. rows \in Seq(Rows(t))
                BY <1>4 DEF IsTable
            <4>2. \A i, j \in DOMAIN rows : rows[i][Name(key)] = rows[j][Name(key)] => i = j
                BY <1>4 DEF IsTable, key
            <4>3. Append(rows, NewRow(sql)) \in Seq(Rows(t))
                BY <2>4, <4>1
            <4> DEFINE new == Append(rows, NewRow(sql))
            <4>4. \A i \in DOMAIN new : \/ (i \in DOMAIN rows /\ new[i] = rows[i])
                                        \/ (i = Len(rows) + 1 /\ new[i] = NewRow(sql))
                BY <4>1
            <4> HIDE DEF new
            <4>5. \A i, j \in DOMAIN new : new[i][Name(key)] = new[j][Name(key)] => i = j
                BY <3>2, <4>2, <4>4
            <4> QED
                BY <4>3, <4>5 DEF IsTable, key, new
        <3> QED
            BY <1>1, <1>10, <2>8, <3>1, <3>3 DEF t, rows
    <2> QED
        BY <2>7, <2>8
<1> QED
    BY <1>11, <1>12

LEMMA TraceExists ==
    ASSUME NEW X, NEW N, NEW b \in X, NEW step, FoldSteps(X, N, step)
    PROVE  \E g : LeftTrace(X, N, b, step, g)
<1>1. PICK f : FitsLeft(X, N, b, step, f)
    BY LeftFoldsExist
<1>2. N \in Nat
    BY DEF FoldSteps
<1>3. f[{}] = b
    BY <1>1 DEF FitsLeft
<1>4. ASSUME NEW n \in 1..N PROVE f[1..n] = step[n][f[1..(n - 1)]]
    <2>0. n \in Nat /\ n # 0 /\ 1..n \in SUBSET (1..N)
        BY <1>2
    <2>1. Max(1..n) = n /\ (1..n) \ {n} = 1..(n - 1) /\ 1..n # {}
        BY <2>0, InitialPart
    <2> QED
        BY <1>1, <2>0, <2>1 DEF FitsLeft
<1> QED
    BY <1>3, <1>4, LeftFoldSteps

(* g[i] is what the first i of n conditions say of the row.                *)
Evaluates(row, conditions, n, g) ==
    /\ g \in [1..n -> BOOLEAN] /\ (g[1] <=> evaluate_condition(row, conditions[1]))
    /\ \A i \in 2..n :
          g[i] <=> IF conditions[i - 1].logical_operator = "OR"
                   THEN g[i - 1] \/ evaluate_condition(row, conditions[i])
                   ELSE g[i - 1] /\ evaluate_condition(row, conditions[i])

LEMMA SelectedIs ==
    ASSUME NEW row, NEW n \in Nat \ {0}, NEW conditions, DOMAIN conditions = 1..n,
           Len(conditions) = n
    PROVE  \E g : Evaluates(row, conditions, n, g) /\ (Selected(row, conditions) <=> g[n])
<1> DEFINE ev(i) == evaluate_condition(row, conditions[i])
           or(i) == conditions[i - 1].logical_operator = "OR"
           Fits(h) == h = [i \in 1..n |-> IF i = 1 THEN ev(1)
                                          ELSE IF or(i) THEN h[i - 1] \/ ev(i)
                                          ELSE h[i - 1] /\ ev(i)]
           c == CHOOSE h : Fits(h)
           step == [i \in 1..n |-> [x \in BOOLEAN |->
                       IF i = 1 THEN ev(1) ELSE IF or(i) THEN x \/ ev(i) ELSE x /\ ev(i)]]
<1>1. Selected(row, conditions) = c[n]
    BY DEF Selected
<1>2. \A i \in 1..n : ev(i) \in BOOLEAN
    BY DEF evaluate_condition
<1> HIDE DEF ev
<1>3. FoldSteps(BOOLEAN, n, step)
    BY <1>2 DEF FoldSteps
<1>4. PICK g : LeftTrace(BOOLEAN, n, TRUE, step, g)
    <2> HIDE DEF step
    <2> QED
        BY <1>3, TraceExists
<1> DEFINE h == [i \in 1..n |-> g[i]]
<1>5. \A i \in 1..n : g[i] \in BOOLEAN /\ g[i - 1] \in BOOLEAN /\ g[i] = step[i][g[i - 1]]
    BY <1>4 DEF LeftTrace
<1>6. \A i \in 1..n : g[i] = IF i = 1 THEN ev(1) ELSE IF or(i) THEN g[i - 1] \/ ev(i)
                             ELSE g[i - 1] /\ ev(i)
    BY <1>5
<1>7. Fits(h)
    <2>1. \A i \in 1..n : i # 1 => i - 1 \in 1..n
        OBVIOUS
    <2> HIDE DEF step
    <2> QED
        BY <1>6, <2>1
<1>8. Fits(c)
    BY <1>7
<1> HIDE DEF c
<1>9. c \in [1..n -> BOOLEAN]
    BY <1>2, <1>8
<1>10. 1 \in 1..n /\ c[1] = ev(1)
    BY <1>8
<1>11. \A i \in 2..n : c[i] = IF or(i) THEN c[i - 1] \/ ev(i) ELSE c[i - 1] /\ ev(i)
    <2>1. \A i \in 2..n : i \in 1..n /\ i # 1
        OBVIOUS
    <2> QED
        BY <1>8, <2>1
<1> QED
    BY <1>1, <1>9, <1>10, <1>11 DEF ev, Evaluates

LEMMA SelectedByOne ==
    ASSUME NEW row, NEW condition
    PROVE  Selected(row, <<condition>>) <=> evaluate_condition(row, condition)
<1> DEFINE conditions == <<condition>>
<1>1. DOMAIN conditions = 1..1 /\ Len(conditions) = 1 /\ conditions[1] = condition
    OBVIOUS
<1> HIDE DEF conditions
<1> DEFINE n == 1
<1>0. n \in Nat \ {0} /\ DOMAIN conditions = 1..n /\ Len(conditions) = n
    BY <1>1
<1> HIDE DEF n
<1>2. PICK g : Evaluates(row, conditions, n, g) /\ (Selected(row, conditions) <=> g[n])
    BY <1>0, SelectedIs
<1> QED
    BY <1>1, <1>2 DEF conditions, n, Evaluates

LEMMA EvaluatedIsMet ==
    ASSUME NEW t \in Tables, NEW row \in Rows(t), NEW condition,
           condition.operand \in Values, ~IsColumnReference(condition.operand),
           NEW c \in ColumnsOf(t), condition.column = Name(c),
           Type(condition.operand) = Schemas[t].types[c]
    PROVE  /\ evaluate_condition([columns |-> row], condition) <=> Meets(row, condition)
           /\ Meets(row, condition) <=>
                 Holds(condition.operation, Payload(row[Name(c)]), Payload(condition.operand))
<1> DEFINE n == Name(c)
           full == [columns |-> row]
           v == condition.operand
           x == row[n]
<1>1. n \in DOMAIN row /\ x \in Values /\ Type(x) = Type(v) /\ Type(v) \in ColumnTypes
    BY RowFacts
<1>2. Found(full, n) = {n} /\ ValueOf(full, n) = x
    <2>1. Found(full, n) = {n}
        BY <1>1 DEF Found
    <2>2. (CHOOSE k \in {n} : TRUE) = n
        OBVIOUS
    <2> QED
        BY <2>1, <2>2 DEF ValueOf
<1>3. evaluate_condition(full, condition) <=> Compare(x, condition.operation, v)
    BY <1>2 DEF evaluate_condition
<1>4. Compare(x, condition.operation, v) <=> Holds(condition.operation, Payload(x), Payload(v))
    <2>1. CASE Type(v) = "int"
        <3>1. Truncated(v) = Payload(v)
            BY <2>1, ValueFacts DEF Truncated
        <3> QED
            BY <1>1, <2>1, <3>1 DEF Compare, IsNumber
    <2>2. CASE Type(v) = "float"
        BY <1>1, <2>2 DEF Compare, IsNumber
    <2>3. CASE Type(v) = "string"
        BY <1>1, <2>3 DEF Compare, IsNumber
    <2> QED
        BY <1>1, <2>1, <2>2, <2>3 DEF ColumnTypes
<1>5. Meets(row, condition) <=> Holds(condition.operation, Payload(x), Payload(v))
    BY <1>1 DEF Meets, ColumnTypes
<1> QED
    BY <1>3, <1>4, <1>5

LEMMA HitIsHeld ==
    ASSUME NEW s, NEW db, IsDatabase(db), s.table \in Tables, NEW i \in DOMAIN db[s.table],
           NEW w \in Conditions, s.where = <<w>>, ~w.isColumn,
           NEW c \in ColumnsOf(s.table), w.column = Name(c),
           Type(w.operand) = Schemas[s.table].types[c]
    PROVE  Hit(s, db, i) <=>
               Holds(w.operation, Payload(db[s.table][i][Name(c)]), Payload(w.operand))
<1> DEFINE t == s.table
           one == <<[table |-> t, alias |-> NoName]>>
           q == [from |-> one, joins |-> <<>>]
           x == db[t][i][Name(c)]
<1>1. Sources(q) = one
    BY DEF Sources
<1>2. DOMAIN one = {1} /\ one[1].table = t
    OBVIOUS
<1>3. Candidates(q, Name(c)) = {1}
    BY <1>1, <1>2, NameFacts DEF Candidates
<1>4. SourceOf(q, Name(c)) = 1
    <2>1. (CHOOSE k \in {1} : \A j \in {1} : k <= j) = 1
        OBVIOUS
    <2> QED
        BY <1>3, <2>1 DEF SourceOf
<1> HIDE DEF q
<1>5. ValueIn(q, db, <<i>>, Name(c)) = x
    BY <1>1, <1>2, <1>4, NameFacts DEF ValueIn
<1>6. db[t][i] \in Rows(t)
    BY DEF IsDatabase, IsTable
<1>7. IsNumber(x) <=> IsNumber(w.operand)
    BY <1>6, RowFacts DEF IsNumber
<1>8. Satisfies(q, db, <<i>>, w) <=> Holds(w.operation, Payload(x), Payload(w.operand))
    BY <1>5, <1>7 DEF Satisfies
<1>9. Hit(s, db, i) <=> SatisfiesAll(q, db, <<i>>, s.where)
    BY DEF Hit, q
<1>10. SatisfiesAll(q, db, <<i>>, <<w>>) <=> Satisfies(q, db, <<i>>, w)
    <2> DEFINE where == <<w>>
    <2>1. where # <<>> /\ DOMAIN where = {1} /\ Len(where) = 1 /\ where[1] = w
        OBVIOUS
    <2>2. 1..1 = {1}
        OBVIOUS
    <2> HIDE DEF where
    <2>3. SatisfiesAll(q, db, <<i>>, where) <=> Satisfies(q, db, <<i>>, w)
        BY <2>1, <2>2 DEF SatisfiesAll
    <2> QED
        BY <2>3 DEF where
<1> QED
    BY <1>8, <1>9, <1>10

(* The one condition of a plain change is understood in the same way by    *)
(* the query processor, the storage engine and the reference.              *)
LEMMA PlainConditionIsUnderstood ==
    ASSUME NEW s, IsDatabase(tables), s.table \in Tables, NEW w \in Conditions, s.where = <<w>>,
           PlainCondition(s), pq.table = s.table, pq.where_conditions = <<parse_condition(w)>>,
           NEW i \in DOMAIN tables[s.table]
    PROVE  /\ i \in FoundByProcessor <=> Hit(s, tables, i)
           /\ i \in FoundByStorage <=> Hit(s, tables, i)
<1> DEFINE t == s.table
           row == tables[t][i]
           cond == parse_condition(w)
<1>1. row \in Rows(t)
    BY DEF IsDatabase, IsTable
<1>2. /\ OperandIsPlain(w) /\ ~w.isColumn /\ w.column \in {Name(col) : col \in ColumnsOf(t)}
      /\ Type(w.operand) = Schemas[t].types[Base(w.column)]
    <2>1. 1 \in DOMAIN s.where /\ s.where[1] = w
        OBVIOUS
    <2> QED
        BY <2>1 DEF PlainCondition
<1>3. PICK c \in ColumnsOf(t) : w.column = Name(c) /\ Type(w.operand) = Schemas[t].types[c]
    BY <1>2, NameFacts
<1>4. /\ cond.operand = w.operand /\ cond.column = Name(c) /\ cond.operation = w.operation
      /\ w.operand \in Values
    BY <1>3 DEF parse_condition, Conditions
<1>5. ~IsColumnReference(cond.operand)
    BY <1>2, <1>4 DEF OperandIsPlain
<1> HIDE DEF cond
<1>6. /\ evaluate_condition([columns |-> row], cond) <=> Meets(row, cond)
      /\ Meets(row, cond) <=> Holds(cond.operation, Payload(row[Name(c)]), Payload(cond.operand))
    BY <1>1, <1>3, <1>4, <1>5, EvaluatedIsMet
<1>7. Hit(s, tables, i) <=> Meets(row, cond)
    BY <1>2, <1>3, <1>4, <1>6, HitIsHeld
<1>8. i \in FoundByProcessor <=> evaluate_condition([columns |-> row], cond)
    <2>1. pq.where_conditions = <<cond>> /\ <<cond>> # <<>>
        BY DEF cond
    <2> QED
        BY <2>1, SelectedByOne DEF FoundByProcessor
<1>9. i \in FoundByStorage <=> Meets(row, cond)
    <2> DEFINE conditions == <<cond>>
    <2>1. DOMAIN conditions = {1} /\ conditions[1] = cond
        OBVIOUS
    <2>2. pq.where_conditions = conditions
        BY DEF cond
    <2> HIDE DEF conditions
    <2> QED
        BY <2>1, <2>2 DEF FoundByStorage, check_conditions
<1> QED
    BY <1>6, <1>7, <1>8, <1>9

LEMMA KeyFacts ==
    ASSUME NEW t \in Tables, NEW row \in Rows(t)
    PROVE  /\ Name(Schemas[t].key) \in DOMAIN row /\ row[Name(Schemas[t].key)] \in Values
           /\ Type(row[Name(Schemas[t].key)]) = Schemas[t].types[Schemas[t].key]
           /\ Type(row[Name(Schemas[t].key)]) \in ColumnTypes
<1> DEFINE key == Schemas[t].key
<1>1. key \in ColumnsOf(t)
    BY SchemaFacts
<1> HIDE DEF key
<1>2. /\ Name(key) \in DOMAIN row /\ row[Name(key)] \in Values
      /\ Type(row[Name(key)]) = Schemas[t].types[key] /\ Type(row[Name(key)]) \in ColumnTypes
    BY <1>1, RowFacts
<1> QED
    BY <1>2 DEF key

LEMMA OnlyElement ==
    ASSUME NEW R, NEW s \in Seq(R), Len(s) = 1
    PROVE  s[1] \in R /\ s = <<s[1]>>
<1> DEFINE e == <<s[1]>>
<1>1. DOMAIN s = 1..1 /\ s[1] \in R /\ s \in [1..1 -> R]
    OBVIOUS
<1>2. e \in [1..1 -> R] /\ e[1] = s[1]
    BY <1>1
<1>3. \A i \in 1..1 : i = 1
    OBVIOUS
<1>4. \A i \in 1..1 : e[i] = s[i]
    BY <1>2, <1>3
<1> QED
    <2> HIDE DEF e
    <2>1. e = s
        BY <1>1, <1>2, <1>4
    <2> QED
        BY <1>1, <2>1 DEF e

(* What an update makes of a row.                                          *)
LEMMA AssignedFacts ==
    ASSUME NEW t \in Tables, NEW row \in Rows(t), NEW set,
           set.column \in ColumnsOf(t) \ {Schemas[t].key}, set.value \in Values,
           set.plus \in Int, Type(set.value) = Schemas[t].types[set.column],
           set.plus # 0 => Type(set.value) = "int" /\ set.plus % 2 = 0,
           pq.set_value = set
    PROVE  /\ Assign(row, Assigned(row, set)) \in Rows(t)
           /\ Assign(row, Assigned(row, set))[Name(Schemas[t].key)] = row[Name(Schemas[t].key)]
           /\ [row EXCEPT ![Name(set.column)] = Assigned(row, set)] = Assign(row, Assigned(row, set))
           /\ set.plus = 0 => Assigned(row, set) = set.value
           /\ set.plus # 0 => Assigned(row, set) = evaluate_expression(row)
<1> DEFINE n == Name(set.column)
           v == Assigned(row, set)
           new == Assign(row, v)
           types == Schemas[t].types
           key == Schemas[t].key
<1>1. /\ DOMAIN row = {Name(c) : c \in ColumnsOf(t)} /\ n \in DOMAIN row
      /\ row[n] \in Values /\ Type(row[n]) = types[set.column]
      /\ row \in [{Name(c) : c \in ColumnsOf(t)} -> Values]
    BY RowFacts DEF Rows
<1>2. /\ set.plus = 0 => v = set.value
      /\ set.plus # 0 => v = <<"int", Payload(row[n]) + set.plus>> /\ Payload(row[n]) + set.plus \in Int
                         /\ (Payload(row[n]) + set.plus) % 2 = 0
    <2>1. set.plus = 0 => v = set.value
        BY DEF Assigned
    <2>2. ASSUME set.plus # 0
          PROVE  v = <<"int", Payload(row[n]) + set.plus>> /\ Payload(row[n]) + set.plus \in Int
                 /\ (Payload(row[n]) + set.plus) % 2 = 0
        <3>1. Type(row[n]) = "int"
            BY <1>1, <2>2
        <3>2. Payload(row[n]) \in Int /\ Payload(row[n]) % 2 = 0 /\ set.plus % 2 = 0
            BY <1>1, <2>2, <3>1, ValueFacts
        <3>3. v = <<"int", Payload(row[n]) + set.plus>>
            BY <2>2, <3>1 DEF Assigned
        <3> QED
            BY <3>2, <3>3
    <2> QED
        BY <2>1, <2>2
<1>3. v \in Values /\ Type(v) = types[set.column]
    <2>1. CASE set.plus = 0
        BY <1>2, <2>1
    <2>2. CASE set.plus # 0
        <3> DEFINE m == Payload(row[n]) + set.plus
        <3>1. v = <<"int", m>> /\ m \in Int /\ m % 2 = 0
            BY <1>2, <2>2
        <3> HIDE DEF m, v
        <3> QED
            BY <2>2, <3>1, NumbersAreValues DEF Type
    <2> QED
        BY <2>1, <2>2
<1>4. set.plus # 0 => v = evaluate_expression(row)
    <2> SUFFICES ASSUME set.plus # 0 PROVE v = evaluate_expression(row)
        OBVIOUS
    <2>1. IsNumber(row[n])
        BY <1>1 DEF IsNumber
    <2> DEFINE m == Payload(row[n]) + set.plus
    <2>2. v = <<"int", m>> /\ m % 2 = 0
        BY <1>2
    <2>3. evaluate_expression(row) = <<IF m % 2 = 0 THEN "int" ELSE "float", m>>
        BY <1>1, <2>1 DEF evaluate_expression
    <2> HIDE DEF m, v
    <2> QED
        BY <2>2, <2>3
<1> HIDE DEF v
<1>5. new = [k \in DOMAIN row |-> IF k = n THEN v ELSE row[k]]
    BY <1>1 DEF Assign
<1>6. [row EXCEPT ![n] = v] = new
    BY <1>1, <1>5
<1>7. Name(key) # n
    BY NameFacts
<1>8. key \in ColumnsOf(t) /\ Name(key) \in DOMAIN row
    BY <1>1, SchemaFacts
<1>9. new[Name(key)] = row[Name(key)]
    BY <1>5, <1>7, <1>8
<1>10. new \in Rows(t)
    <2>1. new \in [{Name(c) : c \in ColumnsOf(t)} -> Values]
        BY <1>1, <1>3, <1>5
    <2>2. \A c \in ColumnsOf(t) : Type(new[Name(c)]) = types[c]
        <3> TAKE c \in ColumnsOf(t)
        <3>1. Name(c) \in DOMAIN row
            BY <1>1
        <3>2. CASE c = set.column
            BY <1>3, <1>5, <3>1, <3>2
        <3>3. CASE c # set.column
            <4>1. Name(c) # n
                BY <3>3, NameFacts
            <4>2. Type(row[Name(c)]) = types[c]
                BY RowFacts
            <4> QED
                BY <1>5, <3>1, <4>1, <4>2
        <3> QED
            BY <3>2, <3>3
    <2> HIDE DEF new
    <2> QED
        BY <2>1, <2>2 DEF Rows
<1> QED
    BY <1>2, <1>4, <1>6, <1>9, <1>10 DEF v

LEMMA UpdateIsExact ==
    ASSUME sql \in Updates, pq = parse_update_query(sql), PlainChange(sql), IsDatabase(tables)
    PROVE  /\ (IF IsExpression /\ FoundByProcessor # {} THEN UpdatedByKey ELSE Updated)
                = RowsAfter(sql, tables)
           /\ IsTable(sql.table, RowsAfter(sql, tables))
<1> DEFINE t == sql.table
           set == sql.set
           rows == tables[t]
           key == Schemas[t].key
           new(k) == Assign(rows[k], Assigned(rows[k], set))
           found == {k \in DOMAIN rows : Hit(sql, tables, k)}
           after == [k \in DOMAIN rows |-> IF k \in found THEN new(k) ELSE rows[k]]
<1>1. /\ sql.kind = "update" /\ t \in Tables /\ sql.where \in Seq(Conditions)
      /\ set.column \in STRING /\ set.value \in Values /\ set.plus \in Int
      /\ pq.table = t /\ pq.set_value = set /\ pq.where_conditions = FirstCondition(sql)
    BY DEF Updates, parse_update_query
<1>2. /\ Len(sql.where) = 1 /\ PlainCondition(sql)
      /\ set.column \in ColumnsOf(t) \ {key} /\ Type(set.value) = Schemas[t].types[set.column]
      /\ Type(set.value) # "string" \/ Payload(set.value) \notin DashedTexts
      /\ set.plus # 0 => Type(set.value) = "int" /\ set.plus % 2 = 0
    BY <1>1 DEF PlainChange
<1>3. PICK w \in Conditions : sql.where = <<w>>
    BY <1>1, <1>2, OnlyElement
<1>4. pq.where_conditions = <<parse_condition(w)>>
    <2> DEFINE where == <<w>>
    <2>1. where # <<>> /\ where[1] = w
        OBVIOUS
    <2> HIDE DEF where
    <2>2. sql.where = where
        BY <1>3 DEF where
    <2> QED
        BY <1>1, <2>1, <2>2 DEF FirstCondition
<1>5. rows \in Seq(Rows(t)) /\ \A i, j \in DOMAIN rows : rows[i][Name(key)] = rows[j][Name(key)] => i = j
    BY <1>1 DEF IsDatabase, IsTable
<1>6. \A k \in DOMAIN rows : rows[k] \in Rows(t)
    BY <1>5
<1>7. FoundByProcessor = found /\ FoundByStorage = found
    <2>1. FoundByProcessor \subseteq DOMAIN rows /\ FoundByStorage \subseteq DOMAIN rows
        BY <1>1 DEF FoundByProcessor, FoundByStorage
    <2>2. \A i \in DOMAIN rows : /\ i \in FoundByProcessor <=> Hit(sql, tables, i)
                                 /\ i \in FoundByStorage <=> Hit(sql, tables, i)
        BY <1>1, <1>2, <1>3, <1>4, PlainConditionIsUnderstood
    <2> QED
        BY <2>1, <2>2
<1>8. \A k \in DOMAIN rows :
        /\ new(k) \in Rows(t) /\ new(k)[Name(key)] = rows[k][Name(key)]
        /\ [rows[k] EXCEPT ![Name(set.column)] = Assigned(rows[k], set)] = new(k)
        /\ set.plus = 0 => Assigned(rows[k], set) = set.value
        /\ set.plus # 0 => Assigned(rows[k], set) = evaluate_expression(rows[k])
    BY <1>1, <1>2, <1>6, AssignedFacts
<1>9. RowsAfter(sql, tables) = after
    <2>1. RowsAfter(sql, tables) =
            [i \in DOMAIN rows |->
                IF Hit(sql, tables, i)
                THEN [rows[i] EXCEPT ![Name(set.column)] = Assigned(rows[i], set)]
                ELSE rows[i]]
        BY <1>1 DEF RowsAfter
    <2> QED
        BY <1>8, <2>1
<1> HIDE DEF new, found
<1>10. IsTable(t, after)
    <2>1. after \in Seq(Rows(t)) /\ DOMAIN after = DOMAIN rows
        BY <1>5, <1>6, <1>8
    <2>2. \A k \in DOMAIN rows : after[k][Name(key)] = rows[k][Name(key)]
        BY <1>8
    <2> HIDE DEF after
    <2> QED
        BY <1>5, <2>1, <2>2 DEF IsTable
<1>11. IsExpression <=> set.plus # 0
    BY <1>1, <1>2 DEF IsExpression, IsDashed
<1>12. pq.where_conditions # <<>>
    BY <1>4
<1>13. CASE ~IsExpression
    <2>1. Updated = [k \in DOMAIN rows |-> IF k \in found THEN Assign(rows[k], set.value) ELSE rows[k]]
        BY <1>1, <1>7, <1>11, <1>12, <1>13 DEF Updated
    <2>2. \A k \in DOMAIN rows : new(k) = Assign(rows[k], set.value)
        BY <1>8, <1>11, <1>13 DEF new
    <2> QED
        BY <1>9, <1>10, <1>13, <2>1, <2>2
<1>14. CASE IsExpression /\ found = {}
    <2>1. Updated = [k \in DOMAIN rows |-> rows[k]]
        BY <1>1, <1>7, <1>12, <1>14 DEF Updated
    <2> QED
        BY <1>7, <1>9, <1>10, <1>14, <2>1
<1>15. CASE IsExpression /\ found # {}
    <2> DEFINE n == Len(rows)
               same(row, i) == check_conditions(row,
                   <<[column |-> Name(key), operation |-> "=", operand |-> rows[i][Name(key)]]>>)
               step(f, i) == [k \in DOMAIN rows |->
                                 IF same(f[k], i) THEN Assign(f[k], evaluate_expression(rows[i]))
                                 ELSE f[k]]
               Fits(h) == h = [i \in 0..n |->
                                  IF i = 0 THEN rows
                                  ELSE IF i \notin found \/ Name(key) \notin DOMAIN rows[i] THEN h[i - 1]
                                  ELSE step(h[i - 1], i)]
               c == CHOOSE h : Fits(h)
               part(i) == [k \in DOMAIN rows |-> IF k <= i /\ k \in found THEN new(k) ELSE rows[k]]
               g == [i \in 0..n |-> part(i)]
    <2>1. UpdatedByKey = c[n]
        BY <1>1, <1>7 DEF UpdatedByKey
    <2>2. n \in Nat /\ DOMAIN rows = 1..n /\ rows = [k \in DOMAIN rows |-> rows[k]]
        BY <1>5
    <2>3. ASSUME NEW row, NEW i \in DOMAIN rows, NEW k \in DOMAIN rows, row \in Rows(t),
                 row[Name(key)] = rows[k][Name(key)]
          PROVE  same(row, i) <=> k = i
        <3> DEFINE cond == [column |-> Name(key), operation |-> "=", operand |-> rows[i][Name(key)]]
                   conds == <<cond>>
        <3>1. DOMAIN conds = {1} /\ conds[1] = cond
            OBVIOUS
        <3> HIDE DEF conds
        <3>2. check_conditions(row, conds) <=> Meets(row, cond)
            BY <3>1 DEF check_conditions
        <3>3. Meets(row, cond) <=> row[Name(key)] = rows[i][Name(key)]
            <4>2. /\ Name(key) \in DOMAIN row
                  /\ row[Name(key)] \in Values /\ Type(row[Name(key)]) = Schemas[t].types[key]
                  /\ Type(row[Name(key)]) \in ColumnTypes
                BY <1>1, <2>3, KeyFacts
            <4>3. rows[i][Name(key)] \in Values /\ Type(rows[i][Name(key)]) = Schemas[t].types[key]
                BY <1>1, <1>6, KeyFacts
            <4> QED
                BY <4>2, <4>3, ValueFacts DEF Meets, Holds, ColumnTypes
        <3> QED
            BY <1>5, <2>3, <3>2, <3>3 DEF conds
    <2>4. ASSUME NEW i \in 1..n
          PROVE  part(i) = IF i \notin found \/ Name(key) \notin DOMAIN rows[i] THEN part(i - 1)
                           ELSE step(part(i - 1), i)
        <3>1. i \in DOMAIN rows /\ Name(key) \in DOMAIN rows[i]
            BY <1>1, <1>6, <2>2, KeyFacts
        <3>2. CASE i \notin found
            <4>1. \A k \in DOMAIN rows : k \in found => (k <= i <=> k <= i - 1)
                BY <2>2, <3>2
            <4> QED
                BY <3>2, <4>1
        <3>3. CASE i \in found
            <4>1. \A k \in DOMAIN rows : part(i - 1)[k] \in Rows(t)
                                        /\ part(i - 1)[k][Name(key)] = rows[k][Name(key)]
                BY <1>6, <1>8
            <4> HIDE DEF same, part
            <4>2. \A k \in DOMAIN rows : same(part(i - 1)[k], i) <=> k = i
                BY <2>3, <3>1, <4>1
            <4>3. \A k \in DOMAIN rows : part(i)[k] = IF k = i THEN new(i) ELSE part(i - 1)[k]
                BY <2>2, <3>3 DEF part
            <4>4. part(i - 1)[i] = rows[i]
                BY <2>2, <3>1 DEF part
            <4>5. new(i) = Assign(rows[i], evaluate_expression(rows[i]))
                BY <1>8, <1>11, <1>15, <3>1 DEF new
            <4>6. part(i) = [k \in DOMAIN rows |-> part(i)[k]]
                BY DEF part
            <4>7. part(i) = step(part(i - 1), i)
                BY <4>2, <4>3, <4>4, <4>5, <4>6
            <4> QED
                BY <3>1, <3>3, <4>7
        <3> QED
            BY <3>2, <3>3
    <2>5. part(0) = rows /\ part(n) = after
        <3>1. \A k \in DOMAIN rows : ~(k <= 0) /\ k <= n
            BY <2>2
        <3> QED
            BY <2>2, <3>1
    <2> HIDE DEF part, step, after
    <2>6. Fits(g)
        BY <2>2, <2>4, <2>5
    <2>7. Fits(c)
        <3> HIDE DEF g
        <3> QED
            BY <2>6
    <2> HIDE DEF c
    <2> DEFINE S == {i \in 0..n : c[i] = part(i)}
    <2>8. 0 \in S
        BY <2>2, <2>5, <2>7
    <2>9. ASSUME NEW i \in 0..(n - 1), i \in S PROVE i + 1 \in S
        <3>1. i + 1 \in 1..n /\ i + 1 \in 0..n /\ (i + 1) - 1 = i /\ i + 1 # 0
            BY <2>2
        <3>2. c[i] = part(i)
            BY <2>9
        <3> DEFINE m == i + 1
        <3>3. m \in 1..n /\ m \in 0..n /\ m - 1 = i /\ m # 0
            BY <3>1
        <3> HIDE DEF m
        <3>4. c[m] = IF m \notin found \/ Name(key) \notin DOMAIN rows[m] THEN c[i] ELSE step(c[i], m)
            BY <2>7, <3>3
        <3>5. part(m) = IF m \notin found \/ Name(key) \notin DOMAIN rows[m] THEN part(i) ELSE step(part(i), m)
            BY <2>4, <3>3
        <3> QED
            BY <3>2, <3>3, <3>4, <3>5 DEF m
    <2>10. \A i \in 0..n : i \in S
        <3> HIDE DEF S
        <3> QED
            BY <2>2, <2>8, <2>9, Upwards
    <2>11. c[n] = after
        BY <2>2, <2>5, <2>10
    <2> QED
        BY <1>7, <1>9, <1>10, <1>15, <2>1, <2>11
<1> QED
    BY <1>13, <1>14, <1>15

LEMMA NotEmpty ==
    ASSUME NEW R, NEW s \in Seq(R), s # <<>>
    PROVE  Len(s) \in Nat \ {0} /\ 1 \in DOMAIN s /\ s[1] \in R
<1>1. Len(s) \in Nat /\ DOMAIN s = 1..Len(s) /\ \A i \in 1..Len(s) : s[i] \in R
    OBVIOUS
<1>2. Len(s) = 0 => s = <<>>
    OBVIOUS
<1> QED
    BY <1>1, <1>2

LEMMA DeleteIsExact ==
    ASSUME sql \in Deletes, pq = parse_delete_query(sql), PlainChange(sql), IsDatabase(tables)
    PROVE  /\ RowsAt(DOMAIN tables[pq.table] \ FoundByStorage) = RowsAfter(sql, tables)
           /\ IsTable(sql.table, RowsAfter(sql, tables))
<1> DEFINE t == sql.table
           rows == tables[t]
           key == Schemas[t].key
           kept == {i \in DOMAIN rows : ~Hit(sql, tables, i)}
<1>1. /\ sql.kind = "delete" /\ t \in Tables /\ sql.where \in Seq(Conditions)
      /\ pq.table = t /\ pq.where_conditions = FirstCondition(sql)
    BY DEF Deletes, parse_delete_query
<1>2. Len(sql.where) <= 1 /\ PlainCondition(sql)
    BY <1>1 DEF PlainChange
<1>3. rows \in Seq(Rows(t)) /\ \A i, j \in DOMAIN rows : rows[i][Name(key)] = rows[j][Name(key)] => i = j
    BY <1>1 DEF IsDatabase, IsTable
<1>4. FoundByStorage \subseteq DOMAIN rows
    BY <1>1 DEF FoundByStorage
<1>5. \A i \in DOMAIN rows : i \in FoundByStorage <=> Hit(sql, tables, i)
    <2>1. CASE sql.where = <<>>
        <3>1. pq.where_conditions = <<>>
            BY <1>1, <2>1 DEF FirstCondition
        <3>2. \A i \in DOMAIN rows : i \in FoundByStorage
            BY <1>1, <3>1 DEF FoundByStorage, check_conditions
        <3>3. \A i \in DOMAIN rows : Hit(sql, tables, i)
            BY <2>1 DEF Hit, SatisfiesAll
        <3> QED
            BY <3>2, <3>3
    <2>2. CASE sql.where # <<>>
        <3>0. Len(sql.where) \in Nat /\ Len(sql.where) # 0
            BY <1>1, <2>2, NotEmpty
        <3>1. Len(sql.where) = 1
            <4>1. \A n \in Nat : n # 0 /\ n <= 1 => n = 1
                OBVIOUS
            <4>2. Len(sql.where) <= 1
                BY <1>2
            <4> QED
                BY <3>0, <4>1, <4>2
        <3>2. PICK w \in Conditions : sql.where = <<w>>
            BY <1>1, <3>1, OnlyElement
        <3>3. pq.where_conditions = <<parse_condition(w)>>
            <4>1. sql.where[1] = w
                BY <3>2
            <4> QED
                BY <1>1, <2>2, <4>1 DEF FirstCondition
        <3> QED
            BY <1>1, <1>2, <3>2, <3>3, PlainConditionIsUnderstood
    <2> QED
        BY <2>1, <2>2
<1>6. DOMAIN rows \ FoundByStorage = kept
    BY <1>4, <1>5
<1>7. RowsAfter(sql, tables) = Sublist(rows, kept)
    BY <1>1 DEF RowsAfter
<1>8. RowsAt(DOMAIN tables[pq.table] \ FoundByStorage) = Sublist(rows, kept)
    BY <1>1, <1>6 DEF RowsAt
<1>9. kept \in SUBSET (DOMAIN rows)
    OBVIOUS
<1> HIDE DEF kept
<1>10. IsTable(t, Sublist(rows, kept))
    <2> DEFINE n == Cardinality(kept)
               new == Sublist(rows, kept)
    <2>1. new \in Seq(Rows(t)) /\ Len(new) = n
        BY <1>3, <1>9, SublistIs
    <2>2. PICK f : Enumerates(f, n, kept) /\ \A i \in 1..n : new[i] = rows[f[i]]
        BY <1>3, <1>9, SublistIs
    <2>3. DOMAIN new = 1..n
        BY <2>1
    <2> HIDE DEF new, n
    <2>4. \A i \in 1..n : f[i] \in DOMAIN rows
        BY <1>9, <2>2 DEF Enumerates
    <2>5. \A i, j \in DOMAIN new : new[i][Name(key)] = new[j][Name(key)] => i = j
        BY <1>3, <2>2, <2>3, <2>4 DEF Enumerates
    <2> QED
        BY <2>1, <2>5 DEF IsTable, new
<1> QED
    BY <1>7, <1>8, <1>10

(* Those of some indices at which the row is.                              *)
PlacesOf(row, rows, I) == {k \in I : rows[k] = row}

(* A row comes as often in a part of the table as the part has indices of  *)
(* it.                                                                     *)
LEMMA OccurrencesInSublist ==
    ASSUME NEW R, NEW rows \in Seq(R), NEW I \in SUBSET (DOMAIN rows), NEW row
    PROVE  /\ IsFiniteSet(PlacesOf(row, rows, I))
           /\ Occurrences(row, Sublist(rows, I)) = Cardinality(PlacesOf(row, rows, I))
<1> DEFINE n == Cardinality(I)
           new == Sublist(rows, I)
           at == {k \in I : rows[k] = row}
           there == {i \in DOMAIN new : new[i] = row}
<1>1. IsFiniteSet(I) /\ new \in Seq(R) /\ Len(new) = n
    BY SublistIs
<1>2. PICK f : Enumerates(f, n, I) /\ \A i \in 1..n : new[i] = rows[f[i]]
    BY SublistIs
<1>3. DOMAIN new = 1..n
    BY <1>1
<1>4. at \in SUBSET I
    OBVIOUS
<1>5. IsFiniteSet(at)
    BY <1>1, <1>4, FS_Subset
<1> DEFINE g == [i \in there |-> f[i]]
<1> HIDE DEF new, n
<1>6. \A i \in there : f[i] \in at
    BY <1>2, <1>3 DEF Enumerates
<1>7. g \in [there -> at]
    BY <1>6
<1>8. \A i, j \in there : g[i] = g[j] => i = j
    BY <1>2, <1>3 DEF Enumerates
<1>9. \A k \in at : \E i \in there : g[i] = k
    BY <1>2, <1>3 DEF Enumerates
<1> HIDE DEF g
<1>10. g \in Injection(there, at) /\ g \in Surjection(there, at)
    BY <1>7, <1>8, <1>9, Fun_IsInj, Fun_IsSurj
<1>11. Cardinality(there) = Cardinality(at)
    BY <1>5, <1>10, FS_Injection
<1> QED
    BY <1>5, <1>11 DEF Occurrences, PlacesOf, new, at, there

LEMMA OccurrencesAdd ==
    ASSUME NEW R, NEW rows \in Seq(R), NEW F \in SUBSET (DOMAIN rows), NEW row
    PROVE  Occurrences(row, rows) = Occurrences(row, Sublist(rows, DOMAIN rows \ F))
                                        + Occurrences(row, Sublist(rows, F))
<1> DEFINE D == DOMAIN rows
           all == PlacesOf(row, rows, D)
           out == PlacesOf(row, rows, F)
           rest == PlacesOf(row, rows, D \ F)
<1>1. D \ F \in SUBSET D /\ D \in SUBSET D
    OBVIOUS
<1>2. IsFiniteSet(out) /\ Occurrences(row, Sublist(rows, F)) = Cardinality(out)
    BY OccurrencesInSublist
<1>3. IsFiniteSet(rest) /\ Occurrences(row, Sublist(rows, D \ F)) = Cardinality(rest)
    BY <1>1, OccurrencesInSublist
<1>4. all = rest \cup out /\ rest \cap out = {}
    BY DEF PlacesOf
<1>5. Occurrences(row, rows) = Cardinality(all)
    BY DEF Occurrences, PlacesOf
<1> HIDE DEF all, out, rest
<1>6. Cardinality(rest) \in Nat /\ Cardinality(out) \in Nat
    BY <1>2, <1>3, FS_CardinalityType
<1>7. Cardinality(all) = Cardinality(rest) + Cardinality(out) - Cardinality(rest \cap out)
    BY <1>2, <1>3, <1>4, FS_Union
<1>8. Cardinality(rest \cap out) = 0
    BY <1>4, FS_EmptySet
<1> QED
    BY <1>2, <1>3, <1>5, <1>6, <1>7, <1>8

-----------------------------------------------------------------------------
(* Changes.                                                                *)

(* While every change was a plain one, the tables are what they ought to   *)
(* be and no key comes twice; the query processor works on what the parser *)
(* has made of a statement of the kind its stage is for.                   *)
Consistent ==
    /\ exact \in BOOLEAN
    /\ exact => tables = ideal /\ IsDatabase(tables)
    /\ stage # "idle" => sql \in Written /\ pq = sql_parser(sql)
    /\ stage \in {"read", "join", "where", "order", "limit"} => sql.kind = "select"

LEMMA KindFacts ==
    ASSUME NEW s \in Written
    PROVE  /\ s.kind \in {"select", "insert", "update", "delete"}
           /\ sql_parser(s).kind = s.kind
           /\ s.kind = "select" => s \in Selects /\ sql_parser(s) = parse_select_query(s)
           /\ s.kind = "insert" => s \in Inserts /\ sql_parser(s) = parse_insert_query(s)
           /\ s.kind = "update" => s \in Updates /\ sql_parser(s) = parse_update_query(s)
           /\ s.kind = "delete" => s \in Deletes /\ sql_parser(s) = parse_delete_query(s)
<1>1. /\ s \in Selects => s.kind = "select"
      /\ s \in Inserts => s.kind = "insert"
      /\ s \in Updates => s.kind = "update"
      /\ s \in Deletes => s.kind = "delete"
    BY DEF Selects, Inserts, Updates, Deletes
<1>2. s \in Selects \cup Inserts \cup Updates \cup Deletes
    BY WrittenAssumption
<1>3. /\ parse_select_query(s).kind = "select" /\ parse_insert_query(s).kind = "insert"
      /\ parse_update_query(s).kind = "update" /\ parse_delete_query(s).kind = "delete"
    BY DEF parse_select_query, parse_insert_query, parse_update_query, parse_delete_query
<1>4. /\ s.kind = "select" => sql_parser(s) = parse_select_query(s)
      /\ s.kind = "insert" => sql_parser(s) = parse_insert_query(s)
      /\ s.kind = "update" => sql_parser(s) = parse_update_query(s)
      /\ s.kind = "delete" => sql_parser(s) = parse_delete_query(s)
    BY DEF sql_parser
<1> QED
    BY <1>1, <1>2, <1>3, <1>4

(* A change by rows that are those it means keeps the tables as they ought *)
(* to be.                                                                  *)
LEMMA ChangeIsConsistent ==
    ASSUME NEW rows, Changed(rows), Consistent, sql.table \in Tables, pq.table = sql.table,
           exact /\ PlainChange(sql) =>
               rows = RowsAfter(sql, tables) /\ IsTable(sql.table, RowsAfter(sql, tables))
    PROVE  Consistent'
<1> DEFINE t == sql.table
<1>1. /\ stage' = "done" /\ tables' = [tables EXCEPT ![t] = rows]
      /\ exact' = (exact /\ PlainChange(sql))
      /\ ideal' = IF exact' THEN [ideal EXCEPT ![t] = RowsAfter(sql, ideal)] ELSE ideal
      /\ sql' = sql /\ pq' = pq /\ stage = "change"
    BY DEF Changed
<1>2. exact' \in BOOLEAN
    BY <1>1
<1>3. ASSUME exact' PROVE tables' = ideal' /\ IsDatabase(tables')
    <2>1. exact /\ PlainChange(sql)
        BY <1>1, <1>3
    <2>2. tables = ideal /\ IsDatabase(tables)
        BY <2>1 DEF Consistent
    <2>3. rows = RowsAfter(sql, tables) /\ IsTable(t, rows)
        BY <2>1
    <2>4. tables' = ideal'
        BY <1>1, <1>3, <2>2, <2>3
    <2>5. DOMAIN tables = Tables /\ \A u \in Tables : IsTable(u, tables[u])
        BY <2>2 DEF IsDatabase
    <2>6. DOMAIN tables' = Tables /\ \A u \in Tables : tables'[u] = IF u = t THEN rows ELSE tables[u]
        BY <1>1, <2>5
    <2>7. \A u \in Tables : IsTable(u, tables'[u])
        BY <2>3, <2>5, <2>6
    <2> QED
        BY <2>4, <2>6, <2>7 DEF IsDatabase
<1>4. sql' \in Written /\ pq' = sql_parser(sql')
    BY <1>1 DEF Consistent
<1> QED
    BY <1>1, <1>2, <1>3, <1>4 DEF Consistent

LEMMA StaysConsistent ==
    ASSUME Consistent, [Next]_vars
    PROVE  Consistent'
<1>1. CASE UNCHANGED vars
    BY <1>1 DEF Consistent, vars, IsDatabase
<1>2. ASSUME NEW s \in Written, Parse(s) PROVE Consistent'
    BY <1>2, KindFacts DEF Consistent, Parse, IsDatabase
<1>3. ASSUME ReadTable PROVE Consistent'
    <2>1. /\ stage = "read" /\ stage' \in {"read", "join", "where"}
          /\ UNCHANGED <<tables, sql, pq, ideal, exact>>
        BY <1>3 DEF ReadTable, Unchanged
    <2> QED
        BY <2>1 DEF Consistent, IsDatabase
<1>4. ASSUME JoinTables \/ FilterRows \/ OrderRows \/ LimitRows PROVE Consistent'
    <2>1. /\ stage \in {"join", "where", "order", "limit"} /\ stage' # "idle"
          /\ UNCHANGED <<tables, sql, pq, ideal, exact>>
        BY <1>4 DEF JoinTables, FilterRows, OrderRows, LimitRows, Unchanged
    <2> QED
        BY <2>1 DEF Consistent, IsDatabase
<1>5. ASSUME Return PROVE Consistent'
    BY <1>5 DEF Consistent, Return, IsDatabase
<1>6. ASSUME execute_insert \/ execute_update \/ execute_delete
      PROVE  stage = "change" /\ sql \in Written /\ pq = sql_parser(sql) /\ (exact => IsDatabase(tables))
    BY <1>6 DEF execute_insert, execute_update, execute_delete, Changed, Consistent
<1>7. ASSUME execute_insert PROVE Consistent'
    <2>1. sql \in Inserts /\ pq = parse_insert_query(sql)
        BY <1>6, <1>7, KindFacts DEF execute_insert
    <2>2. sql.table \in Tables /\ pq.table = sql.table
        BY <2>1 DEF Inserts, parse_insert_query
    <2> DEFINE rows == IF DuplicateKey \/ Len(pq.insert_values) # Len(insert_columns)
                       THEN tables[pq.table] ELSE Append(tables[pq.table], MappedRow)
    <2>3. exact /\ PlainChange(sql) =>
              rows = RowsAfter(sql, tables) /\ IsTable(sql.table, RowsAfter(sql, tables))
        BY <1>6, <1>7, <2>1, InsertIsExact
    <2>4. Changed(rows)
        BY <1>7 DEF execute_insert
    <2> HIDE DEF rows
    <2> QED
        BY <2>2, <2>3, <2>4, ChangeIsConsistent
<1>8. ASSUME execute_update PROVE Consistent'
    <2>1. sql \in Updates /\ pq = parse_update_query(sql)
        BY <1>6, <1>8, KindFacts DEF execute_update
    <2>2. sql.table \in Tables /\ pq.table = sql.table
        BY <2>1 DEF Updates, parse_update_query
    <2> DEFINE rows == IF IsExpression /\ FoundByProcessor # {} THEN UpdatedByKey ELSE Updated
    <2>3. exact /\ PlainChange(sql) =>
              rows = RowsAfter(sql, tables) /\ IsTable(sql.table, RowsAfter(sql, tables))
        BY <1>6, <1>8, <2>1, UpdateIsExact
    <2>4. Changed(rows)
        BY <1>8 DEF execute_update
    <2> HIDE DEF rows
    <2> QED
        BY <2>2, <2>3, <2>4, ChangeIsConsistent
<1>9. ASSUME execute_delete PROVE Consistent'
    <2>1. sql \in Deletes /\ pq = parse_delete_query(sql)
        BY <1>6, <1>9, KindFacts DEF execute_delete
    <2>2. sql.table \in Tables /\ pq.table = sql.table
        BY <2>1 DEF Deletes, parse_delete_query
    <2> DEFINE rows == RowsAt(DOMAIN tables[pq.table] \ FoundByStorage)
    <2>3. exact /\ PlainChange(sql) =>
              rows = RowsAfter(sql, tables) /\ IsTable(sql.table, RowsAfter(sql, tables))
        BY <1>6, <1>9, <2>1, DeleteIsExact
    <2>4. Changed(rows)
        BY <1>9 DEF execute_delete
    <2> HIDE DEF rows
    <2> QED
        BY <2>2, <2>3, <2>4, ChangeIsConsistent
<1> QED
    BY <1>1, <1>2, <1>3, <1>4, <1>5, <1>7, <1>8, <1>9 DEF Next

LEMMA AlwaysConsistent == Spec => []Consistent
<1>1. Init => Consistent
    BY InitialTablesAssumption DEF Init, Consistent, IsDatabase
<1> QED
    BY <1>1, StaysConsistent, PTL DEF Spec

(* The tables are what the plain changes so far mean.                      *)
THEOREM ChangesAlwaysExact == Spec => []ChangesAreExact
<1>1. Consistent => ChangesAreExact
    BY DEF Consistent, ChangesAreExact
<1> QED
    BY <1>1, AlwaysConsistent, PTL

(* What a literal without a dot finds in one row by the storage engine it  *)
(* finds in every row by the query processor too.                          *)
LEMMA SameRowsFound ==
    ASSUME sql \in Deletes, pq = parse_delete_query(sql), tables[sql.table] \in Seq(Rows(sql.table)),
           \A i \in DOMAIN pq.where_conditions :
               ~IsColumnReference(pq.where_conditions[i].operand),
           FoundByStorage # {}
    PROVE  FoundByProcessor = FoundByStorage
<1> DEFINE t == sql.table
           rows == tables[t]
<1>1. t \in Tables /\ sql.where \in Seq(Conditions) /\ pq.table = t
      /\ pq.where_conditions = FirstCondition(sql)
    BY DEF Deletes, parse_delete_query
<1>2. FoundByStorage \subseteq DOMAIN rows /\ FoundByProcessor \subseteq DOMAIN rows
    BY <1>1 DEF FoundByStorage, FoundByProcessor
<1>3. \A i \in DOMAIN rows : rows[i] \in Rows(t)
    OBVIOUS
<1>4. CASE sql.where = <<>>
    <2>1. pq.where_conditions = <<>>
        BY <1>1, <1>4 DEF FirstCondition
    <2> QED
        BY <1>1, <2>1 DEF FoundByStorage, FoundByProcessor, check_conditions
<1>5. CASE sql.where # <<>>
    <2> DEFINE w == sql.where[1]
               cond == parse_condition(w)
               conds == <<cond>>
    <2>1. w \in Conditions
        BY <1>1, <1>5, NotEmpty
    <2>2. pq.where_conditions = conds /\ conds # <<>> /\ DOMAIN conds = {1} /\ conds[1] = cond
        BY <1>1, <1>5 DEF FirstCondition
    <2>3. cond.operand \in Values
        BY <2>1 DEF parse_condition, Conditions
    <2> HIDE DEF cond, conds
    <2>4. ~IsColumnReference(cond.operand)
        BY <2>2
    <2>5. \A i \in DOMAIN rows : i \in FoundByStorage <=> Meets(rows[i], cond)
        BY <1>1, <2>2 DEF FoundByStorage, check_conditions
    <2>6. \A i \in DOMAIN rows :
            i \in FoundByProcessor <=> evaluate_condition([columns |-> rows[i]], cond)
        BY <1>1, <2>2, SelectedByOne DEF FoundByProcessor, conds
    <2>7. PICK k \in DOMAIN rows : Meets(rows[k], cond)
        BY <1>2, <2>5
    <2>8. rows[k] \in Rows(t) /\ cond.column \in DOMAIN rows[k]
          /\ Type(rows[k][cond.column]) = Type(cond.operand)
        BY <1>3, <2>7 DEF Meets
    <2>9. PICK c \in ColumnsOf(t) : cond.column = Name(c)
        <3>1. DOMAIN rows[k] = {Name(c) : c \in ColumnsOf(t)}
            BY <1>1, <2>8, RowFacts
        <3> QED
            BY <2>8, <3>1
    <2>10. Type(cond.operand) = Schemas[t].types[c]
        BY <1>1, <2>8, <2>9, RowFacts
    <2>11. \A i \in DOMAIN rows :
             evaluate_condition([columns |-> rows[i]], cond) <=> Meets(rows[i], cond)
        BY <1>1, <1>3, <2>3, <2>4, <2>9, <2>10, EvaluatedIsMet
    <2> QED
        BY <1>2, <2>5, <2>6, <2>11
<1> QED
    BY <1>4, <1>5

(* A DELETE hands over the rows it removes, and no others.                 *)
THEOREM DeletesAlwaysUndoable == Spec => DeletesCanBeUndone
<1>1. ASSUME Consistent, exact /\ execute_delete,
             \A i \in DOMAIN pq.where_conditions :
                 ~IsColumnReference(pq.where_conditions[i].operand),
             NEW row
      PROVE  Occurrences(row, tables[pq.table]) =
                 Occurrences(row, tables'[pq.table]) + Occurrences(row, undo')
    <2>1. stage = "change" /\ sql \in Written /\ pq = sql_parser(sql) /\ IsDatabase(tables)
        BY <1>1 DEF execute_delete, Changed, Consistent
    <2>2. sql \in Deletes /\ pq = parse_delete_query(sql)
        BY <1>1, <2>1, KindFacts DEF execute_delete
    <2> DEFINE t == sql.table
               old == tables[t]
               F == FoundByStorage
               D == DOMAIN old
    <2>3. t \in Tables /\ pq.table = t
        BY <2>2 DEF Deletes, parse_delete_query
    <2>4. old \in Seq(Rows(t)) /\ t \in DOMAIN tables
        BY <2>1, <2>3 DEF IsDatabase, IsTable
    <2>5. F \in SUBSET D
        BY <2>3 DEF FoundByStorage
    <2>6. tables'[t] = Sublist(old, D \ F)
        BY <1>1, <2>3, <2>4 DEF execute_delete, Changed, RowsAt
    <2>7. undo' = Sublist(old, F)
        <3>1. CASE F = {}
            <4>1. Sublist(old, {}) = <<>>
                BY FS_EmptySet DEF Sublist
            <4> QED
                BY <1>1, <3>1, <4>1 DEF execute_delete
        <3>2. CASE F # {}
            <4>1. Logged = F
                BY <1>1, <2>2, <2>4, <3>2, SameRowsFound DEF Logged
            <4> QED
                BY <1>1, <2>3, <3>2, <4>1 DEF execute_delete, RowsAt
        <3> QED
            BY <3>1, <3>2
    <2> HIDE DEF F
    <2>8. Occurrences(row, old) = Occurrences(row, Sublist(old, D \ F)) + Occurrences(row, Sublist(old, F))
        BY <2>4, <2>5, OccurrencesAdd
    <2> QED
        BY <2>3, <2>6, <2>7, <2>8
<1>2. Consistent =>
        [exact /\ execute_delete /\ (\A i \in DOMAIN pq.where_conditions :
                                        ~IsColumnReference(pq.where_conditions[i].operand)) =>
            LET old == tables[pq.table]
                new == tables'[pq.table]
            IN  \A row \in Range(old \o undo') :
                    Occurrences(row, old) = Occurrences(row, new) + Occurrences(row, undo')]_vars
    BY <1>1
<1> QED
    BY <1>2, AlwaysConsistent, PTL DEF DeletesCanBeUndone

-----------------------------------------------------------------------------
(* Pairs of rows.                                                          *)

LEMMA FunctionsEqual ==
    ASSUME NEW S, NEW R, NEW f \in [S -> R], NEW g \in [S -> R], \A x \in S : f[x] = g[x]
    PROVE  f = g
OBVIOUS

LEMMA SequenceFacts ==
    ASSUME NEW R, NEW s \in Seq(R)
    PROVE  /\ Len(s) \in Nat /\ DOMAIN s = 1..Len(s) /\ s \in [1..Len(s) -> R]
           /\ \A i \in 1..Len(s) : s[i] \in R
OBVIOUS

LEMMA FunctionIsSequence ==
    ASSUME NEW R, NEW n \in Nat, NEW f \in [1..n -> R]
    PROVE  f \in Seq(R) /\ Len(f) = n /\ DOMAIN f = 1..n
OBVIOUS

LEMMA SequencesEqual ==
    ASSUME NEW R, NEW s \in Seq(R), NEW t \in Seq(R), Len(s) = Len(t),
           \A i \in 1..Len(s) : s[i] = t[i]
    PROVE  s = t
BY SequenceFacts

LEMMA AppendFacts ==
    ASSUME NEW R, NEW s \in Seq(R), NEW r \in R
    PROVE  /\ Append(s, r) \in Seq(R) /\ Len(Append(s, r)) = Len(s) + 1
           /\ DOMAIN Append(s, r) = 1..Len(s) + 1 /\ Append(s, r) \in [1..Len(s) + 1 -> R]
           /\ Append(s, r)[Len(s) + 1] = r /\ \A i \in 1..Len(s) : Append(s, r)[i] = s[i]
<1>1. Append(s, r) \in Seq(R) /\ Len(Append(s, r)) = Len(s) + 1
    OBVIOUS
<1>2. Append(s, r)[Len(s) + 1] = r /\ \A i \in 1..Len(s) : Append(s, r)[i] = s[i]
    OBVIOUS
<1>3. Append(s, r) \in [1..Len(Append(s, r)) -> R] /\ DOMAIN Append(s, r) = 1..Len(Append(s, r))
    BY <1>1, SequenceFacts
<1> QED
    BY <1>1, <1>2, <1>3

LEMMA ConcatenationFacts ==
    ASSUME NEW R, NEW s \in Seq(R), NEW t \in Seq(R)
    PROVE  /\ s \o t \in Seq(R) /\ Len(s \o t) = Len(s) + Len(t)
           /\ \A i \in 1..Len(s) : (s \o t)[i] = s[i]
           /\ \A i \in 1..Len(t) : (s \o t)[Len(s) + i] = t[i]
OBVIOUS

LEMMA FlattenAppend ==
    ASSUME NEW R, NEW f \in Seq(Seq(R)), NEW q \in Seq(R)
    PROVE  FlattenSeq(Append(f, q)) = FlattenSeq(f) \o q
<1> DEFINE n == Len(f)
           N == n + 1
           g == [i \in 1..N |-> IF i <= n THEN f[i] ELSE <<>>]
           e == Append(f, q)
<1>1. n \in Nat /\ N \in Nat \ {0} /\ n <= N /\ N \in 1..N /\ <<>> \in Seq(R)
    OBVIOUS
<1>2. \A i \in 1..N : (i <= n <=> i # N) /\ (i <= n => f[i] \in Seq(R))
    BY <1>1
<1>3. e \in [1..N -> Seq(R)] /\ e[N] = q /\ \A i \in 1..N : i <= n => e[i] = f[i]
    <2> DEFINE Q == Seq(R)
    <2>1. f \in Seq(Q) /\ q \in Q
        OBVIOUS
    <2> HIDE DEF Q
    <2>2. e \in [1..N -> Q] /\ e[N] = q /\ \A i \in 1..n : e[i] = f[i]
        BY <2>1, AppendFacts
    <2>3. \A i \in 1..N : i <= n => i \in 1..n
        BY <1>1
    <2> QED
        BY <2>2, <2>3 DEF Q
<1>4. Padded(R, N, f, g)
    BY <1>1 DEF Padded
<1>5. g \in [1..N -> Seq(R)] /\ g[N] = <<>> /\ \A i \in 1..N : i <= n => g[i] = f[i]
    BY <1>1, <1>2
<1> HIDE DEF g, e, N
<1>6. <<>> \o q = q
    OBVIOUS
<1>7. \A i \in 1..N : ~(i > N)
    BY <1>1
<1>8. Longer(R, N, g, N, q, e)
    BY <1>1, <1>2, <1>3, <1>5, <1>6, <1>7 DEF Longer
<1>9. FlattenSeq(g) = FlattenSeq(f)
    BY <1>4, FlattenPadded
<1>10. FlattenSeq(e) = FlattenSeq(g) \o q
    BY <1>8, FlattenLonger
<1> QED
    BY <1>9, <1>10 DEF e

LEMMA PairFacts ==
    ASSUME NEW A, NEW B
    PROVE  /\ \A p \in A \X B : p[1] \in A /\ p[2] \in B /\ p = <<p[1], p[2]>>
           /\ \A a \in A, b \in B : <<a, b>> \in A \X B
OBVIOUS

LEMMA EnumeratedFacts ==
    ASSUME NEW f, NEW n, NEW S, Enumerates(f, n, S)
    PROVE  /\ f \in [1..n -> S] /\ \A i \in 1..n : f[i] \in S
           /\ \A i, j \in 1..n : f[i] = f[j] => i = j
           /\ \A x \in S : \E i \in 1..n : f[i] = x
BY DEF Enumerates

(* The pairs with a further number on the left come after the others.      *)
MoreOf(e, d, n, w, L) ==
    /\ n \in Nat /\ w \in Nat /\ L \in Nat /\ Enumerates(e, L, (1..n) \X (1..w))
    /\ d \in [1..(L + w) -> {d[x] : x \in 1..(L + w)}]
    /\ \A x \in 1..L : d[x] = e[x]
    /\ \A j \in 1..w : d[L + j] = <<n + 1, j>>

LEMMA EnumeratesMore ==
    ASSUME NEW n, NEW w, NEW L, NEW e, NEW d, MoreOf(e, d, n, w, L)
    PROVE  Enumerates(d, L + w, (1..(n + 1)) \X (1..w))
<1> DEFINE S == (1..n) \X (1..w)
           T == (1..(n + 1)) \X (1..w)
           X == 1..L
           Y == 1..w
           Z == 1..(L + w)
           last(j) == <<n + 1, j>>
           at(j) == L + j
<1>0. n \in Nat /\ w \in Nat /\ L \in Nat
    BY DEF MoreOf
<1>1. \A p \in S : p \in T /\ \A j \in Y : p # last(j)
    <2>1. \A p \in S : p[1] \in 1..n /\ p[2] \in 1..w /\ p = <<p[1], p[2]>>
        BY PairFacts
    <2>2. \A i \in 1..n : i \in 1..(n + 1) /\ i # n + 1
        BY <1>0
    <2>3. \A p \in S : p \in T /\ p[1] # n + 1
        BY <2>1, <2>2
    <2>4. \A j \in Y : last(j)[1] = n + 1
        OBVIOUS
    <2> HIDE DEF last
    <2> QED
        BY <2>3, <2>4
<1>2. \A j \in Y : last(j) \in T
    BY <1>0
<1>3. \A p \in T : p \in S \/ \E j \in Y : p = last(j)
    <2> TAKE p \in T
    <2>1. p[1] \in 1..(n + 1) /\ p[2] \in 1..w /\ p = <<p[1], p[2]>>
        BY PairFacts
    <2>2. CASE p[1] = n + 1
        BY <2>1, <2>2
    <2>3. CASE p[1] # n + 1
        <3>1. p[1] \in 1..n
            BY <1>0, <2>1, <2>3
        <3> QED
            BY <2>1, <3>1, PairFacts
    <2> QED
        BY <2>2, <2>3
<1>4. \A i, j \in Y : last(i) = last(j) => i = j
    BY <1>0
<1>5. \A x \in Z : x \in X \/ \E j \in Y : x = at(j)
    <2> TAKE x \in Z
    <2>1. CASE x <= L
        BY <1>0, <2>1
    <2>2. CASE ~(x <= L)
        <3>1. x \in Int /\ x <= L + w /\ ~(x <= L)
            BY <1>0, <2>2
        <3>2. x - L \in 1..w /\ x = L + (x - L)
            BY <1>0, <3>1
        <3> QED
            BY <3>2
    <2> QED
        BY <2>1, <2>2
<1>6. \A x \in X : x \in Z
    BY <1>0
<1>7. \A j \in Y : at(j) \in Z
    BY <1>0
<1>8. Enumerates(e, L, S)
    BY DEF MoreOf
<1>9. \A x \in X : d[x] = e[x]
    BY DEF MoreOf
<1>10. \A j \in Y : d[at(j)] = last(j)
    BY DEF MoreOf
<1>11. d \in [Z -> {d[x] : x \in Z}]
    BY DEF MoreOf
<1> HIDE DEF S, T
<1>12. /\ \A x \in X : e[x] \in S
       /\ \A x, y \in X : e[x] = e[y] => x = y
       /\ \A p \in S : \E x \in X : e[x] = p
    BY <1>8, EnumeratedFacts
<1> HIDE DEF X, Y, Z, last, at
<1>13. \A x \in Z : d[x] \in T
    BY <1>1, <1>2, <1>5, <1>9, <1>10, <1>12
<1>14. d \in [Z -> T]
    BY <1>11, <1>13
<1>15. \A x, y \in Z : d[x] = d[y] => x = y
    <2>1. \A x \in X, j \in Y : d[x] # d[at(j)]
        BY <1>1, <1>9, <1>10, <1>12
    <2>2. \A i, j \in Y : d[at(i)] = d[at(j)] => i = j
        BY <1>4, <1>10
    <2>3. \A x, y \in X : d[x] = d[y] => x = y
        BY <1>9, <1>12
    <2> QED
        BY <1>5, <2>1, <2>2, <2>3
<1>16. \A p \in T : \E x \in Z : d[x] = p
    BY <1>3, <1>6, <1>7, <1>9, <1>10, <1>12
<1> QED
    BY <1>14, <1>15, <1>16 DEF Enumerates, T, Z

(* e says of which rows the pairs are.                                     *)
PairsAre(left, right, e) ==
    /\ Enumerates(e, Len(Pairs(left, right)), (1..Len(left)) \X (1..Len(right)))
    /\ \A x \in 1..Len(Pairs(left, right)) :
          Pairs(left, right)[x] = <<left[e[x][1]], right[e[x][2]]>>

(* The pairs of one row of the left.                                       *)
PairsOf(l, right) == [j \in DOMAIN right |-> <<l, right[j]>>]

LEMMA PairsOfMore ==
    ASSUME NEW A, NEW B, NEW left \in Seq(A), NEW l \in A, NEW right \in Seq(B)
    PROVE  Pairs(Append(left, l), right)
               = Pairs(left, right) \o PairsOf(l, right)
<1> DEFINE row(k) == [j \in DOMAIN right |-> <<k, right[j]>>]
           more == Append(left, l)
           n == Len(left)
           m == n + 1
           Q == Seq(A \X B)
           f == [i \in 1..n |-> row(left[i])]
           g == [i \in 1..m |-> row(more[i])]
<1>1. \A k \in A : row(k) \in Q
    OBVIOUS
<1>2. n \in Nat /\ m \in Nat /\ m = n + 1 /\ DOMAIN left = 1..n /\ \A i \in 1..n : left[i] \in A
    BY SequenceFacts
<1>3. DOMAIN more = 1..m /\ more[m] = l /\ \A i \in 1..n : more[i] = left[i]
    BY AppendFacts
<1>4. Pairs(left, right) = FlattenSeq(f) /\ Pairs(more, right) = FlattenSeq(g)
    BY <1>2, <1>3 DEF Pairs
<1> HIDE DEF row, more, n, m, Q
<1>5. f \in [1..n -> Q] /\ row(l) \in Q
    BY <1>1, <1>2
<1>6. f \in Seq(Q) /\ Len(f) = n
    <2> HIDE DEF f
    <2> QED
        BY <1>2, <1>5, FunctionIsSequence
<1>7. g = Append(f, row(l))
    <2>1. \A i \in 1..m : i \in 1..n \/ i = m
        BY <1>2
    <2>2. \A i \in 1..m : more[i] \in A
        BY <1>2, <1>3, <2>1
    <2>3. g \in [1..m -> Q]
        BY <1>1, <2>2
    <2>4. \A i \in 1..n : f[i] = row(left[i]) /\ g[i] = row(left[i]) /\ i \in 1..m
        BY <1>2, <1>3
    <2>5. g[m] = row(l)
        BY <1>2, <1>3
    <2> DEFINE r == row(l)
               e == Append(f, r)
               M == 1..m
    <2>6. r \in Q
        BY <1>5
    <2> HIDE DEF f, g, r
    <2>7. e \in [M -> Q] /\ e[m] = r /\ \A i \in 1..n : e[i] = f[i]
        <3>1. Len(f) + 1 = m
            BY <1>2, <1>6
        <3>2. /\ Append(f, r) \in [1..Len(f) + 1 -> Q] /\ Append(f, r)[Len(f) + 1] = r
              /\ \A i \in 1..Len(f) : Append(f, r)[i] = f[i]
            BY <1>6, <2>6, AppendFacts
        <3> QED
            BY <1>6, <3>1, <3>2
    <2> HIDE DEF e
    <2>8. \A i \in M : e[i] = g[i]
        BY <2>1, <2>4, <2>5, <2>7 DEF r
    <2>9. g \in [M -> Q]
        BY <2>3
    <2> HIDE DEF M
    <2>10. e = g
        BY <2>7, <2>8, <2>9, FunctionsEqual
    <2> QED
        BY <2>10 DEF e, r
<1> HIDE DEF f, g
<1>9. FlattenSeq(g) = FlattenSeq(f) \o row(l)
    BY <1>5, <1>6, <1>7, FlattenAppend DEF Q
<1> QED
    BY <1>4, <1>9 DEF row, more, PairsOf

LEMMA MorePairs ==
    ASSUME NEW A, NEW B, NEW s \in Seq(A), NEW l \in A, NEW right \in Seq(B), NEW e,
           PairsAre(s, right, e), Pairs(s, right) \in Seq(A \X B)
    PROVE  /\ Pairs(Append(s, l), right) \in Seq(A \X B)
           /\ \E d : PairsAre(Append(s, l), right, d)
<1> DEFINE n == Len(s)
           m == n + 1
           w == Len(right)
           old == Pairs(s, right)
           L == Len(old)
           row == [j \in 1..w |-> <<l, right[j]>>]
           t == Append(s, l)
           new == Pairs(t, right)
           M == L + w
           d == [x \in 1..M |-> IF x <= L THEN e[x] ELSE <<m, x - L>>]
<1>1. n \in Nat /\ w \in Nat /\ L \in Nat /\ m = n + 1 /\ DOMAIN right = 1..w
    BY SequenceFacts
<1>2. t \in Seq(A) /\ Len(t) = m /\ t[m] = l /\ \A i \in 1..n : t[i] = s[i]
    BY AppendFacts
<1>3. new = old \o row
    <2>1. row = PairsOf(l, right)
        BY <1>1 DEF PairsOf
    <2>2. Pairs(Append(s, l), right) = Pairs(s, right) \o PairsOf(l, right)
        BY PairsOfMore
    <2> QED
        BY <2>1, <2>2
<1>4. \A j \in 1..w : row[j] = <<l, right[j]>>
    OBVIOUS
<1>5. row \in Seq(A \X B) /\ Len(row) = w
    <2>1. \A j \in 1..w : right[j] \in B
        BY SequenceFacts
    <2>2. row \in [1..w -> A \X B]
        BY <2>1
    <2> HIDE DEF w, row
    <2> QED
        BY <1>1, <2>2, FunctionIsSequence
<1>6. old \in Seq(A \X B)
    OBVIOUS
<1>7. Enumerates(e, L, (1..n) \X (1..w)) /\ \A x \in 1..L : old[x] = <<s[e[x][1]], right[e[x][2]]>>
    BY DEF PairsAre
<1> HIDE DEF n, w, old, L, row, t, new, m
<1>8. M \in Nat /\ M = L + w
    BY <1>1
<1>9. \A x \in 1..L : x <= L /\ x \in 1..M
    BY <1>1
<1>10. \A j \in 1..w : ~(L + j <= L) /\ L + j \in 1..M /\ (L + j) - L = j
    BY <1>1
<1>11. \A x \in 1..M : x \in 1..L \/ \E j \in 1..w : x = L + j
    <2> TAKE x \in 1..M
    <2>1. CASE x <= L
        BY <1>1, <2>1
    <2>2. CASE ~(x <= L)
        <3>1. x - L \in 1..w /\ x = L + (x - L)
            BY <1>1, <2>2
        <3> QED
            BY <3>1
    <2> QED
        BY <2>1, <2>2
<1> HIDE DEF M
<1>12. /\ DOMAIN d = 1..M /\ d \in [1..M -> {d[x] : x \in 1..M}]
       /\ \A x \in 1..L : d[x] = e[x]
    BY <1>9
<1>13. \A j \in 1..w : d[L + j] = <<m, j>>
    BY <1>10
<1> HIDE DEF d
<1>14. Enumerates(d, M, (1..m) \X (1..w))
    <2>1. MoreOf(e, d, n, w, L)
        BY <1>1, <1>7, <1>8, <1>12, <1>13 DEF MoreOf
    <2> QED
        BY <1>1, <1>8, <2>1, EnumeratesMore
<1>15. /\ new \in Seq(A \X B) /\ Len(new) = M
       /\ \A i \in 1..L : new[i] = old[i]
       /\ \A j \in 1..w : new[L + j] = row[j]
    <2> DEFINE C == A \X B
    <2>0. row \in Seq(C) /\ old \in Seq(C)
        BY <1>5, <1>6
    <2> HIDE DEF C
    <2>1. /\ new \in Seq(C) /\ Len(new) = Len(old) + Len(row)
          /\ \A i \in 1..Len(old) : new[i] = old[i]
          /\ \A j \in 1..Len(row) : new[Len(old) + j] = row[j]
        BY <1>3, <2>0, ConcatenationFacts
    <2> QED
        BY <1>5, <1>8, <2>1 DEF L, C
<1>16. \A x \in 1..M : new[x] = <<t[d[x][1]], right[d[x][2]]>>
    <2>1. ASSUME NEW x \in 1..L PROVE new[x] = <<t[d[x][1]], right[d[x][2]]>>
        <3>1. e[x] \in (1..n) \X (1..w)
            BY <1>7, EnumeratedFacts
        <3>2. e[x][1] \in 1..n
            BY <3>1
        <3>3. new[x] = old[x] /\ d[x] = e[x] /\ old[x] = <<s[e[x][1]], right[e[x][2]]>>
            BY <1>7, <1>12, <1>15
        <3>4. t[e[x][1]] = s[e[x][1]]
            BY <1>2, <3>2
        <3> QED
            BY <3>3, <3>4
    <2>2. ASSUME NEW j \in 1..w PROVE new[L + j] = <<t[d[L + j][1]], right[d[L + j][2]]>>
        <3>1. new[L + j] = row[j] /\ row[j] = <<l, right[j]>>
            BY <1>4, <1>15
        <3>2. d[L + j] = <<m, j>> /\ t[m] = l
            BY <1>2, <1>13
        <3>3. d[L + j][1] = m /\ d[L + j][2] = j
            BY <3>2
        <3> QED
            BY <3>1, <3>2, <3>3
    <2> QED
        BY <1>11, <2>1, <2>2
<1>17. PairsAre(t, right, d)
    BY <1>2, <1>14, <1>15, <1>16 DEF PairsAre, new, w
<1> QED
    BY <1>15, <1>17 DEF new, t

(* Every row of the left is paired once with every row of the right.       *)
LEMMA PairsExist ==
    ASSUME NEW A, NEW B, NEW left \in Seq(A), NEW right \in Seq(B)
    PROVE  Pairs(left, right) \in Seq(A \X B) /\ \E e : PairsAre(left, right, e)
<1> DEFINE good == {s \in Seq(A) : Pairs(s, right) \in Seq(A \X B) /\ \E e : PairsAre(s, right, e)}
<1>1. <<>> \in good
    <2>1. Pairs(<<>>, right) = <<>>
        <3>1. [i \in DOMAIN <<>> |-> [j \in DOMAIN right |-> <<(<<>>)[i], right[j]>>]] = <<>>
            OBVIOUS
        <3>2. FlattenSeq(<<>>) = <<>>
            BY DEF FlattenSeq
        <3> QED
            BY <3>1, <3>2 DEF Pairs
    <2> DEFINE z == 0
               W == 1..Len(right)
    <2>2. z = 0 /\ 1..z = {} /\ (1..z) \X W = {} /\ Len(<<>>) = z
        OBVIOUS
    <2>3. <<>> \in [1..z -> (1..z) \X W]
        BY <2>2
    <2>4. <<>> \in Seq(A) /\ <<>> \in Seq(A \X B)
        OBVIOUS
    <2> HIDE DEF z, W
    <2>5. Enumerates(<<>>, z, (1..z) \X W)
        BY <2>2, <2>3 DEF Enumerates
    <2>6. PairsAre(<<>>, right, <<>>)
        BY <2>1, <2>2, <2>5 DEF PairsAre, W
    <2> QED
        BY <2>1, <2>4, <2>6
<1>2. ASSUME NEW s \in good, NEW l \in A PROVE Append(s, l) \in good
    <2>1. s \in Seq(A) /\ Pairs(s, right) \in Seq(A \X B) /\ \E e : PairsAre(s, right, e)
        OBVIOUS
    <2>2. Append(s, l) \in Seq(A)
        BY <2>1
    <2> QED
        BY <2>1, <2>2, MorePairs
<1>3. \A s \in Seq(A) : s \in good
    <2>1. good \in SUBSET Seq(A)
        OBVIOUS
    <2> HIDE DEF good
    <2> QED
        BY <1>1, <1>2, <2>1, SequenceInduct
<1> QED
    BY <1>3

-----------------------------------------------------------------------------
(* The sources of a plain SELECT and what their columns are called.        *)

Plain(s) == s \in Selects /\ PlainSelect(s)

Width(s) == Len(s.from) + Len(s.joins)
TableAt(s, i) == Sources(s)[i].table
AliasAt(s, i) == Sources(s)[i].alias
LabelAt(s, i) == Label(Sources(s)[i])
ColumnsAt(s, i) == ColumnsOf(TableAt(s, i))

(* The columns of a source that the statement reads.                       *)
Kept(s, i) ==
    {b \in ColumnsAt(s, i) : s.select = <<>> \/ b \in {Base(n) : n \in Asked(s)}}

LEMMA SelectFacts ==
    ASSUME NEW s, Plain(s)
    PROVE  /\ Len(s.from) \in Nat \ {0} /\ Len(s.joins) \in Nat
           /\ DOMAIN s.joins = 1..Len(s.joins)
           /\ Width(s) \in Nat \ {0} /\ Width(s) = Len(s.from) + Len(s.joins)
           /\ Len(Sources(s)) = Width(s) /\ DOMAIN Sources(s) = 1..Width(s)
           /\ \A i \in 1..Width(s) : Sources(s)[i] \in TableSources
           /\ \A j \in DOMAIN s.joins : Sources(s)[Len(s.from) + j] = s.joins[j].table
<1> DEFINE from == s.from
           joins == s.joins
           J == [table : TableSources, type : STRING, natural : BOOLEAN,
                 left : ColumnNames, right : ColumnNames]
           F == Len(from)
           K == Len(joins)
           more == [i \in 1..K |-> joins[i].table]
<1>1. from \in Seq(TableSources) /\ from # <<>> /\ joins \in Seq(J)
    BY DEF Plain, Selects
<1>2. \A join \in J : join.table \in TableSources
    OBVIOUS
<1> HIDE DEF J, from, joins
<1>3. F \in Nat /\ K \in Nat /\ DOMAIN joins = 1..K /\ \A j \in 1..K : joins[j] \in J
    BY <1>1, SequenceFacts
<1>4. F # 0
    BY <1>1, NotEmpty
<1>5. more \in [1..K -> TableSources] /\ \A j \in 1..K : more[j] = joins[j].table
    BY <1>2, <1>3
<1>6. Sources(s) = from \o more
    BY <1>3 DEF Sources, from, joins
<1> HIDE DEF F, K, more
<1>7. more \in Seq(TableSources) /\ Len(more) = K
    BY <1>3, <1>5, FunctionIsSequence
<1> DEFINE all == from \o more
<1>0. all = from \o more
    OBVIOUS
<1> HIDE DEF all
<1>8. /\ all \in Seq(TableSources) /\ Len(all) = Len(from) + Len(more)
      /\ \A j \in 1..Len(more) : all[Len(from) + j] = more[j]
    <2>1. from \in Seq(TableSources) /\ more \in Seq(TableSources)
        BY <1>1, <1>7
    <2> QED
        BY <1>0, <2>1, ConcatenationFacts
<1>9. Len(all) \in Nat /\ DOMAIN all = 1..Len(all) /\ \A i \in 1..Len(all) : all[i] \in TableSources
    BY <1>8, SequenceFacts
<1>10. F + K \in Nat \ {0}
    BY <1>3, <1>4
<1>11. Len(all) = F + K
    BY <1>7, <1>8 DEF F
<1>12. \A j \in 1..K : all[F + j] = joins[j].table
    BY <1>5, <1>7, <1>8 DEF F
<1>13. F = Len(s.from) /\ K = Len(s.joins) /\ joins = s.joins /\ all = Sources(s)
    BY <1>6 DEF F, K, from, joins, all
<1> QED
    BY <1>3, <1>4, <1>9, <1>10, <1>11, <1>12, <1>13 DEF Width

LEMMA PlainFacts ==
    ASSUME NEW s, Plain(s)
    PROVE  /\ s \in Selects /\ PlainSelect(s)
           /\ SourcesDiffer(s) /\ KeepsColumns(s) /\ NamesAreClear(s) /\ LinksInOrder(s)
           /\ PlainJoins(s) /\ NamesApart(s) /\ OrderIsFound(s) /\ s.limit # 0
BY DEF Plain, PlainSelect

(* Tables and labels tell the sources apart.                               *)
LEMMA SourcesAre ==
    ASSUME NEW s, Plain(s)
    PROVE  \A i, j \in 1..Width(s) :
             /\ TableAt(s, i) \in Tables /\ TableAt(s, i) # NoName /\ TableAt(s, i) # All
             /\ AliasAt(s, i) # All /\ AliasAt(s, i) # TableAt(s, j)
             /\ LabelAt(s, i) = IF AliasAt(s, i) = NoName THEN TableAt(s, i) ELSE AliasAt(s, i)
             /\ LabelAt(s, i) # NoName /\ LabelAt(s, i) # All
             /\ i # j => /\ TableAt(s, i) # TableAt(s, j) /\ LabelAt(s, i) # LabelAt(s, j)
                         /\ AliasAt(s, i) = NoName \/ AliasAt(s, i) # AliasAt(s, j)
<1>1. DOMAIN Sources(s) = 1..Width(s) /\ \A i \in 1..Width(s) : Sources(s)[i] \in TableSources
    BY SelectFacts
<1>2. \A x \in TableSources : x.table \in Tables /\ x.alias # All
    BY DEF TableSources
<1>3. \A t \in Tables : t # NoName /\ t # All
    BY SchemasAssumption DEF Tables
<1>4. \A i, j \in 1..Width(s) :
        /\ Sources(s)[i].alias # Sources(s)[j].table
        /\ i # j => /\ Sources(s)[i].table # Sources(s)[j].table
                    /\ Sources(s)[i].alias = NoName \/ Sources(s)[i].alias # Sources(s)[j].alias
    BY <1>1, PlainFacts DEF SourcesDiffer
<1> HIDE DEF NoName, All
<1>5. \A i, j \in 1..Width(s) :
        /\ TableAt(s, i) \in Tables /\ TableAt(s, i) # NoName /\ TableAt(s, i) # All
        /\ AliasAt(s, i) # All /\ AliasAt(s, i) # TableAt(s, j)
        /\ i # j => /\ TableAt(s, i) # TableAt(s, j)
                    /\ AliasAt(s, i) = NoName \/ AliasAt(s, i) # AliasAt(s, j)
    BY <1>1, <1>2, <1>3, <1>4 DEF TableAt, AliasAt
<1>6. \A i \in 1..Width(s) :
        LabelAt(s, i) = IF AliasAt(s, i) = NoName THEN TableAt(s, i) ELSE AliasAt(s, i)
    BY DEF LabelAt, Label, TableAt, AliasAt
<1> QED
    BY <1>5, <1>6

Cell(s, db, c, i, b) == db[TableAt(s, i)][c[i]][Name(b)]

(* What the join of source i asks of a combination.                        *)
Linked(s, db, i, c) ==
    i > Len(s.from) =>
        IF s.joins[i - Len(s.from)].natural
        THEN \A h \in 1..(i - 1) : \A b \in ColumnsAt(s, h) \cap ColumnsAt(s, i) :
                Cell(s, db, c, h, b) = Cell(s, db, c, i, b)
        ELSE ValueIn(s, db, c, s.joins[i - Len(s.from)].left)
                = ValueIn(s, db, c, s.joins[i - Len(s.from)].right)

LinkedUpTo(s, db, k, c) == \A i \in 2..k : Linked(s, db, i, c)

(* With joins there is one table in FROM, and every other source has one.  *)
LEMMA JoinFacts ==
    ASSUME NEW s, Plain(s)
    PROVE  \/ /\ Len(s.from) = 1 /\ \A i \in 2..Width(s) : i - 1 \in DOMAIN s.joins
              /\ Width(s) = 1 + Len(s.joins)
           \/ /\ Len(s.from) > 1 /\ Width(s) = Len(s.from) /\ DOMAIN s.joins = {}
<1> DEFINE F == Len(s.from)
           K == Len(s.joins)
           N == Width(s)
<1>1. F \in Nat \ {0} /\ K \in Nat /\ DOMAIN s.joins = 1..K /\ N = F + K
    BY SelectFacts
<1>2. s.joins # <<>> => F = 1
    BY PlainFacts DEF PlainJoins
<1>3. s.joins = <<>> => K = 0
    OBVIOUS
<1> HIDE DEF F, K, N
<1>4. F = 1 \/ K = 0
    BY <1>2, <1>3
<1>5. CASE F = 1
    <2>1. \A i \in 2..N : i - 1 \in 1..K
        BY <1>1, <1>5
    <2>2. N = 1 + K
        BY <1>1, <1>5
    <2> QED
        BY <1>1, <1>5, <2>1, <2>2 DEF F, K, N
<1>6. CASE F # 1
    <2>1. F > 1 /\ K = 0 /\ N = F /\ 1..K = {}
        BY <1>1, <1>4, <1>6
    <2> QED
        BY <1>1, <2>1 DEF F, K, N
<1> QED
    BY <1>5, <1>6

LEMMA NaturalFacts ==
    ASSUME NEW s, Plain(s)
    PROVE  /\ \A i, j \in 1..Width(s) : i <= j /\ InNatural(s, j) => InNatural(s, i)
           /\ \A i \in 1..Width(s) : InNatural(s, i) => Len(s.from) = 1
           /\ \A i \in 2..Width(s) :
                 Len(s.from) = 1 => (InNatural(s, i) <=> s.joins[i - 1].natural)
           /\ \A i \in 2..Width(s) :
                 Len(s.from) = 1 /\ ~s.joins[i - 1].natural => ~InNatural(s, i)
           /\ 2 <= Width(s) /\ Len(s.from) = 1 => (InNatural(s, 1) <=> s.joins[1].natural)
<1> DEFINE K == Len(s.joins)
           F == Len(s.from)
           nat(j) == s.joins[j].natural
<1>1. /\ F \in Nat \ {0} /\ K \in Nat /\ DOMAIN s.joins = 1..K /\ Width(s) = F + K
    BY SelectFacts
<1>2. F = 1 \/ K = 0
    <2>1. s.joins # <<>> => F = 1
        BY PlainFacts DEF PlainJoins
    <2> QED
        BY <2>1
<1>3. \A j \in 1..K : nat(j) => \A i \in 1..j : nat(i)
    BY <1>1, PlainFacts DEF PlainJoins
<1>4. \A i : InNatural(s, i) <=> \E j \in 1..K : nat(j) /\ i <= F + j
    BY <1>1 DEF InNatural
<1> HIDE DEF K, nat, F
<1>5. Width(s) \in Nat /\ (F = 1 => Width(s) = 1 + K)
    BY <1>1
<1>6. \A i, j \in 1..Width(s) : i <= j /\ InNatural(s, j) => InNatural(s, i)
    <2> TAKE i, j \in 1..Width(s)
    <2> HAVE i <= j /\ InNatural(s, j)
    <2>1. PICK x \in 1..K : nat(x) /\ j <= F + x
        BY <1>4
    <2>2. i <= F + x
        BY <1>1, <2>1
    <2> QED
        BY <1>4, <2>1, <2>2
<1>7. \A i \in 1..Width(s) : InNatural(s, i) => F = 1
    <2>1. \A j \in 1..K : K # 0
        BY <1>1
    <2> QED
        BY <1>2, <1>4, <2>1
<1>8. \A i \in 2..Width(s) : F = 1 => (InNatural(s, i) <=> nat(i - 1))
    <2> TAKE i \in 2..Width(s)
    <2> HAVE F = 1
    <2>1. i \in 2..(1 + K)
        BY <1>5
    <2>2. i - 1 \in 1..K /\ i <= F + (i - 1)
        BY <1>1, <2>1
    <2>3. ASSUME NEW x \in 1..K, nat(x), i <= F + x PROVE nat(i - 1)
        <3>1. i - 1 \in 1..x
            BY <1>1, <2>1, <2>3
        <3> QED
            BY <1>3, <2>3, <3>1
    <2> QED
        BY <1>4, <2>2, <2>3
<1>9. 2 <= Width(s) /\ F = 1 => (InNatural(s, 1) <=> nat(1))
    <2> HAVE 2 <= Width(s) /\ F = 1
    <2>1. 1 \in 1..K /\ 1 <= F + 1
        BY <1>1, <1>5
    <2>2. ASSUME NEW x \in 1..K, nat(x) PROVE nat(1)
        <3>1. 1 \in 1..x
            OBVIOUS
        <3> QED
            BY <1>3, <2>2, <3>1
    <2> QED
        BY <1>4, <2>1, <2>2
<1> QED
    BY <1>6, <1>7, <1>8, <1>9 DEF F, nat

(* The columns that natural joins share are equal in a combination.        *)
LEMMA NaturalsAgree ==
    ASSUME NEW s, Plain(s), NEW db, NEW c, NEW k \in 1..Width(s), LinkedUpTo(s, db, k, c),
           NEW i \in 1..k, NEW j \in 1..k, InNatural(s, i), InNatural(s, j),
           NEW b, b \in ColumnsAt(s, i), b \in ColumnsAt(s, j)
    PROVE  Cell(s, db, c, i, b) = Cell(s, db, c, j, b)
<1>0. Width(s) \in Nat
    BY SelectFacts
<1>1. ASSUME NEW g \in 1..k, NEW h \in 1..k, g < h, InNatural(s, h),
             b \in ColumnsAt(s, g), b \in ColumnsAt(s, h)
      PROVE  Cell(s, db, c, g, b) = Cell(s, db, c, h, b)
    <2>1. h \in 2..k /\ h \in 2..Width(s) /\ h \in 1..Width(s) /\ g \in 1..(h - 1)
        BY <1>0, <1>1
    <2>2. Len(s.from) = 1
        BY <1>1, <2>1, NaturalFacts
    <2>3. s.joins[h - 1].natural
        BY <1>1, <2>1, <2>2, NaturalFacts
    <2>4. Linked(s, db, h, c)
        BY <2>1 DEF LinkedUpTo
    <2>5. h > 1
        BY <2>1
    <2>6. \A x \in 1..(h - 1) : \A d \in ColumnsAt(s, x) \cap ColumnsAt(s, h) :
              Cell(s, db, c, x, d) = Cell(s, db, c, h, d)
        BY <2>2, <2>3, <2>4, <2>5 DEF Linked
    <2> QED
        BY <1>1, <2>1, <2>6
<1>2. CASE i < j
    BY <1>1, <1>2
<1>3. CASE j < i
    BY <1>1, <1>3
<1>4. CASE i = j
    BY <1>4
<1> QED
    BY <1>2, <1>3, <1>4

(* What column b of source i is called in the rows of the first k sources. *)
HeadName(s, k, i, b) == IF k = 1 THEN <<AliasAt(s, i), b>> ELSE Heading(s, i, b)

(* The row that combination c gives.                                       *)
Shows(s, db, k, c, row) ==
    /\ row = [table |-> TableAt(s, 1), columns |-> row.columns]
    /\ \A n \in DOMAIN row.columns : \E i \in 1..k : \E b \in Kept(s, i) : n = HeadName(s, k, i, b)
    /\ \A i \in 1..k : \A b \in Kept(s, i) :
          /\ HeadName(s, k, i, b) \in DOMAIN row.columns
          /\ row.columns[HeadName(s, k, i, b)] = Cell(s, db, c, i, b)

LEMMA PairNames ==
    /\ \A q, b : Base(<<q, b>>) = b /\ Qualifier(<<q, b>>) = q
    /\ \A b : Name(b) = <<NoName, b>>
    /\ \A q, b, r, d : <<q, b>> = <<r, d>> => q = r /\ b = d
BY DEF Base, Qualifier, Name

LEMMA HeadNameFacts ==
    ASSUME NEW s, Plain(s), NEW k, NEW i \in 1..Width(s), NEW b
    PROVE  /\ Base(HeadName(s, k, i, b)) = b
           /\ Qualifier(HeadName(s, k, i, b)) \in {NoName, LabelAt(s, i)}
           /\ HeadName(s, k, i, b) = <<Qualifier(HeadName(s, k, i, b)), b>>
<1>1. AliasAt(s, i) \in {NoName, LabelAt(s, i)}
    BY SourcesAre
<1>2. \E q \in {NoName, LabelAt(s, i)} : HeadName(s, k, i, b) = <<q, b>>
    <2>1. CASE k = 1
        BY <1>1, <2>1 DEF HeadName
    <2>2. CASE k # 1
        <3>1. Heading(s, i, b) \in {Name(b), <<LabelAt(s, i), b>>, <<AliasAt(s, i), b>>}
            BY DEF Heading, LabelAt, AliasAt
        <3> QED
            BY <1>1, <2>2, <3>1, PairNames DEF HeadName
    <2> QED
        BY <2>1, <2>2
<1> QED
    BY <1>2, PairNames

LEMMA CandidateFacts ==
    ASSUME NEW s, Plain(s), NEW n
    PROVE  /\ \A i : i \in Candidates(s, n) <=>
                 /\ i \in 1..Width(s) /\ Base(n) \in ColumnsAt(s, i)
                 /\ Qualifier(n) \in {NoName, LabelAt(s, i)}
           /\ Candidates(s, n) # {} =>
                 /\ SourceOf(s, n) \in Candidates(s, n) /\ SourceOf(s, n) \in 1..Width(s)
                 /\ \A j \in Candidates(s, n) : SourceOf(s, n) <= j
<1>1. \A i : i \in Candidates(s, n) <=>
          /\ i \in 1..Width(s) /\ Base(n) \in ColumnsAt(s, i)
          /\ Qualifier(n) \in {NoName, LabelAt(s, i)}
    BY SelectFacts DEF Candidates, ColumnsAt, TableAt, LabelAt
<1>2. Candidates(s, n) \in SUBSET Nat
    <2>1. \A i \in 1..Width(s) : i \in Nat
        BY SelectFacts
    <2> QED
        BY <1>1, <2>1
<1>3. ASSUME Candidates(s, n) # {}
      PROVE  SourceOf(s, n) \in Candidates(s, n) /\ \A j \in Candidates(s, n) : SourceOf(s, n) <= j
    <2>1. \E m \in Candidates(s, n) : \A j \in Candidates(s, n) : m <= j
        BY <1>2, <1>3, LeastNatural
    <2> QED
        BY <2>1 DEF SourceOf
<1> QED
    BY <1>1, <1>3

LEMMA OneFound ==
    ASSUME NEW row, NEW n, NEW v, Found(row, n) # {}, \A x \in Found(row, n) : row.columns[x] = v
    PROVE  ValueOf(row, n) = v
<1>1. (CHOOSE x \in Found(row, n) : TRUE) \in Found(row, n)
    OBVIOUS
<1> QED
    BY <1>1 DEF ValueOf

(* A name is found in the rows with the value of the source it is of.      *)
OfSource(s, n, k, i) ==
    /\ n = <<Qualifier(n), Base(n)>>
    /\ i \in 1..k /\ i \in Candidates(s, n) /\ Base(n) \in Kept(s, i)
    /\ \A j \in 1..k : j \in Candidates(s, n) => j = i \/ (InNatural(s, i) /\ InNatural(s, j))

LEMMA FoundIs ==
    ASSUME NEW s, Plain(s), NEW db, NEW k \in 1..Width(s), NEW c, LinkedUpTo(s, db, k, c),
           NEW row, Shows(s, db, k, c, row), NEW n, NEW i, OfSource(s, n, k, i)
    PROVE  /\ Found(row, n) # {} /\ ValueOf(row, n) = Cell(s, db, c, i, Base(n))
           /\ \A x \in Found(row, n) : row.columns[x] = Cell(s, db, c, i, Base(n))
<1> DEFINE b == Base(n)
           f == row.columns
           v == Cell(s, db, c, i, b)
           head(j, d) == HeadName(s, k, j, d)
<1>1. /\ n = <<Qualifier(n), b>> /\ i \in 1..k /\ i \in Candidates(s, n) /\ b \in Kept(s, i)
      /\ \A j \in 1..k : j \in Candidates(s, n) => j = i \/ (InNatural(s, i) /\ InNatural(s, j))
    BY DEF OfSource
<1>2. /\ \A x \in DOMAIN f : \E j \in 1..k : \E d \in Kept(s, j) : x = head(j, d)
      /\ \A j \in 1..k : \A d \in Kept(s, j) : head(j, d) \in DOMAIN f /\ f[head(j, d)] = Cell(s, db, c, j, d)
    BY DEF Shows
<1>3. \A j \in 1..k : j \in 1..Width(s)
    <2>1. Width(s) \in Nat
        BY SelectFacts
    <2> QED
        BY <2>1
<1>4. \A j \in 1..k : \A d : /\ Base(head(j, d)) = d
                             /\ Qualifier(head(j, d)) \in {NoName, LabelAt(s, j)}
                             /\ head(j, d) = <<Qualifier(head(j, d)), d>>
    BY <1>3, HeadNameFacts
<1>5. \A j \in 1..k : \A d \in Kept(s, j) : d \in ColumnsAt(s, j)
    BY DEF Kept
<1>6. \A j \in Candidates(s, n) : j \in 1..k /\ b \in Kept(s, j) => Cell(s, db, c, j, b) = v
    BY <1>1, <1>3, <1>5, NaturalsAgree
<1>7. \A j : j \in Candidates(s, n) <=>
          j \in 1..Width(s) /\ b \in ColumnsAt(s, j) /\ Qualifier(n) \in {NoName, LabelAt(s, j)}
    BY CandidateFacts
<1> HIDE DEF b, f, v, head
<1>8. head(i, b) \in DOMAIN f /\ f[head(i, b)] = v
    BY <1>1, <1>2 DEF v
<1>9. CASE n \in DOMAIN f
    <2>1. PICK j \in 1..k : \E d \in Kept(s, j) : n = head(j, d)
        BY <1>2, <1>9
    <2>2. n = head(j, b) /\ b \in Kept(s, j) /\ Qualifier(n) \in {NoName, LabelAt(s, j)}
        BY <1>4, <2>1 DEF b
    <2>3. j \in Candidates(s, n)
        BY <1>3, <1>5, <1>7, <2>2
    <2>4. f[n] = v
        BY <1>2, <1>6, <2>2, <2>3
    <2>5. Found(row, n) = {n}
        BY <1>9 DEF Found, f
    <2> QED
        BY <2>4, <2>5, OneFound DEF f, v, b
<1>10. CASE n \notin DOMAIN f /\ Qualifier(n) = NoName
    <2>1. Found(row, n) = {x \in DOMAIN f : Base(x) = b}
        BY <1>10 DEF Found, f, b
    <2>2. head(i, b) \in Found(row, n)
        BY <1>1, <1>4, <1>8, <2>1
    <2>3. \A x \in Found(row, n) : f[x] = v
        <3> TAKE x \in Found(row, n)
        <3>1. x \in DOMAIN f /\ Base(x) = b
            BY <2>1
        <3>2. PICK j \in 1..k : \E d \in Kept(s, j) : x = head(j, d)
            BY <1>2, <3>1
        <3>3. x = head(j, b) /\ b \in Kept(s, j)
            BY <1>4, <3>1, <3>2
        <3>4. j \in Candidates(s, n)
            BY <1>3, <1>5, <1>7, <1>10, <3>3
        <3> QED
            BY <1>2, <1>6, <3>3, <3>4
    <2> QED
        BY <2>2, <2>3, OneFound DEF f, v, b
<1>11. CASE n \notin DOMAIN f /\ Qualifier(n) # NoName
    <2>1. Found(row, n) = {Name(b)} \cap DOMAIN f
        BY <1>11 DEF Found, f, b
    <2>2. Qualifier(n) = LabelAt(s, i)
        BY <1>1, <1>7, <1>11
    <2>3. Qualifier(head(i, b)) # LabelAt(s, i)
        BY <1>1, <1>4, <1>8, <1>11, <2>2
    <2>4. Name(b) = head(i, b)
        BY <1>1, <1>4, <2>3, PairNames
    <2>5. Found(row, n) = {Name(b)} /\ f[Name(b)] = v
        BY <1>8, <2>1, <2>4
    <2> QED
        BY <2>5, OneFound DEF f, v, b
<1> QED
    BY <1>9, <1>10, <1>11

LEMMA UsedAreNames ==
    ASSUME NEW s, Plain(s), NEW n \in Used(s) \cup Asked(s)
    PROVE  n = <<Qualifier(n), Base(n)>>
<1> DEFINE C == ColumnNames
<1>1. \A x \in C : x = <<Qualifier(x), Base(x)>>
    BY DEF ColumnNames, Qualifier, Base
<1> DEFINE I == [column : ColumnNames, label : STRING]
           J == [table : TableSources, type : STRING, natural : BOOLEAN,
                 left : ColumnNames, right : ColumnNames]
<1>2. s.select \in Seq(I) /\ s.joins \in Seq(J) /\ s.where \in Seq(Conditions) /\ s.order \in C
    BY DEF Plain, Selects
<1>3. \A i \in DOMAIN s.select : s.select[i].column \in C
    <2>1. \A x \in I : x.column \in C
        OBVIOUS
    <2>2. s.select \in Seq(I)
        BY <1>2
    <2> HIDE DEF I, C
    <2>3. \A i \in DOMAIN s.select : s.select[i] \in I
        BY <2>2, SequenceFacts
    <2> QED
        BY <2>1, <2>3
<1>4. \A j \in DOMAIN s.joins : s.joins[j].left \in C /\ s.joins[j].right \in C
    <2>1. \A x \in J : x.left \in C /\ x.right \in C
        OBVIOUS
    <2>2. s.joins \in Seq(J)
        BY <1>2
    <2> HIDE DEF J, C
    <2>3. \A j \in DOMAIN s.joins : s.joins[j] \in J
        BY <2>2, SequenceFacts
    <2> QED
        BY <2>1, <2>3
<1>5. \A i \in DOMAIN s.where : s.where[i] \in Conditions
    BY <1>2, SequenceFacts
<1>6. \A x \in Conditions : x.column \in C /\ (x.isColumn => Payload(x.operand) \in C)
    <2> TAKE x \in Conditions
    <2>1. x.column \in C /\ x.operand \in Values /\ (x.isColumn => Type(x.operand) = "string")
        BY DEF Conditions
    <2>2. \A v \in Values : Type(v) = "string" => Payload(v) \in ColumnNames
        BY DEF Values, Type, Payload
    <2> QED
        BY <2>1, <2>2
<1>7. s.order \in C
    BY <1>2
<1> HIDE DEF C
<1>8. n \in C
    BY <1>3, <1>4, <1>5, <1>6, <1>7 DEF Used, Asked
<1> QED
    BY <1>1, <1>8

(* Two sources share a column if both have it.                             *)
LEMMA SharedIs ==
    ASSUME NEW s, Plain(s), NEW i \in 1..Width(s), NEW j \in 1..Width(s), i # j,
           NEW b, b \in ColumnsAt(s, i), b \in ColumnsAt(s, j)
    PROVE  b \in Shared(s)
<1> DEFINE I == {h \in DOMAIN Sources(s) : b \in ColumnsOf(Sources(s)[h].table)}
<1>1. DOMAIN Sources(s) = 1..Width(s) /\ Width(s) \in Nat
    BY SelectFacts
<1>2. IsFiniteSet(I) /\ Cardinality(I) \in Nat
    <2>1. IsFiniteSet(1..Width(s))
        BY <1>1, FS_Interval
    <2>2. I \in SUBSET (1..Width(s))
        BY <1>1
    <2> HIDE DEF I
    <2> QED
        BY <2>1, <2>2, FS_Subset, FS_CardinalityType
<1>3. i \in I /\ j \in I
    BY <1>1 DEF ColumnsAt, TableAt
<1>4. Sources(s)[i] \in Range(Sources(s)) /\ b \in ColumnsOf(Sources(s)[i].table)
    BY <1>1 DEF ColumnsAt, TableAt, Range
<1>5. Cardinality(I) > 1
    <2> HIDE DEF I
    <2>1. I # {} /\ Cardinality(I) # 0
        BY <1>2, <1>3, FS_EmptySet
    <2>2. Cardinality(I) # 1
        BY <1>2, <1>3, FS_Singleton
    <2> QED
        BY <1>2, <2>1, <2>2
<1> QED
    BY <1>4, <1>5 DEF Shared

LEMMA SharedAreKept ==
    ASSUME NEW s, Plain(s), NEW i \in 1..Width(s), NEW j \in 1..Width(s), i # j,
           NEW b, b \in ColumnsAt(s, i), b \in ColumnsAt(s, j)
    PROVE  b \in Kept(s, i) /\ b \in Kept(s, j)
<1>1. b \in Shared(s)
    BY SharedIs
<1>2. s.select # <<>> => b \in {Base(n) : n \in Asked(s)}
    BY <1>1, PlainFacts DEF KeepsColumns
<1> QED
    BY <1>2 DEF Kept

LEMMA UsedAreOf ==
    ASSUME NEW s, Plain(s), NEW n \in Used(s) \cup Asked(s)
    PROVE  /\ SourceOf(s, n) \in 1..Width(s) /\ SourceOf(s, n) \in Candidates(s, n)
           /\ Base(n) \in ColumnsAt(s, SourceOf(s, n))
           /\ \A k : SourceOf(s, n) \in 1..k => OfSource(s, n, k, SourceOf(s, n))
<1> DEFINE i == SourceOf(s, n)
<1>1. IsClear(s, n)
    BY PlainFacts DEF NamesAreClear
<1>2. Candidates(s, n) # {}
    BY <1>1 DEF IsClear
<1>3. i \in Candidates(s, n) /\ i \in 1..Width(s) /\ Base(n) \in ColumnsAt(s, i)
    BY <1>2, CandidateFacts
<1>4. s.select # <<>> => Base(n) \in {Base(m) : m \in Asked(s)}
    BY PlainFacts DEF KeepsColumns
<1>5. Base(n) \in Kept(s, i)
    BY <1>3, <1>4 DEF Kept
<1> HIDE DEF i
<1>6. \A j \in Candidates(s, n) : j = i \/ (InNatural(s, i) /\ InNatural(s, j))
    BY <1>1, <1>3 DEF IsClear
<1>7. n = <<Qualifier(n), Base(n)>>
    BY UsedAreNames
<1>8. \A k : i \in 1..k => OfSource(s, n, k, i)
    BY <1>3, <1>5, <1>6, <1>7 DEF OfSource
<1> QED
    BY <1>3, <1>8 DEF i

LEMMA WidthFacts ==
    ASSUME NEW s, Plain(s)
    PROVE  Width(s) \in Nat \ {0} /\ \A k \in 1..Width(s) : k \in Nat /\ \A i \in 1..k : i \in 1..Width(s)
<1>1. Width(s) \in Nat \ {0}
    BY SelectFacts
<1> DEFINE N == Width(s)
<1> HIDE DEF N
<1>2. N \in Nat => \A k \in 1..N : k \in Nat /\ \A i \in 1..k : i \in 1..N
    OBVIOUS
<1> QED
    BY <1>1, <1>2 DEF N

(* JOIN ON compares a column of an earlier source to one of its own.       *)
LEMMA OnSources ==
    ASSUME NEW s, Plain(s), NEW i \in 2..Width(s), Len(s.from) = 1, ~s.joins[i - 1].natural
    PROVE  /\ s.joins[i - 1].left \in Used(s) /\ s.joins[i - 1].right \in Used(s)
           /\ SourceOf(s, s.joins[i - 1].left) \in 1..(i - 1)
           /\ SourceOf(s, s.joins[i - 1].right) = i
           /\ Qualifier(s.joins[i - 1].right) = LabelAt(s, i)
           /\ TypeOf(s, s.joins[i - 1].left) = TypeOf(s, s.joins[i - 1].right)
<1> DEFINE j == i - 1
           join == s.joins[j]
<1>1. j \in DOMAIN s.joins /\ Width(s) \in Nat
    <2>1. \A h \in 2..Width(s) : h - 1 \in DOMAIN s.joins
        <3>1. ~(Len(s.from) > 1)
            OBVIOUS
        <3> QED
            BY <3>1, JoinFacts, Zenon
    <2> QED
        BY <2>1, WidthFacts
<1>2. i \in 1..Width(s) /\ Len(s.from) + j = i
    BY <1>1
<1>3. join.left \in Used(s) /\ join.right \in Used(s)
    BY <1>1 DEF Used
<1>4. /\ Qualifier(join.right) = Label(join.table)
      /\ SourceOf(s, join.left) < Len(s.from) + j
      /\ TypeOf(s, join.left) = TypeOf(s, join.right)
    BY <1>1, PlainFacts DEF PlainJoins
<1>5. Label(join.table) = LabelAt(s, i)
    BY <1>1, <1>2, SelectFacts DEF LabelAt
<1> HIDE DEF j
<1>6. SourceOf(s, join.left) \in 1..Width(s)
    BY <1>3, UsedAreOf
<1>7. SourceOf(s, join.left) \in 1..(i - 1)
    BY <1>1, <1>2, <1>4, <1>6
<1>8. SourceOf(s, join.right) \in Candidates(s, join.right) /\ SourceOf(s, join.right) \in 1..Width(s)
    BY <1>3, UsedAreOf
<1>9. Qualifier(join.right) \in {NoName, LabelAt(s, SourceOf(s, join.right))}
    BY <1>8, CandidateFacts
<1>10. LabelAt(s, i) = LabelAt(s, SourceOf(s, join.right))
    BY <1>2, <1>4, <1>5, <1>9, SourcesAre
<1>11. SourceOf(s, join.right) = i
    BY <1>2, <1>8, <1>10, SourcesAre
<1> QED
    BY <1>3, <1>4, <1>5, <1>7, <1>11 DEF j

(* What the first k sources have to say depends on their rows only.        *)
Agree(k, c, d) == \A i \in 1..k : c[i] = d[i]

LEMMA AgreeFacts ==
    ASSUME NEW s, Plain(s), NEW db, NEW k \in 1..Width(s), NEW c, NEW d, Agree(k, c, d)
    PROVE  /\ LinkedUpTo(s, db, k, c) => LinkedUpTo(s, db, k, d)
           /\ \A i \in 1..k : \A b : Cell(s, db, c, i, b) = Cell(s, db, d, i, b)
           /\ \A row : Shows(s, db, k, c, row) => Shows(s, db, k, d, row)
<1>1. \A i \in 1..k : \A b : Cell(s, db, c, i, b) = Cell(s, db, d, i, b)
    BY DEF Agree, Cell
<1>2. \A row : Shows(s, db, k, c, row) => Shows(s, db, k, d, row)
    BY <1>1 DEF Shows
<1>3. ASSUME NEW i \in 2..k, Linked(s, db, i, c)
      PROVE  Linked(s, db, i, d)
    <2>0. /\ i \in 2..Width(s) /\ i \in 1..k /\ \A h \in 1..(i - 1) : h \in 1..k
          /\ i > 1 /\ Len(s.from) \in Nat
        BY WidthFacts, SelectFacts
    <2>1. CASE ~(i > Len(s.from))
        BY <2>1 DEF Linked
    <2>2. CASE i > Len(s.from)
        <3>1. Len(s.from) = 1
            BY <2>0, <2>2, JoinFacts
        <3>2. CASE s.joins[i - 1].natural
            BY <1>1, <1>3, <2>0, <3>1, <3>2 DEF Linked
        <3>3. CASE ~s.joins[i - 1].natural
            <4>1. /\ SourceOf(s, s.joins[i - 1].left) \in 1..k
                  /\ SourceOf(s, s.joins[i - 1].right) \in 1..k
                BY <2>0, <3>1, <3>3, OnSources
            <4>2. \A n : SourceOf(s, n) \in 1..k => ValueIn(s, db, c, n) = ValueIn(s, db, d, n)
                BY <1>1 DEF ValueIn, Cell, TableAt
            <4>3. \A x : Linked(s, db, i, x) <=>
                      ValueIn(s, db, x, s.joins[i - 1].left) = ValueIn(s, db, x, s.joins[i - 1].right)
                BY <2>2, <3>1, <3>3 DEF Linked
            <4> QED
                BY <1>3, <4>1, <4>2, <4>3
        <3> QED
            BY <3>2, <3>3
    <2> QED
        BY <2>1, <2>2
<1> QED
    BY <1>1, <1>2, <1>3 DEF LinkedUpTo

-----------------------------------------------------------------------------
(* Rows that list combinations, each once.                                 *)

InRange(s, db, k, c) == \A i \in 1..k : c[i] \in DOMAIN db[TableAt(s, i)]

Partial(s, db, k) == {c \in [1..k -> Nat] : InRange(s, db, k, c) /\ LinkedUpTo(s, db, k, c)}

ListedBy(s, db, k, rows, C, f) ==
    /\ rows \in Seq(Range(rows)) /\ Enumerates(f, Len(rows), C)
    /\ \A x \in 1..Len(rows) : Shows(s, db, k, f[x], rows[x])

Lists(s, db, k, rows, C) == \E f : ListedBy(s, db, k, rows, C, f)

(* A row of a table as the processor reads it, and all of them.            *)
ReadAs(s, db, i, r, row) ==
    /\ row.table = TableAt(s, i)
    /\ \A n \in DOMAIN row.columns : \E b \in Kept(s, i) : n = <<AliasAt(s, i), b>>
    /\ \A b \in Kept(s, i) :
          /\ <<AliasAt(s, i), b>> \in DOMAIN row.columns
          /\ row.columns[<<AliasAt(s, i), b>>] = db[TableAt(s, i)][r][Name(b)]

Reads(s, db, i, rows) ==
    /\ rows \in Seq(Range(rows)) /\ 1..Len(rows) = DOMAIN db[TableAt(s, i)]
    /\ \A r \in 1..Len(rows) : ReadAs(s, db, i, r, rows[r])

(* A combination of the first k sources, before the join of source k.      *)
Extends(s, db, k, c) == InRange(s, db, k, c) /\ LinkedUpTo(s, db, k - 1, c)

Gives(s, db, k, c, p) == Shows(s, db, k - 1, c, p[1]) /\ ReadAs(s, db, k, c[k], p[2])

(* out is what a join makes of the pairs at I.                             *)
Joining(s, db, k, left, right, I, out) ==
    /\ Lists(s, db, k - 1, left, Partial(s, db, k - 1)) /\ Reads(s, db, k, right)
    /\ I \in SUBSET (DOMAIN Pairs(left, right))
    /\ out \in Seq(Range(out)) /\ Len(out) = Len(Sublist(Pairs(left, right), I))
    /\ \A x \in DOMAIN Pairs(left, right) : \A c :
          Extends(s, db, k, c) /\ Gives(s, db, k, c, Pairs(left, right)[x]) =>
              (x \in I <=> Linked(s, db, k, c))
    /\ \A y \in 1..Len(out) : \A c :
          Extends(s, db, k, c) /\ Linked(s, db, k, c)
            /\ Gives(s, db, k, c, Sublist(Pairs(left, right), I)[y]) => Shows(s, db, k, c, out[y])

LEMMA RangeFacts ==
    ASSUME NEW rows, rows \in Seq(Range(rows))
    PROVE  Len(rows) \in Nat /\ DOMAIN rows = 1..Len(rows)
BY SequenceFacts

LEMMA LongerLinks ==
    ASSUME NEW s, NEW db, NEW k \in Nat \ {0, 1}, NEW c
    PROVE  LinkedUpTo(s, db, k, c) <=> LinkedUpTo(s, db, k - 1, c) /\ Linked(s, db, k, c)
<1>1. \A i : i \in 2..k <=> i \in 2..(k - 1) \/ i = k
    OBVIOUS
<1> QED
    BY <1>1 DEF LinkedUpTo

(* The combination of a row of the left, f, and row r of source k.         *)
Extended(k, f, r) == [i \in 1..k |-> IF i = k THEN r ELSE f[i]]

LEMMA ExtendedFacts ==
    ASSUME NEW k \in Nat \ {0, 1}, NEW f, NEW r
    PROVE  /\ Extended(k, f, r)[k] = r /\ Agree(k - 1, f, Extended(k, f, r))
           /\ \A i \in 1..(k - 1) : Extended(k, f, r)[i] = f[i]
           /\ \A c \in [1..k -> Nat] : Agree(k - 1, c, f) /\ c[k] = r => c = Extended(k, f, r)
           /\ f \in [1..(k - 1) -> Nat] /\ r \in Nat => Extended(k, f, r) \in [1..k -> Nat]
<1> DEFINE e == Extended(k, f, r)
           K == 1..k
           P == 1..(k - 1)
<1>1. k \in K /\ \A i \in P : i \in K /\ i # k
    OBVIOUS
<1>2. \A i \in K : i \in P \/ i = k
    OBVIOUS
<1>3. e = [i \in K |-> IF i = k THEN r ELSE f[i]]
    BY DEF Extended
<1> HIDE DEF e, K, P
<1>4. e[k] = r /\ \A i \in P : e[i] = f[i]
    BY <1>1, <1>3
<1>5. ASSUME f \in [P -> Nat], r \in Nat PROVE e \in [K -> Nat]
    BY <1>1, <1>2, <1>3, <1>5
<1>6. ASSUME NEW c \in [K -> Nat], \A i \in P : c[i] = f[i], c[k] = r
      PROVE  c = e
    <2>1. \A i \in K : c[i] = e[i]
        BY <1>2, <1>4, <1>6
    <2>2. e = [i \in K |-> e[i]] /\ c = [i \in K |-> c[i]]
        BY <1>3
    <2> QED
        BY <2>1, <2>2
<1> QED
    BY <1>4, <1>5, <1>6 DEF e, K, P, Agree

LEMMA JoinLists ==
    ASSUME NEW s, Plain(s), NEW db, IsDatabase(db), NEW k \in 2..Width(s), NEW left, NEW right,
           NEW I, NEW out, Joining(s, db, k, left, right, I, out)
    PROVE  Lists(s, db, k, out, Partial(s, db, k))
<1> DEFINE h == k - 1
           P == Pairs(left, right)
           n == Cardinality(I)
           S == Sublist(P, I)
           C == Partial(s, db, h)
           A == Range(left)
           B == Range(right)
<1>1. /\ k \in Nat \ {0, 1} /\ h \in 1..Width(s) /\ k \in 1..Width(s) /\ h \in Nat
    BY WidthFacts
<1>2. PICK fl : ListedBy(s, db, h, left, C, fl)
    BY DEF Joining, Lists
<1>3. left \in Seq(A) /\ Enumerates(fl, Len(left), C) /\ \A x \in 1..Len(left) : Shows(s, db, h, fl[x], left[x])
    BY <1>2 DEF ListedBy
<1>4. /\ right \in Seq(B) /\ 1..Len(right) = DOMAIN db[TableAt(s, k)]
      /\ \A r \in 1..Len(right) : ReadAs(s, db, k, r, right[r])
    BY DEF Joining, Reads
<1> HIDE DEF h, P, n, S, C, A, B
<1>5. P \in Seq(A \X B) /\ \E e : PairsAre(left, right, e)
    BY <1>3, <1>4, PairsExist DEF P
<1>6. PICK e : PairsAre(left, right, e)
    BY <1>5
<1> DEFINE X == 1..Len(P)
           L == 1..Len(left)
           R == 1..Len(right)
           Y == 1..n
           Q == A \X B
           comb(x) == Extended(k, fl[e[x][1]], e[x][2])
<1>7. /\ Enumerates(e, Len(P), L \X R) /\ DOMAIN P = X
      /\ \A x \in X : P[x] = <<left[e[x][1]], right[e[x][2]]>>
    <2>1. DOMAIN P = X
        <3>1. P \in Seq(Q)
            BY <1>5
        <3> HIDE DEF Q
        <3> QED
            BY <3>1, SequenceFacts
    <2> QED
        BY <1>6, <2>1 DEF PairsAre, P
<1>8. /\ I \in SUBSET X /\ n \in Nat /\ Len(S) = n
      /\ \E g : Enumerates(g, n, I) /\ \A y \in Y : S[y] = P[g[y]]
    <2>1. I \in SUBSET (DOMAIN P)
        BY DEF Joining, P
    <2>2. P \in Seq(Q)
        BY <1>5
    <2> HIDE DEF Q, X
    <2>3. /\ n \in Nat /\ Len(S) = n
          /\ \E g : Enumerates(g, n, I) /\ \A y \in 1..n : S[y] = P[g[y]]
        BY <2>1, <2>2, SublistIs DEF n, S
    <2> QED
        BY <1>7, <2>1, <2>3
<1>9. PICK g : Enumerates(g, n, I) /\ \A y \in Y : S[y] = P[g[y]]
    BY <1>8
<1>10. out \in Seq(Range(out)) /\ Len(out) = n
    BY <1>8 DEF Joining, S, P
<1>11. \A x \in X : e[x] \in L \X R
    BY <1>7, EnumeratedFacts
<1>12. \A x \in X : e[x][1] \in L /\ e[x][2] \in R /\ e[x] = <<e[x][1], e[x][2]>>
    <2> HIDE DEF L, R, X
    <2> QED
        BY <1>11, PairFacts
<1> HIDE DEF X, L, R, Y, Q, comb
<1>13. \A l \in L : fl[l] \in C /\ Shows(s, db, h, fl[l], left[l])
    BY <1>3, EnumeratedFacts DEF L
<1>14. \A f \in C : f \in [1..h -> Nat] /\ InRange(s, db, h, f) /\ LinkedUpTo(s, db, h, f)
    BY DEF C, Partial
<1>15. \A r \in R : r \in Nat
    BY DEF R
<1>16. ASSUME NEW x \in X
       PROVE  /\ comb(x) \in [1..k -> Nat] /\ Extends(s, db, k, comb(x)) /\ Gives(s, db, k, comb(x), P[x])
    <2> DEFINE l == e[x][1]
               r == e[x][2]
               c == comb(x)
    <2>1. l \in L /\ r \in R /\ P[x] = <<left[l], right[r]>>
        BY <1>7, <1>12
    <2>2. c = Extended(k, fl[l], r)
        BY DEF comb
    <2> HIDE DEF l, r, c
    <2>3. fl[l] \in C /\ Shows(s, db, h, fl[l], left[l]) /\ r \in Nat
        BY <1>13, <1>15, <2>1
    <2>4. fl[l] \in [1..h -> Nat] /\ InRange(s, db, h, fl[l]) /\ LinkedUpTo(s, db, h, fl[l])
        BY <1>14, <2>3
    <2>5. /\ c \in [1..k -> Nat] /\ c[k] = r /\ Agree(h, fl[l], c) /\ \A i \in 1..h : c[i] = fl[l][i]
        BY <1>1, <2>2, <2>3, <2>4, ExtendedFacts DEF h
    <2>6. LinkedUpTo(s, db, h, c) /\ Shows(s, db, h, c, left[l])
        BY <1>1, <2>3, <2>4, <2>5, AgreeFacts
    <2>7. ReadAs(s, db, k, c[k], right[r]) /\ r \in DOMAIN db[TableAt(s, k)]
        BY <1>4, <2>1, <2>5 DEF R
    <2>8. InRange(s, db, k, c)
        <3>1. \A i \in 1..k : i \in 1..h \/ i = k
            BY <1>1 DEF h
        <3> QED
            BY <2>4, <2>5, <2>7, <3>1 DEF InRange
    <2>9. (<<left[l], right[r]>>)[1] = left[l] /\ (<<left[l], right[r]>>)[2] = right[r]
        OBVIOUS
    <2> QED
        BY <2>1, <2>5, <2>6, <2>7, <2>8, <2>9 DEF Extends, Gives, h, c
<1>17. \A x, y \in X : comb(x) = comb(y) => x = y
    <2> SUFFICES ASSUME NEW x \in X, NEW y \in X, comb(x) = comb(y) PROVE x = y
        OBVIOUS
    <2>1. /\ comb(x)[k] = e[x][2] /\ comb(y)[k] = e[y][2]
          /\ \A i \in 1..h : comb(x)[i] = fl[e[x][1]][i]
          /\ \A i \in 1..h : comb(y)[i] = fl[e[y][1]][i]
        BY <1>1, ExtendedFacts DEF comb, h
    <2>2. fl[e[x][1]] \in C /\ fl[e[y][1]] \in C /\ e[x][1] \in L /\ e[y][1] \in L
        BY <1>12, <1>13
    <2>3. fl[e[x][1]] \in [1..h -> Nat] /\ fl[e[y][1]] \in [1..h -> Nat]
        BY <1>14, <2>2
    <2>4. \A i \in 1..h : fl[e[x][1]][i] = fl[e[y][1]][i]
        BY <2>1
    <2> DEFINE H == 1..h
               a == fl[e[x][1]]
               b == fl[e[y][1]]
    <2>5. a \in [H -> Nat] /\ b \in [H -> Nat] /\ \A i \in H : a[i] = b[i]
        BY <2>3, <2>4
    <2> HIDE DEF H, a, b
    <2>6. a = b
        BY <2>5, FunctionsEqual
    <2>7. e[x][1] = e[y][1]
        BY <1>3, <2>2, <2>6, EnumeratedFacts DEF a, b, L
    <2>8. e[x] = e[y]
        BY <1>12, <2>1, <2>7
    <2> QED
        BY <1>7, <2>8, EnumeratedFacts DEF X
<1>18. ASSUME NEW d \in Partial(s, db, k) PROVE \E y \in Y : comb(g[y]) = d
    <2>1. d \in [1..k -> Nat] /\ InRange(s, db, k, d) /\ LinkedUpTo(s, db, k, d)
        BY DEF Partial
    <2> DEFINE p == [i \in 1..h |-> d[i]]
    <2>2. \A i \in 1..h : i \in 1..k
        BY <1>1 DEF h
    <2>3. p \in [1..h -> Nat] /\ Agree(h, d, p) /\ \A i \in 1..h : p[i] = d[i]
        BY <2>1, <2>2 DEF Agree
    <2> HIDE DEF p
    <2>4. LinkedUpTo(s, db, h, d) /\ Linked(s, db, k, d)
        BY <1>1, <2>1, LongerLinks DEF h
    <2>5. LinkedUpTo(s, db, h, p)
        BY <1>1, <2>3, <2>4, AgreeFacts
    <2>6. InRange(s, db, h, p)
        BY <2>1, <2>2, <2>3 DEF InRange
    <2>7. p \in C
        BY <2>3, <2>5, <2>6 DEF C, Partial
    <2>8. PICK l \in L : fl[l] = p
        BY <1>3, <2>7, EnumeratedFacts DEF L
    <2>9. d[k] \in R
        BY <1>1, <1>4, <2>1 DEF InRange, R
    <2> DEFINE W == L \X R
               q == <<l, d[k]>>
    <2>10. q \in W /\ Enumerates(e, Len(P), W) /\ q[1] = l /\ q[2] = d[k]
        BY <1>7, <2>9
    <2> HIDE DEF W, q
    <2>11. PICK x \in X : e[x] = q
        BY <2>10, EnumeratedFacts DEF X
    <2>12. e[x][1] = l /\ e[x][2] = d[k]
        BY <2>10, <2>11
    <2> DEFINE a == fl[e[x][1]]
               r == e[x][2]
    <2>16. Agree(k - 1, d, a) /\ d[k] = r /\ d \in [1..k -> Nat] /\ comb(x) = Extended(k, a, r)
        BY <2>1, <2>3, <2>8, <2>12 DEF comb, h
    <2> HIDE DEF a, r
    <2>13. comb(x) = d
        BY <1>1, <2>16, ExtendedFacts
    <2>14. x \in I
        BY <1>7, <1>16, <2>4, <2>13 DEF Joining, P
    <2>15. PICK y \in Y : g[y] = x
        BY <1>9, <2>14, EnumeratedFacts DEF Y
    <2> QED
        BY <2>13, <2>15
<1> DEFINE f == [y \in Y |-> comb(g[y])]
<1>19. \A y \in Y : g[y] \in I /\ g[y] \in X
    BY <1>8, <1>9, EnumeratedFacts DEF Y
<1>20. ASSUME NEW y \in Y
       PROVE  comb(g[y]) \in Partial(s, db, k) /\ Shows(s, db, k, comb(g[y]), out[y])
    <2> DEFINE c == comb(g[y])
    <2>1. /\ c \in [1..k -> Nat] /\ Extends(s, db, k, c) /\ Gives(s, db, k, c, P[g[y]])
        BY <1>16, <1>19
    <2> HIDE DEF c
    <2>2. Linked(s, db, k, c)
        BY <1>7, <1>19, <2>1 DEF Joining, P
    <2>3. c \in Partial(s, db, k)
        BY <1>1, <2>1, <2>2, LongerLinks DEF Partial, Extends
    <2>4. Gives(s, db, k, c, S[y]) /\ y \in 1..Len(out)
        BY <1>9, <1>10, <2>1 DEF Y
    <2>5. Shows(s, db, k, c, out[y])
        BY <2>1, <2>2, <2>4 DEF Joining, S, P
    <2> QED
        BY <2>3, <2>5 DEF c
<1>21. f \in [Y -> Partial(s, db, k)]
    BY <1>20
<1>22. \A y \in Y : f[y] = comb(g[y])
    OBVIOUS
<1> HIDE DEF f
<1>23. \A y, z \in Y : f[y] = f[z] => y = z
    <2>1. \A y, z \in Y : g[y] = g[z] => y = z
        BY <1>9, EnumeratedFacts DEF Y
    <2> QED
        BY <1>17, <1>19, <1>22, <2>1
<1>24. \A c \in Partial(s, db, k) : \E y \in Y : f[y] = c
    BY <1>18, <1>22
<1>25. Enumerates(f, n, Partial(s, db, k))
    BY <1>21, <1>23, <1>24 DEF Enumerates, Y
<1>26. \A y \in Y : Shows(s, db, k, f[y], out[y])
    BY <1>20, <1>22
<1> QED
    BY <1>10, <1>25, <1>26 DEF Lists, ListedBy, Y

-----------------------------------------------------------------------------
(* The three kinds of joins.                                               *)

LEMMA SameTypeComparison ==
    ASSUME NEW v \in Values, NEW w \in Values, Type(v) = Type(w), Type(v) \in ColumnTypes
    PROVE  /\ \A op : Compare(v, op, w) = Holds(op, Payload(v), Payload(w))
           /\ v = w <=> Payload(v) = Payload(w)
<1>1. v = w <=> Payload(v) = Payload(w)
    BY ValueFacts
<1>2. \A op : Compare(v, op, w) = Holds(op, Payload(v), Payload(w))
    <2> TAKE op
    <2>1. CASE Type(v) = "int"
        <3>1. Truncated(w) = Payload(w)
            <4>1. Payload(w) \in Int /\ Payload(w) % 2 = 0
                BY <2>1, ValueFacts
            <4> DEFINE p == Payload(w)
            <4>2. p - (p % 2) = p
                BY <4>1
            <4> QED
                BY <4>2 DEF Truncated
        <3> QED
            BY <2>1, <3>1 DEF Compare, IsNumber
    <2>2. CASE Type(v) = "float"
        BY <2>2 DEF Compare, IsNumber
    <2>3. CASE Type(v) = "string"
        BY <2>3 DEF Compare, IsNumber
    <2> QED
        BY <2>1, <2>2, <2>3 DEF ColumnTypes
<1> QED
    BY <1>1, <1>2

LEMMA CellFacts ==
    ASSUME NEW s, Plain(s), NEW db, IsDatabase(db), NEW c, NEW i \in 1..Width(s),
           c[i] \in DOMAIN db[TableAt(s, i)], NEW b \in ColumnsAt(s, i)
    PROVE  /\ Cell(s, db, c, i, b) \in Values /\ Type(Cell(s, db, c, i, b)) \in ColumnTypes
           /\ Type(Cell(s, db, c, i, b)) = Schemas[TableAt(s, i)].types[b]
<1> DEFINE t == TableAt(s, i)
           r == c[i]
<1>1. t \in Tables /\ b \in ColumnsOf(t) /\ r \in DOMAIN db[t]
    BY SourcesAre DEF ColumnsAt
<1> HIDE DEF t, r
<1>2. db[t] \in Seq(Rows(t))
    BY <1>1 DEF IsDatabase, IsTable
<1>3. db[t][r] \in Rows(t)
    BY <1>1, <1>2, SequenceFacts
<1>4. /\ db[t][r][Name(b)] \in Values
      /\ Type(db[t][r][Name(b)]) = Schemas[t].types[b]
      /\ Type(db[t][r][Name(b)]) \in ColumnTypes
    BY <1>1, <1>3, RowFacts
<1> QED
    BY <1>4 DEF Cell, t, r

LEMMA ReadFound ==
    ASSUME NEW s, Plain(s), NEW db, NEW k \in 1..Width(s), NEW r, NEW row, ReadAs(s, db, k, r, row),
           NEW n, n = <<Qualifier(n), Base(n)>>, Qualifier(n) \in {NoName, LabelAt(s, k)},
           Base(n) \in Kept(s, k)
    PROVE  /\ Found(row, n) # {} /\ ValueOf(row, n) = db[TableAt(s, k)][r][Name(Base(n))]
           /\ \A x \in Found(row, n) : row.columns[x] = db[TableAt(s, k)][r][Name(Base(n))]
<1> DEFINE b == Base(n)
           a == AliasAt(s, k)
           f == row.columns
           v == db[TableAt(s, k)][r][Name(b)]
<1>1. /\ \A x \in DOMAIN f : \E d \in Kept(s, k) : x = <<a, d>>
      /\ \A d \in Kept(s, k) : <<a, d>> \in DOMAIN f /\ f[<<a, d>>] = db[TableAt(s, k)][r][Name(d)]
    BY DEF ReadAs
<1>2. a = NoName \/ a = LabelAt(s, k)
    BY SourcesAre
<1>3. n = <<Qualifier(n), b>> /\ b \in Kept(s, k)
    OBVIOUS
<1> HIDE DEF b, a, f, v
<1>4. <<a, b>> \in DOMAIN f /\ f[<<a, b>>] = v
    BY <1>1, <1>3 DEF v
<1>5. \A x \in DOMAIN f : Base(x) = b => x = <<a, b>>
    BY <1>1, PairNames
<1>6. CASE n \in DOMAIN f
    <2>1. Found(row, n) = {n} /\ n = <<a, b>>
        BY <1>5, <1>6 DEF Found, f, b
    <2> QED
        BY <1>4, <2>1, OneFound DEF f, v, b
<1>7. CASE n \notin DOMAIN f /\ Qualifier(n) = NoName
    <2>1. Found(row, n) = {x \in DOMAIN f : Base(x) = b}
        BY <1>7 DEF Found, f, b
    <2>2. Found(row, n) = {<<a, b>>}
        BY <1>4, <1>5, <2>1, PairNames
    <2> QED
        BY <1>4, <2>2, OneFound DEF f, v, b
<1>8. CASE n \notin DOMAIN f /\ Qualifier(n) # NoName
    <2>1. Found(row, n) = {Name(b)} \cap DOMAIN f
        BY <1>8 DEF Found, f, b
    <2>2. a = NoName
        BY <1>2, <1>3, <1>4, <1>8
    <2>3. Name(b) = <<a, b>>
        BY <2>2, PairNames
    <2>4. Found(row, n) = {<<a, b>>}
        BY <1>4, <2>1, <2>3
    <2> QED
        BY <1>4, <2>4, OneFound DEF f, v, b
<1> QED
    BY <1>6, <1>7, <1>8

(* A row of the left and a row of source k that make a combination.        *)
Meeting(s, db, k, c, l, r) ==
    Extends(s, db, k, c) /\ Shows(s, db, k - 1, c, l) /\ ReadAs(s, db, k, c[k], r)

OnClause(s, k) == Len(s.from) = 1 /\ ~s.joins[k - 1].natural

OnMatches(s, k, l, r) ==
    /\ Found(l, s.joins[k - 1].left) # {} /\ Found(r, s.joins[k - 1].right) # {}
    /\ Compare(ValueOf(l, s.joins[k - 1].left), "=", ValueOf(r, s.joins[k - 1].right))

OnRow(l, r) == [table |-> l.table, columns |-> Over(r.columns, l.columns)]

LEMMA OnHeads ==
    ASSUME NEW s, Plain(s), NEW k \in 2..Width(s), OnClause(s, k)
    PROVE  /\ \A i \in 1..(k - 1) : \A b : HeadName(s, k, i, b) = HeadName(s, k - 1, i, b)
           /\ \A b : HeadName(s, k, k, b) = <<AliasAt(s, k), b>>
           /\ \A i \in 1..(k - 1) : \A b \in Kept(s, i), d \in Kept(s, k) :
                 HeadName(s, k, i, b) # <<AliasAt(s, k), d>>
<1>0. Width(s) \in Nat
    BY WidthFacts
<1>1. /\ k # 1 /\ k \in 1..Width(s) /\ 2 <= Width(s) /\ \A i \in 1..(k - 1) : i \in 1..Width(s) /\ i # k
      /\ k - 1 = 1 => k = 2 /\ \A i \in 1..(k - 1) : i = 1
    BY <1>0
<1>2. Len(s.from) = 1 /\ ~InNatural(s, k)
    BY NaturalFacts DEF OnClause
<1>3. \A b : HeadName(s, k, k, b) = <<AliasAt(s, k), b>>
    BY <1>1, <1>2 DEF HeadName, Heading, AliasAt
<1>4. \A i \in 1..(k - 1) : \A b : HeadName(s, k, i, b) = HeadName(s, k - 1, i, b)
    <2>1. CASE k - 1 = 1
        <3>1. ~InNatural(s, 1)
            BY <1>1, <1>2, <2>1, NaturalFacts DEF OnClause
        <3>2. \A b : Heading(s, 1, b) = <<AliasAt(s, 1), b>>
            BY <1>2, <3>1 DEF Heading, AliasAt
        <3> QED
            BY <1>1, <2>1, <3>2 DEF HeadName
    <2>2. CASE k - 1 # 1
        BY <1>1, <2>2 DEF HeadName
    <2> QED
        BY <2>1, <2>2
<1>5. ASSUME NEW i \in 1..(k - 1), NEW b \in Kept(s, i), NEW d \in Kept(s, k),
             HeadName(s, k, i, b) = <<AliasAt(s, k), d>>
      PROVE  FALSE
    <2>1. /\ b = d /\ Qualifier(HeadName(s, k, i, b)) = AliasAt(s, k)
          /\ AliasAt(s, k) \in {NoName, LabelAt(s, i)}
        BY <1>1, <1>5, HeadNameFacts, PairNames
    <2>2. b \in ColumnsAt(s, i) /\ b \in ColumnsAt(s, k)
        BY <2>1 DEF Kept
    <2>3. Shared(s) # {}
        BY <1>1, <2>2, SharedIs
    <2>4. k - 1 \in DOMAIN s.joins
        <3>1. \A h \in 2..Width(s) : h - 1 \in DOMAIN s.joins
            <4>1. ~(Len(s.from) > 1)
                BY <1>2
            <4> QED
                BY <4>1, JoinFacts, Zenon
        <3> QED
            BY <3>1
    <2>5. \A j \in DOMAIN Sources(s) : Sources(s)[j].alias # NoName
        BY <2>3, <2>4, PlainFacts DEF NamesApart, OnClause
    <2>6. AliasAt(s, k) # NoName
        BY <1>1, <2>5, SelectFacts DEF AliasAt
    <2> QED
        BY <1>1, <2>1, <2>6, SourcesAre
<1> QED
    BY <1>3, <1>4, <1>5

LEMMA OnIsLinked ==
    ASSUME NEW s, Plain(s), NEW db, IsDatabase(db), NEW k \in 2..Width(s), OnClause(s, k),
           NEW c, NEW l, NEW r, Meeting(s, db, k, c, l, r)
    PROVE  OnMatches(s, k, l, r) <=> Linked(s, db, k, c)
<1> DEFINE n == s.joins[k - 1].left
           m == s.joins[k - 1].right
           i == SourceOf(s, n)
           x == Cell(s, db, c, i, Base(n))
           y == Cell(s, db, c, k, Base(m))
<1>0. Width(s) \in Nat
    BY WidthFacts
<1>1. k \in 1..Width(s) /\ k - 1 \in 1..Width(s) /\ k > 1 /\ \A j \in 1..(k - 1) : j \in 1..k /\ j \in 1..Width(s)
    BY <1>0
<1>2. /\ n \in Used(s) /\ m \in Used(s) /\ i \in 1..(k - 1) /\ SourceOf(s, m) = k
      /\ Qualifier(m) = LabelAt(s, k) /\ TypeOf(s, n) = TypeOf(s, m)
    BY OnSources DEF OnClause
<1>3. Linked(s, db, k, c) <=> x = y
    BY <1>1, <1>2 DEF Linked, OnClause, ValueIn, Cell, TableAt
<1> HIDE DEF n, m, i, x, y
<1>4. /\ OfSource(s, n, k - 1, i) /\ Base(n) \in ColumnsAt(s, i)
      /\ OfSource(s, m, k, k) /\ Base(m) \in ColumnsAt(s, k)
    BY <1>1, <1>2, UsedAreOf DEF i
<1>5. /\ LinkedUpTo(s, db, k - 1, c) /\ Shows(s, db, k - 1, c, l) /\ ReadAs(s, db, k, c[k], r)
      /\ InRange(s, db, k, c)
    BY DEF Meeting, Extends
<1>6. Found(l, n) # {} /\ ValueOf(l, n) = x
    BY <1>1, <1>4, <1>5, FoundIs DEF x
<1>7. m = <<Qualifier(m), Base(m)>> /\ Base(m) \in Kept(s, k)
    BY <1>4 DEF OfSource
<1>8. Found(r, m) # {} /\ ValueOf(r, m) = y
    BY <1>1, <1>2, <1>5, <1>7, ReadFound DEF y, Cell
<1>9. c[i] \in DOMAIN db[TableAt(s, i)] /\ c[k] \in DOMAIN db[TableAt(s, k)]
    BY <1>1, <1>2, <1>5 DEF InRange
<1>10. /\ x \in Values /\ Type(x) \in ColumnTypes /\ Type(x) = TypeOf(s, n)
       /\ y \in Values /\ Type(y) = TypeOf(s, m)
    BY <1>1, <1>2, <1>4, <1>9, CellFacts DEF x, y, TypeOf, i, TableAt
<1>11. Compare(x, "=", y) <=> x = y
    <2>1. Compare(x, "=", y) = Holds("=", Payload(x), Payload(y)) /\ (x = y <=> Payload(x) = Payload(y))
        BY <1>2, <1>10, SameTypeComparison
    <2>2. Holds("=", Payload(x), Payload(y)) = (Payload(x) = Payload(y))
        BY DEF Holds
    <2> QED
        BY <2>1, <2>2
<1> QED
    BY <1>3, <1>6, <1>8, <1>11 DEF OnMatches, n, m

LEMMA OnShows ==
    ASSUME NEW s, Plain(s), NEW db, NEW k \in 2..Width(s), OnClause(s, k),
           NEW c, NEW l, NEW r, Meeting(s, db, k, c, l, r)
    PROVE  Shows(s, db, k, c, OnRow(l, r))
<1> DEFINE f == l.columns
           g == r.columns
           both == Over(g, f)
           row == OnRow(l, r)
<1>0. Width(s) \in Nat
    BY WidthFacts
<1>1. k \in 1..k /\ \A i \in 1..k : i \in 1..(k - 1) \/ i = k
    BY <1>0
<1>2. \A i \in 1..(k - 1) : i \in 1..k
    BY <1>0
<1>3. /\ l.table = TableAt(s, 1)
      /\ \A n \in DOMAIN f : \E i \in 1..(k - 1) : \E b \in Kept(s, i) : n = HeadName(s, k - 1, i, b)
      /\ \A i \in 1..(k - 1) : \A b \in Kept(s, i) :
            /\ HeadName(s, k - 1, i, b) \in DOMAIN f
            /\ f[HeadName(s, k - 1, i, b)] = Cell(s, db, c, i, b)
    <2>1. Shows(s, db, k - 1, c, l)
        BY DEF Meeting
    <2>2. l = [table |-> TableAt(s, 1), columns |-> l.columns]
        BY <2>1 DEF Shows
    <2>3. l.table = TableAt(s, 1)
        BY <2>2
    <2> QED
        BY <2>1, <2>3 DEF Shows
<1>4. /\ \A n \in DOMAIN g : \E b \in Kept(s, k) : n = <<AliasAt(s, k), b>>
      /\ \A b \in Kept(s, k) :
            <<AliasAt(s, k), b>> \in DOMAIN g /\ g[<<AliasAt(s, k), b>>] = Cell(s, db, c, k, b)
    BY DEF Meeting, ReadAs, Cell
<1>5. /\ \A i \in 1..(k - 1) : \A b : HeadName(s, k, i, b) = HeadName(s, k - 1, i, b)
      /\ \A b : HeadName(s, k, k, b) = <<AliasAt(s, k), b>>
      /\ \A i \in 1..(k - 1) : \A b \in Kept(s, i), d \in Kept(s, k) :
            HeadName(s, k, i, b) # <<AliasAt(s, k), d>>
    BY OnHeads
<1>6. /\ DOMAIN both = DOMAIN f \cup DOMAIN g
      /\ \A n \in DOMAIN g : both[n] = g[n]
      /\ \A n \in DOMAIN f : n \notin DOMAIN g => both[n] = f[n]
    BY DEF Over
<1>7. row.columns = both /\ row = [table |-> TableAt(s, 1), columns |-> row.columns]
    BY <1>3 DEF OnRow
<1> HIDE DEF f, g, both, row
<1>8. \A n \in DOMAIN both : \E i \in 1..k : \E b \in Kept(s, i) : n = HeadName(s, k, i, b)
    BY <1>1, <1>2, <1>3, <1>4, <1>5, <1>6
<1>9. ASSUME NEW i \in 1..(k - 1), NEW b \in Kept(s, i)
      PROVE  /\ HeadName(s, k, i, b) \in DOMAIN both
             /\ both[HeadName(s, k, i, b)] = Cell(s, db, c, i, b)
    <2>1. /\ HeadName(s, k, i, b) \in DOMAIN f
          /\ f[HeadName(s, k, i, b)] = Cell(s, db, c, i, b)
        BY <1>3, <1>5
    <2>2. HeadName(s, k, i, b) \notin DOMAIN g
        BY <1>4, <1>5
    <2> QED
        BY <1>6, <2>1, <2>2
<1>10. ASSUME NEW b \in Kept(s, k)
       PROVE  /\ HeadName(s, k, k, b) \in DOMAIN both
              /\ both[HeadName(s, k, k, b)] = Cell(s, db, c, k, b)
    BY <1>4, <1>5, <1>6
<1>11. \A i \in 1..k : \A b \in Kept(s, i) :
          /\ HeadName(s, k, i, b) \in DOMAIN both
          /\ both[HeadName(s, k, i, b)] = Cell(s, db, c, i, b)
    BY <1>1, <1>9, <1>10
<1> QED
    BY <1>7, <1>8, <1>11 DEF Shows, row

LEMMA RowsOfPairs ==
    ASSUME NEW left, NEW right, left \in Seq(Range(left)), right \in Seq(Range(right)),
           NEW I \in SUBSET (DOMAIN Pairs(left, right)), NEW S, S = Sublist(Pairs(left, right), I),
           NEW out, DOMAIN out = DOMAIN S, out = [i \in DOMAIN out |-> out[i]]
    PROVE  /\ out \in Seq(Range(out)) /\ Len(out) = Len(S) /\ DOMAIN S = 1..Len(S)
<1> DEFINE A == Range(left)
           B == Range(right)
           Q == A \X B
           P == Pairs(left, right)
<1>0. left \in Seq(A) /\ right \in Seq(B)
    OBVIOUS
<1> HIDE DEF A, B
<1>1. P \in Seq(Q)
    BY <1>0, PairsExist
<1> HIDE DEF Q, P
<1>2. S \in Seq(Q)
    BY <1>1, SublistIs DEF P
<1>3. Len(S) \in Nat /\ DOMAIN S = 1..Len(S)
    BY <1>2, SequenceFacts
<1> DEFINE n == Len(S)
           R == Range(out)
<1>4. out \in [1..n -> R]
    BY <1>3 DEF Range
<1> HIDE DEF n, R
<1>5. out \in Seq(R) /\ Len(out) = n
    BY <1>3, <1>4, FunctionIsSequence DEF n
<1> QED
    BY <1>3, <1>5 DEF n, R

(* Matches and Merged, as sets: what pairs a join takes, and what it makes *)
(* of them.                                                                *)
Combines(s, db, k, left, right, I, out) ==
    /\ I \in SUBSET (DOMAIN Pairs(left, right))
    /\ DOMAIN out = DOMAIN Sublist(Pairs(left, right), I) /\ out = [i \in DOMAIN out |-> out[i]]
    /\ \A x \in DOMAIN Pairs(left, right) : \A c :
          Meeting(s, db, k, c, Pairs(left, right)[x][1], Pairs(left, right)[x][2]) =>
              (x \in I <=> Linked(s, db, k, c))
    /\ \A y \in DOMAIN out : \A c :
          Linked(s, db, k, c) /\ Meeting(s, db, k, c, Sublist(Pairs(left, right), I)[y][1],
                                                      Sublist(Pairs(left, right), I)[y][2]) =>
              Shows(s, db, k, c, out[y])

LEMMA CombinesLists ==
    ASSUME NEW s, Plain(s), NEW db, IsDatabase(db), NEW k \in 2..Width(s), NEW left, NEW right,
           Lists(s, db, k - 1, left, Partial(s, db, k - 1)), Reads(s, db, k, right),
           NEW I, NEW out, Combines(s, db, k, left, right, I, out)
    PROVE  Lists(s, db, k, out, Partial(s, db, k))
<1> DEFINE P == Pairs(left, right)
           S == Sublist(P, I)
<1>1. left \in Seq(Range(left)) /\ right \in Seq(Range(right))
    BY DEF Lists, ListedBy, Reads
<1>2. /\ I \in SUBSET (DOMAIN P) /\ DOMAIN out = DOMAIN S /\ out = [i \in DOMAIN out |-> out[i]]
      /\ \A x \in DOMAIN P : \A c :
            Meeting(s, db, k, c, P[x][1], P[x][2]) => (x \in I <=> Linked(s, db, k, c))
      /\ \A y \in DOMAIN out : \A c :
            Linked(s, db, k, c) /\ Meeting(s, db, k, c, S[y][1], S[y][2]) => Shows(s, db, k, c, out[y])
    BY DEF Combines
<1>3. out \in Seq(Range(out)) /\ Len(out) = Len(S) /\ DOMAIN out = 1..Len(out)
    BY <1>1, <1>2, RowsOfPairs
<1>4. Joining(s, db, k, left, right, I, out)
    BY <1>2, <1>3 DEF Joining, Gives, Meeting
<1> QED
    BY <1>4, JoinLists

LEMMA JoinOnLists ==
    ASSUME NEW s, Plain(s), NEW db, IsDatabase(db), NEW k \in 2..Width(s), OnClause(s, k),
           NEW left, NEW right,
           Lists(s, db, k - 1, left, Partial(s, db, k - 1)), Reads(s, db, k, right)
    PROVE  Lists(s, db, k, JoinOn(left, right, s.joins[k - 1].left, s.joins[k - 1].right),
                 Partial(s, db, k))
<1> DEFINE P == Pairs(left, right)
           I == {i \in DOMAIN P : OnMatches(s, k, P[i][1], P[i][2])}
           S == Sublist(P, I)
           out == JoinOn(left, right, s.joins[k - 1].left, s.joins[k - 1].right)
<1>1. out = [i \in DOMAIN S |-> OnRow(S[i][1], S[i][2])]
    BY DEF JoinOn, JoinRows, OnRow, OnMatches
<1>2. I \in SUBSET (DOMAIN P) /\ \A x \in DOMAIN P : x \in I <=> OnMatches(s, k, P[x][1], P[x][2])
    OBVIOUS
<1> HIDE DEF P, I, S, out
<1>3. \A x \in DOMAIN P : \A c :
          Meeting(s, db, k, c, P[x][1], P[x][2]) => (x \in I <=> Linked(s, db, k, c))
    BY <1>2, OnIsLinked
<1>4. DOMAIN out = DOMAIN S /\ out = [i \in DOMAIN out |-> out[i]]
    BY <1>1
<1>5. \A y \in DOMAIN out : \A c :
          Meeting(s, db, k, c, S[y][1], S[y][2]) => Shows(s, db, k, c, out[y])
    BY <1>1, <1>4, OnShows
<1>6. Combines(s, db, k, left, right, I, out)
    BY <1>2, <1>3, <1>4, <1>5 DEF Combines, P, S
<1>7. Lists(s, db, k, out, Partial(s, db, k))
    BY <1>6, CombinesLists
<1> QED
    BY <1>7 DEF out

(* Without joins, every column gets the label of its source.               *)
FullName(row, x) == IF Qualifier(x) = NoName THEN <<row.table, Base(x)>> ELSE x

Full(row) ==
    [n \in {FullName(row, x) : x \in DOMAIN row.columns} |->
        row.columns[IF n \in DOMAIN row.columns THEN n ELSE Name(Base(n))]]

FullRow(l, r) == [table |-> l.table, columns |-> Over(Full(r), Full(l))]

(* A column of a source is called by its label or, if that is not the      *)
(* alias, without qualifier.                                               *)
Called(row, q, a, b) ==
    /\ a \in {NoName, q} /\ (a = NoName => row.table = q) /\ q # NoName
    /\ <<a, b>> \in DOMAIN row.columns

CalledInFull(row, q, a, b) ==
    /\ FullName(row, <<a, b>>) = <<q, b>> /\ <<q, b>> \in DOMAIN Full(row)
    /\ <<q, b>> \in DOMAIN row.columns \/ Full(row)[<<q, b>>] = row.columns[<<a, b>>]
    /\ <<q, b>> \in DOMAIN row.columns => Full(row)[<<q, b>>] = row.columns[<<q, b>>]

LEMMA FullOne ==
    ASSUME NEW row, NEW q, NEW a, NEW b, Called(row, q, a, b)
    PROVE  CalledInFull(row, q, a, b)
<1> DEFINE x == <<a, b>>
           y == <<q, b>>
           f == row.columns
           D == {FullName(row, z) : z \in DOMAIN f}
<1>0. a \in {NoName, q} /\ (a = NoName => row.table = q) /\ q # NoName /\ x \in DOMAIN f
    BY DEF Called
<1>1. Qualifier(x) = a /\ Base(x) = b /\ Base(y) = b /\ x \in DOMAIN f
    BY <1>0, PairNames
<1>2. a # NoName => x = y
    BY <1>0
<1>3. a = NoName => Name(Base(y)) = x
    BY <1>1, PairNames
<1>4. FullName(row, x) = y
    <2>1. a = NoName => <<row.table, Base(x)>> = y
        BY <1>0, <1>1
    <2> HIDE DEF x, y
    <2> QED
        BY <1>1, <1>2, <2>1 DEF FullName
<1>5. Full(row) = [n \in D |-> f[IF n \in DOMAIN f THEN n ELSE Name(Base(n))]]
    BY DEF Full
<1> HIDE DEF x, y, f
<1>6. y \in D
    BY <1>1, <1>4
<1> HIDE DEF D
<1>7. y \in DOMAIN Full(row) /\ Full(row)[y] = f[IF y \in DOMAIN f THEN y ELSE Name(Base(y))]
    BY <1>5, <1>6
<1>8. y \notin DOMAIN f => Full(row)[y] = f[x]
    BY <1>1, <1>2, <1>3, <1>7
<1>9. y \in DOMAIN f => Full(row)[y] = f[y]
    BY <1>7
<1> QED
    BY <1>4, <1>7, <1>8, <1>9 DEF x, y, f, CalledInFull

FullAsRead(s, db, k, r, f) ==
    /\ \A n \in DOMAIN f : \E b \in Kept(s, k) : n = <<LabelAt(s, k), b>>
    /\ \A b \in Kept(s, k) :
          /\ <<LabelAt(s, k), b>> \in DOMAIN f
          /\ f[<<LabelAt(s, k), b>>] = db[TableAt(s, k)][r][Name(b)]

FullAsShown(s, db, k, c, f) ==
    /\ \A n \in DOMAIN f : \E i \in 1..k : \E b \in Kept(s, i) : n = <<LabelAt(s, i), b>>
    /\ \A i \in 1..k : \A b \in Kept(s, i) :
          <<LabelAt(s, i), b>> \in DOMAIN f /\ f[<<LabelAt(s, i), b>>] = Cell(s, db, c, i, b)

LEMMA FullRead ==
    ASSUME NEW s, Plain(s), NEW db, NEW k \in 1..Width(s), NEW r, NEW row, ReadAs(s, db, k, r, row)
    PROVE  FullAsRead(s, db, k, r, Full(row))
<1> DEFINE a == AliasAt(s, k)
           q == LabelAt(s, k)
           f == row.columns
<1>1. a \in {NoName, q} /\ (a = NoName => row.table = q) /\ q # NoName
    BY SourcesAre DEF ReadAs
<1>2. /\ \A x \in DOMAIN f : \E d \in Kept(s, k) : x = <<a, d>>
      /\ \A d \in Kept(s, k) : <<a, d>> \in DOMAIN f /\ f[<<a, d>>] = db[TableAt(s, k)][r][Name(d)]
    BY DEF ReadAs
<1> HIDE DEF a, q, f
<1>3. ASSUME NEW n \in DOMAIN Full(row) PROVE \E b \in Kept(s, k) : n = <<q, b>>
    <2>1. PICK x \in DOMAIN f : n = FullName(row, x)
        BY DEF Full, f
    <2>2. PICK d \in Kept(s, k) : x = <<a, d>>
        BY <1>2
    <2>0. Called(row, q, a, d)
        BY <1>1, <1>2 DEF f, Called
    <2>5. CalledInFull(row, q, a, d)
        BY <2>0, FullOne
    <2>3. FullName(row, <<a, d>>) = <<q, d>>
        BY <2>5 DEF CalledInFull
    <2>4. n = <<q, d>>
        BY <2>1, <2>2, <2>3
    <2> QED
        BY <2>4
<1>4. ASSUME NEW b \in Kept(s, k)
      PROVE  <<q, b>> \in DOMAIN Full(row) /\ Full(row)[<<q, b>>] = db[TableAt(s, k)][r][Name(b)]
    <2>1. <<a, b>> \in DOMAIN f /\ f[<<a, b>>] = db[TableAt(s, k)][r][Name(b)]
        BY <1>2
    <2>2. <<q, b>> \in DOMAIN f => f[<<q, b>>] = f[<<a, b>>]
        BY <1>2, PairNames
    <2>3. /\ <<q, b>> \in DOMAIN Full(row)
          /\ <<q, b>> \in DOMAIN f \/ Full(row)[<<q, b>>] = f[<<a, b>>]
          /\ <<q, b>> \in DOMAIN f => Full(row)[<<q, b>>] = f[<<q, b>>]
        <3>1. Called(row, q, a, b)
            BY <1>1, <2>1 DEF f, Called
        <3>2. CalledInFull(row, q, a, b)
            BY <3>1, FullOne
        <3> QED
            BY <3>2 DEF f, CalledInFull
    <2> QED
        BY <2>1, <2>2, <2>3
<1> QED
    BY <1>3, <1>4 DEF q, FullAsRead

LEMMA CrossHeads ==
    ASSUME NEW s, Plain(s), Len(s.from) > 1, NEW k \in 1..Width(s), NEW i \in 1..k, NEW b
    PROVE  /\ k # 1 => HeadName(s, k, i, b) = <<LabelAt(s, i), b>>
           /\ Qualifier(HeadName(s, k, i, b)) = NoName => i = 1 /\ LabelAt(s, i) = TableAt(s, 1)
<1>1. ~InNatural(s, i)
    <2>1. Len(s.from) # 1
        <3>1. ~(1 > 1)
            OBVIOUS
        <3> QED
            BY <3>1, Zenon
    <2> QED
        BY <2>1, WidthFacts, NaturalFacts
<1>2. k # 1 => HeadName(s, k, i, b) = <<LabelAt(s, i), b>>
    BY <1>1 DEF HeadName, Heading, LabelAt
<1>3. k = 1 => i = 1 /\ HeadName(s, k, i, b) = <<AliasAt(s, 1), b>>
    BY DEF HeadName
<1>4. i \in 1..Width(s) /\ 1 \in 1..Width(s)
    BY WidthFacts
<1> QED
    BY <1>2, <1>3, <1>4, SourcesAre, PairNames

LEMMA FullLeft ==
    ASSUME NEW s, Plain(s), Len(s.from) > 1, NEW db, NEW k \in 1..Width(s), NEW c,
           NEW row, Shows(s, db, k, c, row)
    PROVE  FullAsShown(s, db, k, c, Full(row))
<1> DEFINE f == row.columns
           head(i, b) == HeadName(s, k, i, b)
           a(i, b) == Qualifier(head(i, b))
           q(i) == LabelAt(s, i)
<1>1. /\ row = [table |-> TableAt(s, 1), columns |-> f]
      /\ \A n \in DOMAIN f : \E i \in 1..k : \E b \in Kept(s, i) : n = head(i, b)
      /\ \A i \in 1..k : \A b \in Kept(s, i) : head(i, b) \in DOMAIN f /\ f[head(i, b)] = Cell(s, db, c, i, b)
    BY DEF Shows
<1>2. \A i \in 1..k : \A b : /\ head(i, b) = <<a(i, b), b>> /\ a(i, b) \in {NoName, q(i)}
                             /\ a(i, b) = NoName => row.table = q(i)
    <2> TAKE i \in 1..k
    <2> TAKE b
    <2>1. i \in 1..Width(s)
        BY WidthFacts
    <2>2. head(i, b) = <<a(i, b), b>> /\ a(i, b) \in {NoName, q(i)}
        BY <2>1, HeadNameFacts
    <2>3. a(i, b) = NoName => q(i) = TableAt(s, 1)
        BY CrossHeads
    <2>4. row.table = TableAt(s, 1)
        BY <1>1
    <2> QED
        BY <2>2, <2>3, <2>4
<1>3. \A i, j \in 1..k : q(i) # NoName /\ (q(i) = q(j) => i = j)
    <2>1. \A i \in 1..k : i \in 1..Width(s)
        BY WidthFacts
    <2> QED
        BY <2>1, SourcesAre
<1> HIDE DEF f, head, a, q
<1>4. ASSUME NEW n \in DOMAIN Full(row) PROVE \E i \in 1..k : \E b \in Kept(s, i) : n = <<q(i), b>>
    <2>1. PICK x \in DOMAIN f : n = FullName(row, x)
        BY DEF Full, f
    <2>2. PICK i \in 1..k : \E b \in Kept(s, i) : x = head(i, b)
        BY <1>1
    <2>3. PICK b \in Kept(s, i) : x = head(i, b)
        BY <2>2
    <2>4. <<a(i, b), b>> \in DOMAIN f /\ x = <<a(i, b), b>>
        BY <1>1, <1>2, <2>3
    <2>5. a(i, b) \in {NoName, q(i)} /\ (a(i, b) = NoName => row.table = q(i)) /\ q(i) # NoName
        BY <1>2, <1>3
    <2>8. Called(row, q(i), a(i, b), b)
        BY <2>4, <2>5 DEF f, Called
    <2>9. CalledInFull(row, q(i), a(i, b), b)
        BY <2>8, FullOne
    <2>6. FullName(row, <<a(i, b), b>>) = <<q(i), b>>
        BY <2>9 DEF CalledInFull
    <2>7. n = <<q(i), b>>
        BY <2>1, <2>4, <2>6
    <2> QED
        BY <2>7
<1>5. ASSUME NEW i \in 1..k, NEW b \in Kept(s, i)
      PROVE  <<q(i), b>> \in DOMAIN Full(row) /\ Full(row)[<<q(i), b>>] = Cell(s, db, c, i, b)
    <2>1. <<a(i, b), b>> \in DOMAIN f /\ f[<<a(i, b), b>>] = Cell(s, db, c, i, b)
        BY <1>1, <1>2
    <2>2. ASSUME <<q(i), b>> \in DOMAIN f PROVE f[<<q(i), b>>] = Cell(s, db, c, i, b)
        <3>1. PICK j \in 1..k : \E d \in Kept(s, j) : <<q(i), b>> = head(j, d)
            BY <1>1, <2>2
        <3>2. PICK d \in Kept(s, j) : <<q(i), b>> = head(j, d)
            BY <3>1
        <3>3. b = d /\ q(i) = a(j, d)
            BY <1>2, <3>2, PairNames
        <3>4. i = j
            BY <1>2, <1>3, <3>3
        <3> QED
            BY <1>1, <3>2, <3>3, <3>4
    <2>3. /\ <<q(i), b>> \in DOMAIN Full(row)
          /\ <<q(i), b>> \in DOMAIN f \/ Full(row)[<<q(i), b>>] = f[<<a(i, b), b>>]
          /\ <<q(i), b>> \in DOMAIN f => Full(row)[<<q(i), b>>] = f[<<q(i), b>>]
        <3>1. Called(row, q(i), a(i, b), b)
            BY <1>2, <1>3, <2>1 DEF f, Called
        <3>2. CalledInFull(row, q(i), a(i, b), b)
            BY <3>1, FullOne
        <3> QED
            BY <3>2 DEF f, CalledInFull
    <2> QED
        BY <2>1, <2>2, <2>3
<1> QED
    BY <1>4, <1>5 DEF q, FullAsShown

LEMMA CrossShows ==
    ASSUME NEW s, Plain(s), Len(s.from) > 1, NEW db, NEW k \in 2..Width(s),
           NEW c, NEW l, NEW r, Meeting(s, db, k, c, l, r)
    PROVE  Shows(s, db, k, c, FullRow(l, r))
<1> DEFINE f == Full(l)
           g == Full(r)
           both == Over(g, f)
           row == FullRow(l, r)
<1>0. Width(s) \in Nat
    BY WidthFacts
<1>1. /\ k \in 1..k /\ k # 1 /\ k \in 1..Width(s) /\ k - 1 \in 1..Width(s)
      /\ \A i \in 1..k : i \in 1..(k - 1) \/ i = k
      /\ \A i \in 1..(k - 1) : i \in 1..k /\ i # k
      /\ \A i \in 1..k : i \in 1..Width(s)
    BY <1>0
<1>2. Shows(s, db, k - 1, c, l) /\ ReadAs(s, db, k, c[k], r)
    BY DEF Meeting
<1>3. /\ \A n \in DOMAIN f : \E i \in 1..(k - 1) : \E b \in Kept(s, i) : n = <<LabelAt(s, i), b>>
      /\ \A i \in 1..(k - 1) : \A b \in Kept(s, i) :
            <<LabelAt(s, i), b>> \in DOMAIN f /\ f[<<LabelAt(s, i), b>>] = Cell(s, db, c, i, b)
    <2> DEFINE h == k - 1
    <2>1. h \in 1..Width(s)
        BY <1>1
    <2>2. Shows(s, db, h, c, l)
        BY <1>2
    <2> HIDE DEF h, f
    <2>3. FullAsShown(s, db, h, c, Full(l))
        BY <2>1, <2>2, FullLeft
    <2> QED
        BY <2>3 DEF h, f, FullAsShown
<1>4. /\ \A n \in DOMAIN g : \E b \in Kept(s, k) : n = <<LabelAt(s, k), b>>
      /\ \A b \in Kept(s, k) :
            <<LabelAt(s, k), b>> \in DOMAIN g /\ g[<<LabelAt(s, k), b>>] = Cell(s, db, c, k, b)
    <2>1. k \in 1..Width(s)
        BY <1>1
    <2>2. ReadAs(s, db, k, c[k], r)
        BY <1>2
    <2> HIDE DEF g
    <2>3. FullAsRead(s, db, k, c[k], Full(r))
        BY <2>1, <2>2, FullRead
    <2> QED
        BY <2>3 DEF g, Cell, FullAsRead
<1>5. \A i \in 1..k : \A b : HeadName(s, k, i, b) = <<LabelAt(s, i), b>>
    BY <1>1, CrossHeads
<1>6. \A i \in 1..(k - 1) : LabelAt(s, i) # LabelAt(s, k)
    BY <1>1, SourcesAre
<1>7. /\ DOMAIN both = DOMAIN f \cup DOMAIN g
      /\ \A n \in DOMAIN g : both[n] = g[n]
      /\ \A n \in DOMAIN f : n \notin DOMAIN g => both[n] = f[n]
    BY DEF Over
<1>8. row.columns = both /\ row = [table |-> TableAt(s, 1), columns |-> row.columns]
    <2>1. l = [table |-> TableAt(s, 1), columns |-> l.columns]
        BY <1>2 DEF Shows
    <2>2. l.table = TableAt(s, 1)
        BY <2>1
    <2> QED
        BY <2>2 DEF FullRow
<1> HIDE DEF f, g, both, row
<1>9. \A n \in DOMAIN both : \E i \in 1..k : \E b \in Kept(s, i) : n = HeadName(s, k, i, b)
    BY <1>1, <1>3, <1>4, <1>5, <1>7
<1>10. ASSUME NEW i \in 1..(k - 1), NEW b \in Kept(s, i)
       PROVE  /\ HeadName(s, k, i, b) \in DOMAIN both
              /\ both[HeadName(s, k, i, b)] = Cell(s, db, c, i, b)
    <2>1. <<LabelAt(s, i), b>> \notin DOMAIN g
        BY <1>4, <1>6, PairNames
    <2> QED
        BY <1>1, <1>3, <1>5, <1>7, <2>1
<1>11. ASSUME NEW b \in Kept(s, k)
       PROVE  /\ HeadName(s, k, k, b) \in DOMAIN both
              /\ both[HeadName(s, k, k, b)] = Cell(s, db, c, k, b)
    BY <1>1, <1>4, <1>5, <1>7
<1>12. \A i \in 1..k : \A b \in Kept(s, i) :
          /\ HeadName(s, k, i, b) \in DOMAIN both
          /\ both[HeadName(s, k, i, b)] = Cell(s, db, c, i, b)
    BY <1>1, <1>10, <1>11
<1> QED
    BY <1>8, <1>9, <1>12 DEF Shows, row

LEMMA CartesianLists ==
    ASSUME NEW s, Plain(s), Len(s.from) > 1, NEW db, IsDatabase(db), NEW k \in 2..Width(s),
           NEW left, NEW right,
           Lists(s, db, k - 1, left, Partial(s, db, k - 1)), Reads(s, db, k, right)
    PROVE  Lists(s, db, k, CartesianProduct(left, right), Partial(s, db, k))
<1> DEFINE P == Pairs(left, right)
           I == {i \in DOMAIN P : TRUE}
           S == Sublist(P, I)
           out == CartesianProduct(left, right)
<1>1. out = [i \in DOMAIN S |-> FullRow(S[i][1], S[i][2])]
    BY DEF CartesianProduct, JoinRows, FullRow, Full, FullName
<1>2. I \in SUBSET (DOMAIN P) /\ \A x \in DOMAIN P : x \in I
    OBVIOUS
<1> HIDE DEF P, I, S, out
<1>3. \A c : Linked(s, db, k, c)
    <2>1. Width(s) = Len(s.from)
        <3>1. Len(s.from) # 1
            <4>1. ~(1 > 1)
                OBVIOUS
            <4> QED
                BY <4>1, Zenon
        <3> QED
            BY <3>1, JoinFacts
    <2>2. ~(k > Len(s.from))
        BY <2>1, SelectFacts
    <2> QED
        BY <2>2 DEF Linked
<1>4. DOMAIN out = DOMAIN S /\ out = [i \in DOMAIN out |-> out[i]]
    BY <1>1
<1>5. \A y \in DOMAIN out : \A c :
          Meeting(s, db, k, c, S[y][1], S[y][2]) => Shows(s, db, k, c, out[y])
    BY <1>1, <1>4, CrossShows
<1>6. Combines(s, db, k, left, right, I, out)
    BY <1>2, <1>3, <1>4, <1>5 DEF Combines, P, S
<1>7. Lists(s, db, k, out, Partial(s, db, k))
    BY <1>6, CombinesLists
<1> QED
    BY <1>7 DEF out

LEMMA SameValueIs ==
    ASSUME NEW v \in Values, NEW w \in Values, Type(v) = Type(w), Type(v) \in ColumnTypes
    PROVE  SameValue(v, w) <=> v = w
<1>1. Type(v) # "double" /\ Type(w) # "double"
    BY DEF ColumnTypes
<1>2. IsNumber(v) <=> IsNumber(w)
    BY DEF IsNumber
<1> QED
    BY <1>1, <1>2 DEF SameValue

(* A source joined by NATURAL JOIN.                                        *)
NaturalClause(s, k) == Len(s.from) = 1 /\ s.joins[k - 1].natural
InSome(s, h, b) == \E i \in 1..h : b \in Kept(s, i)

LEMMA NaturalHeads ==
    ASSUME NEW s, Plain(s), NEW k \in 2..Width(s), NaturalClause(s, k)
    PROVE  \A i \in 1..k : InNatural(s, i) /\ \A b : HeadName(s, k, i, b) = Name(b)
<1>0. Width(s) \in Nat
    BY WidthFacts
<1>1. k \in 1..Width(s) /\ k # 1 /\ \A i \in 1..k : i \in 1..Width(s) /\ i <= k
    BY <1>0
<1>2. InNatural(s, k)
    BY NaturalFacts DEF NaturalClause
<1>3. \A i \in 1..k : InNatural(s, i)
    BY <1>1, <1>2, NaturalFacts
<1> QED
    BY <1>1, <1>3 DEF HeadName, Heading

LEMMA BasesShown ==
    ASSUME NEW s, Plain(s), NEW db, NEW k \in 1..Width(s), NEW c, NEW row, Shows(s, db, k, c, row)
    PROVE  \A b : b \in Bases(row) <=> InSome(s, k, b)
<1>1. /\ \A n \in DOMAIN row.columns : \E i \in 1..k : \E b \in Kept(s, i) : n = HeadName(s, k, i, b)
      /\ \A i \in 1..k : \A b \in Kept(s, i) : HeadName(s, k, i, b) \in DOMAIN row.columns
    BY DEF Shows
<1>2. \A i \in 1..k : \A b : Base(HeadName(s, k, i, b)) = b
    BY WidthFacts, HeadNameFacts
<1>3. \A b : b \in Bases(row) <=> \E n \in DOMAIN row.columns : b = Base(n)
    BY DEF Bases
<1> QED
    BY <1>1, <1>2, <1>3 DEF InSome

LEMMA BasesRead ==
    ASSUME NEW s, NEW db, NEW k, NEW r, NEW row, ReadAs(s, db, k, r, row)
    PROVE  \A b : b \in Bases(row) <=> b \in Kept(s, k)
<1>1. /\ \A n \in DOMAIN row.columns : \E b \in Kept(s, k) : n = <<AliasAt(s, k), b>>
      /\ \A b \in Kept(s, k) : <<AliasAt(s, k), b>> \in DOMAIN row.columns
    BY DEF ReadAs
<1>2. \A b : b \in Bases(row) <=> \E n \in DOMAIN row.columns : b = Base(n)
    BY DEF Bases
<1> DEFINE head(b) == <<AliasAt(s, k), b>>
<1>3. \A b : Base(head(b)) = b
    BY PairNames
<1>4. /\ \A n \in DOMAIN row.columns : \E b \in Kept(s, k) : n = head(b)
      /\ \A b \in Kept(s, k) : head(b) \in DOMAIN row.columns
    BY <1>1
<1> HIDE DEF head
<1> QED
    BY <1>2, <1>3, <1>4

(* Shared columns have one type.                                           *)
LEMMA NaturalTypes ==
    ASSUME NEW s, Plain(s), NEW k \in 2..Width(s), NaturalClause(s, k)
    PROVE  /\ \E i \in 1..(k - 1) : \E b : b \in ColumnsAt(s, i) /\ b \in ColumnsAt(s, k)
           /\ \A i \in 1..(k - 1) : \A b : b \in ColumnsAt(s, i) /\ b \in ColumnsAt(s, k) =>
                 Schemas[TableAt(s, i)].types[b] = Schemas[TableAt(s, k)].types[b]
<1> DEFINE j == k - 1
<1>0. Width(s) \in Nat
    BY WidthFacts
<1>1. Len(s.from) = 1 /\ s.joins[j].natural
    BY DEF NaturalClause
<1>2. Len(s.from) + j = k /\ ~(Len(s.from) > 1)
    BY <1>0, <1>1
<1>3. j \in DOMAIN s.joins
    BY <1>2, JoinFacts
<1> HIDE DEF j
<1>4. /\ \E i \in 1..k - 1 : ColumnsOf(Sources(s)[i].table) \cap ColumnsOf(Sources(s)[k].table) # {}
      /\ \A i \in 1..k - 1 : \A c \in ColumnsOf(Sources(s)[i].table) \cap ColumnsOf(Sources(s)[k].table) :
            Schemas[Sources(s)[i].table].types[c] = Schemas[Sources(s)[k].table].types[c]
    <2>1. PlainJoins(s)
        BY PlainFacts
    <2> QED
        BY <1>1, <1>2, <1>3, <2>1 DEF PlainJoins
<1> QED
    BY <1>4 DEF ColumnsAt, TableAt

(* What the rows have under the name of a column.                          *)
LEMMA NaturalValues ==
    ASSUME NEW s, Plain(s), NEW db, NEW k \in 2..Width(s), NaturalClause(s, k),
           NEW c, NEW l, NEW r, Meeting(s, db, k, c, l, r)
    PROVE  /\ \A i \in 1..(k - 1) : \A b \in Kept(s, i) :
                 Found(l, Name(b)) # {} /\ ValueOf(l, Name(b)) = Cell(s, db, c, i, b)
           /\ \A b \in Kept(s, k) :
                 Found(r, Name(b)) # {} /\ ValueOf(r, Name(b)) = Cell(s, db, c, k, b)
<1> DEFINE h == k - 1
<1>0. Width(s) \in Nat
    BY WidthFacts
<1>1. h \in 1..Width(s) /\ k \in 1..Width(s) /\ \A i \in 1..h : i \in 1..k /\ i \in 1..Width(s)
    BY <1>0
<1>2. Shows(s, db, h, c, l) /\ LinkedUpTo(s, db, h, c) /\ ReadAs(s, db, k, c[k], r)
    BY DEF Meeting, Extends
<1> HIDE DEF h
<1>3. \A i \in 1..h : InNatural(s, i)
    BY <1>1, NaturalHeads
<1>4. \A b : Base(Name(b)) = b /\ Qualifier(Name(b)) = NoName /\ Name(b) = <<Qualifier(Name(b)), Base(Name(b))>>
    BY PairNames
<1>5. ASSUME NEW i \in 1..h, NEW b \in Kept(s, i)
      PROVE  Found(l, Name(b)) # {} /\ ValueOf(l, Name(b)) = Cell(s, db, c, i, b)
    <2>1. b \in ColumnsAt(s, i)
        BY DEF Kept
    <2>2. i \in Candidates(s, Name(b))
        BY <1>1, <1>4, <2>1, CandidateFacts
    <2>3. OfSource(s, Name(b), h, i)
        BY <1>3, <1>4, <2>2 DEF OfSource
    <2> QED
        BY <1>1, <1>2, <1>4, <2>3, FoundIs
<1>6. ASSUME NEW b \in Kept(s, k)
      PROVE  Found(r, Name(b)) # {} /\ ValueOf(r, Name(b)) = Cell(s, db, c, k, b)
    <2>1. Found(r, Name(b)) # {} /\ ValueOf(r, Name(b)) = db[TableAt(s, k)][c[k]][Name(b)]
        BY <1>1, <1>2, <1>4, ReadFound
    <2> QED
        BY <2>1 DEF Cell
<1> QED
    BY <1>5, <1>6 DEF h

IsCommon(s, k, common) ==
    \A b : b \in common <=> InSome(s, k - 1, b) /\ b \in Kept(s, k)

LEMMA NaturalIsLinked ==
    ASSUME NEW s, Plain(s), NEW db, IsDatabase(db), NEW k \in 2..Width(s), NaturalClause(s, k),
           NEW c, NEW l, NEW r, Meeting(s, db, k, c, l, r), NEW common, IsCommon(s, k, common)
    PROVE  AllCommon(l, r, common) <=> Linked(s, db, k, c)
<1> DEFINE h == k - 1
<1>0. Width(s) \in Nat
    BY WidthFacts
<1>1. k \in 1..Width(s) /\ \A i \in 1..h : i \in 1..k /\ i \in 1..Width(s) /\ i # k
    BY <1>0
<1>2. Linked(s, db, k, c) <=>
          \A i \in 1..h : \A b \in ColumnsAt(s, i) \cap ColumnsAt(s, k) :
              Cell(s, db, c, i, b) = Cell(s, db, c, k, b)
    <2>1. Len(s.from) = 1 /\ k - Len(s.from) = h /\ k > Len(s.from) /\ s.joins[h].natural
        BY <1>0 DEF NaturalClause
    <2> QED
        BY <2>1 DEF Linked
<1>3. \A i \in 1..k : c[i] \in DOMAIN db[TableAt(s, i)]
    BY DEF Meeting, Extends, InRange
<1>4. /\ \A i \in 1..h : \A b \in Kept(s, i) :
            Found(l, Name(b)) # {} /\ ValueOf(l, Name(b)) = Cell(s, db, c, i, b)
      /\ \A b \in Kept(s, k) :
            Found(r, Name(b)) # {} /\ ValueOf(r, Name(b)) = Cell(s, db, c, k, b)
    BY NaturalValues
<1>5. \A i \in 1..h : \A b : b \in ColumnsAt(s, i) /\ b \in ColumnsAt(s, k) =>
          b \in Kept(s, i) /\ b \in Kept(s, k)
    BY <1>1, SharedAreKept
<1>6. ASSUME NEW i \in 1..h, NEW b, b \in Kept(s, i), b \in Kept(s, k)
      PROVE  /\ b \in ColumnsAt(s, i) \cap ColumnsAt(s, k)
             /\ Found(l, Name(b)) # {} /\ Found(r, Name(b)) # {}
             /\ SameValue(ValueOf(l, Name(b)), ValueOf(r, Name(b))) <=>
                    Cell(s, db, c, i, b) = Cell(s, db, c, k, b)
    <2> DEFINE v == Cell(s, db, c, i, b)
               w == Cell(s, db, c, k, b)
    <2>1. b \in ColumnsAt(s, i) /\ b \in ColumnsAt(s, k)
        BY <1>6 DEF Kept
    <2>2. v \in Values /\ Type(v) \in ColumnTypes /\ Type(v) = Schemas[TableAt(s, i)].types[b]
        BY <1>1, <1>3, <2>1, CellFacts
    <2>3. w \in Values /\ Type(w) = Schemas[TableAt(s, k)].types[b]
        <3>1. k \in 1..k
            BY <1>1
        <3> QED
            BY <1>1, <1>3, <2>1, <3>1, CellFacts
    <2>4. Type(v) = Type(w)
        BY <2>1, <2>2, <2>3, NaturalTypes
    <2>5. ValueOf(l, Name(b)) = v /\ ValueOf(r, Name(b)) = w /\ Found(l, Name(b)) # {} /\ Found(r, Name(b)) # {}
        BY <1>4, <1>6
    <2> HIDE DEF v, w
    <2>6. SameValue(v, w) <=> v = w
        BY <2>2, <2>3, <2>4, SameValueIs
    <2> QED
        BY <2>1, <2>5, <2>6 DEF v, w
<1>7. \A b : b \in common <=> (\E i \in 1..h : b \in Kept(s, i)) /\ b \in Kept(s, k)
    BY DEF IsCommon, InSome
<1> HIDE DEF h
<1>8. AllCommon(l, r, common) <=>
          \A b \in common : /\ Found(l, Name(b)) # {} /\ Found(r, Name(b)) # {}
                            /\ SameValue(ValueOf(l, Name(b)), ValueOf(r, Name(b)))
    BY DEF AllCommon
<1>9. ASSUME AllCommon(l, r, common), NEW i \in 1..h, NEW b \in ColumnsAt(s, i) \cap ColumnsAt(s, k)
      PROVE  Cell(s, db, c, i, b) = Cell(s, db, c, k, b)
    <2>1. b \in Kept(s, i) /\ b \in Kept(s, k)
        BY <1>5
    <2>2. b \in common
        BY <1>7, <2>1
    <2> QED
        BY <1>6, <1>8, <1>9, <2>1, <2>2
<1>10. ASSUME Linked(s, db, k, c), NEW b \in common
       PROVE  /\ Found(l, Name(b)) # {} /\ Found(r, Name(b)) # {}
              /\ SameValue(ValueOf(l, Name(b)), ValueOf(r, Name(b)))
    <2>1. PICK i \in 1..h : b \in Kept(s, i)
        BY <1>7
    <2>2. b \in Kept(s, k)
        BY <1>7
    <2> QED
        BY <1>2, <1>6, <1>10, <2>1, <2>2
<1> QED
    BY <1>2, <1>8, <1>9, <1>10

NaturalRow(l, r) ==
    [table |-> l.table,
     columns |-> [n \in {Name(b) : b \in Bases(l) \cup Bases(r)} |->
                     IF Base(n) \in Bases(l) THEN ValueOf(l, n) ELSE ValueOf(r, n)]]

LEMMA NaturalShows ==
    ASSUME NEW s, Plain(s), NEW db, NEW k \in 2..Width(s), NaturalClause(s, k),
           NEW c, NEW l, NEW r, Meeting(s, db, k, c, l, r), Linked(s, db, k, c)
    PROVE  Shows(s, db, k, c, NaturalRow(l, r))
<1> DEFINE h == k - 1
           D == {Name(b) : b \in Bases(l) \cup Bases(r)}
           f == [n \in D |-> IF Base(n) \in Bases(l) THEN ValueOf(l, n) ELSE ValueOf(r, n)]
           row == NaturalRow(l, r)
<1>0. Width(s) \in Nat
    BY WidthFacts
<1>1. /\ h \in 1..Width(s) /\ k \in 1..Width(s) /\ k \in 1..k
      /\ \A i \in 1..h : i \in 1..k
      /\ \A i \in 1..k : i \in 1..h \/ i = k
      /\ k \in Nat \ {0, 1}
    BY <1>0
<1>2. Shows(s, db, h, c, l) /\ LinkedUpTo(s, db, h, c) /\ ReadAs(s, db, k, c[k], r)
    BY DEF Meeting, Extends
<1>3. row.columns = f /\ row = [table |-> TableAt(s, 1), columns |-> row.columns]
    <2>1. l = [table |-> TableAt(s, 1), columns |-> l.columns]
        BY <1>2 DEF Shows
    <2>2. l.table = TableAt(s, 1)
        BY <2>1
    <2> QED
        BY <2>2 DEF NaturalRow
<1>4. /\ \A b : Name(b) \in D <=> b \in Bases(l) \cup Bases(r)
      /\ \A n \in D : \E b \in Bases(l) \cup Bases(r) : n = Name(b)
      /\ DOMAIN f = D
    BY NameFacts
<1>5. \A b : Base(Name(b)) = b
    BY NameFacts
<1>6. \A b : Name(b) \in D => f[Name(b)] = IF b \in Bases(l) THEN ValueOf(l, Name(b)) ELSE ValueOf(r, Name(b))
    BY <1>5
<1>7. LinkedUpTo(s, db, k, c)
    <2>1. LinkedUpTo(s, db, k - 1, c)
        BY <1>2
    <2> QED
        BY <1>1, <2>1, LongerLinks
<1> HIDE DEF h, D, f, row
<1>8. \A b : b \in Bases(l) <=> \E i \in 1..h : b \in Kept(s, i)
    <2>1. \A b : b \in Bases(l) <=> InSome(s, h, b)
        BY <1>1, <1>2, BasesShown
    <2> QED
        BY <2>1 DEF InSome
<1>9. \A b : b \in Bases(r) <=> b \in Kept(s, k)
    BY <1>2, BasesRead
<1>10. \A i \in 1..k : InNatural(s, i) /\ \A b : HeadName(s, k, i, b) = Name(b)
    BY NaturalHeads
<1>11. /\ \A i \in 1..h : \A b \in Kept(s, i) : ValueOf(l, Name(b)) = Cell(s, db, c, i, b)
       /\ \A b \in Kept(s, k) : ValueOf(r, Name(b)) = Cell(s, db, c, k, b)
    BY NaturalValues DEF h
<1>12. \A n \in DOMAIN f : \E i \in 1..k : \E b \in Kept(s, i) : n = HeadName(s, k, i, b)
    <2> SUFFICES ASSUME NEW n \in D PROVE \E i \in 1..k : \E b \in Kept(s, i) : n = Name(b)
        BY <1>4, <1>10
    <2>1. PICK b \in Bases(l) \cup Bases(r) : n = Name(b)
        BY <1>4
    <2>2. \E i \in 1..k : b \in Kept(s, i)
        BY <1>1, <1>8, <1>9
    <2> QED
        BY <2>1, <2>2
<1>13. ASSUME NEW i \in 1..k, NEW b \in Kept(s, i)
       PROVE  Name(b) \in DOMAIN f /\ f[Name(b)] = Cell(s, db, c, i, b)
    <2>1. b \in Bases(l) \/ b \in Bases(r)
        BY <1>1, <1>8, <1>9
    <2>2. Name(b) \in DOMAIN f /\ Name(b) \in D
        BY <1>4, <2>1
    <2>3. CASE b \in Bases(l)
        <3>1. PICK j \in 1..h : b \in Kept(s, j)
            BY <1>8, <2>3
        <3>2. f[Name(b)] = Cell(s, db, c, j, b)
            BY <1>6, <1>11, <2>2, <2>3, <3>1
        <3>3. j \in 1..k /\ b \in ColumnsAt(s, i) /\ b \in ColumnsAt(s, j)
            BY <1>1, <3>1 DEF Kept
        <3>4. Cell(s, db, c, i, b) = Cell(s, db, c, j, b)
            BY <1>1, <1>7, <1>10, <3>3, NaturalsAgree
        <3> QED
            BY <2>2, <3>2, <3>4
    <2>4. CASE b \notin Bases(l)
        <3>1. i = k
            BY <1>1, <1>8, <2>4
        <3> QED
            BY <1>6, <1>11, <2>2, <2>4, <3>1
    <2> QED
        BY <2>3, <2>4
<1>14. \A i \in 1..k : \A b \in Kept(s, i) :
          /\ HeadName(s, k, i, b) \in DOMAIN f
          /\ f[HeadName(s, k, i, b)] = Cell(s, db, c, i, b)
    BY <1>10, <1>13
<1> QED
    BY <1>3, <1>12, <1>14 DEF Shows, row

LEMMA NoPairs ==
    ASSUME NEW left, NEW right, left \in Seq(Range(left)), right \in Seq(Range(right)),
           left = <<>> \/ right = <<>>
    PROVE  DOMAIN Pairs(left, right) = {}
<1> DEFINE A == Range(left)
           B == Range(right)
           m == Len(left)
           n == Len(right)
           P == Pairs(left, right)
<1>1. left \in Seq(A) /\ right \in Seq(B)
    OBVIOUS
<1>2. m = 0 \/ n = 0
    OBVIOUS
<1> HIDE DEF A, B
<1>3. P \in Seq(A \X B) /\ \E e : PairsAre(left, right, e)
    BY <1>1, PairsExist
<1>4. PICK e : PairsAre(left, right, e)
    BY <1>3
<1> DEFINE Q == (1..m) \X (1..n)
<1>5. Enumerates(e, Len(P), Q)
    BY <1>4 DEF PairsAre
<1> HIDE DEF P
<1>6. \A x \in 1..Len(P) : e[x] \in Q
    BY <1>5, EnumeratedFacts
<1>7. Q = {}
    BY <1>2
<1>8. DOMAIN P = 1..Len(P)
    <2> DEFINE R == A \X B
    <2>1. P \in Seq(R)
        BY <1>3
    <2> HIDE DEF R
    <2> QED
        BY <2>1, SequenceFacts
<1> HIDE DEF Q
<1> QED
    BY <1>6, <1>7, <1>8 DEF P

LEMMA NaturalLists ==
    ASSUME NEW s, Plain(s), NEW db, IsDatabase(db), NEW k \in 2..Width(s), NaturalClause(s, k),
           NEW left, NEW right,
           Lists(s, db, k - 1, left, Partial(s, db, k - 1)), Reads(s, db, k, right)
    PROVE  Lists(s, db, k, NaturalJoin(left, right), Partial(s, db, k))
<1> DEFINE P == Pairs(left, right)
           common == IF left = <<>> \/ right = <<>> THEN {} ELSE Bases(left[1]) \cap Bases(right[1])
           I == {i \in DOMAIN P : AllCommon(P[i][1], P[i][2], common)}
           S == Sublist(P, I)
           joined == [i \in DOMAIN S |-> NaturalRow(S[i][1], S[i][2])]
           out == NaturalJoin(left, right)
<1>0. left \in Seq(Range(left)) /\ right \in Seq(Range(right))
    BY DEF Lists, ListedBy, Reads
<1>1. out = IF common = {} THEN <<>> ELSE joined
    BY DEF NaturalJoin, JoinRows, NaturalRow
<1>2. I \in SUBSET (DOMAIN P) /\ \A x \in DOMAIN P : x \in I <=> AllCommon(P[x][1], P[x][2], common)
    OBVIOUS
<1>3. CASE left = <<>> \/ right = <<>>
    <2>1. out = <<>>
        BY <1>1, <1>3
    <2>2. DOMAIN P = {}
        BY <1>0, <1>3, NoPairs
    <2> DEFINE T == Sublist(P, {})
    <2>3. {} \in SUBSET (DOMAIN P) /\ DOMAIN T = {}
        <3>1. Cardinality({}) = 0
            BY FS_EmptySet
        <3> QED
            BY <3>1 DEF Sublist
    <2> HIDE DEF P, out
    <2>4. DOMAIN out = {} /\ out = [i \in DOMAIN out |-> out[i]]
        BY <2>1
    <2>5. Combines(s, db, k, left, right, {}, out)
        BY <2>2, <2>3, <2>4 DEF Combines, P
    <2>6. Lists(s, db, k, out, Partial(s, db, k))
        BY <2>5, CombinesLists
    <2> QED
        BY <2>6 DEF out
<1>4. CASE left # <<>> /\ right # <<>>
    <2>1. common = Bases(left[1]) \cap Bases(right[1])
        BY <1>4
    <2>2. IsCommon(s, k, common)
        <3>1. 1 \in 1..Len(left) /\ 1 \in 1..Len(right)
            BY <1>0, <1>4
        <3>2. PICK f : ListedBy(s, db, k - 1, left, Partial(s, db, k - 1), f)
            BY DEF Lists
        <3> DEFINE h == k - 1
        <3>3. Shows(s, db, h, f[1], left[1])
            BY <3>1, <3>2 DEF ListedBy
        <3>4. ReadAs(s, db, k, 1, right[1])
            BY <3>1 DEF Reads
        <3>5. h \in 1..Width(s)
            <4>1. Width(s) \in Nat
                BY WidthFacts
            <4> QED
                BY <4>1
        <3> HIDE DEF h, common
        <3>6. \A b : b \in Bases(left[1]) <=> InSome(s, h, b)
            BY <3>3, <3>5, BasesShown
        <3>7. \A b : b \in Bases(right[1]) <=> b \in Kept(s, k)
            BY <3>4, BasesRead
        <3> QED
            BY <2>1, <3>6, <3>7 DEF IsCommon, h
    <2> HIDE DEF P, common, I, S, out, joined
    <2>3. common # {}
        <3>1. PICK i \in 1..(k - 1) : \E b : b \in ColumnsAt(s, i) /\ b \in ColumnsAt(s, k)
            BY NaturalTypes
        <3>2. PICK b : b \in ColumnsAt(s, i) /\ b \in ColumnsAt(s, k)
            BY <3>1
        <3>3. i \in 1..Width(s) /\ k \in 1..Width(s) /\ i # k
            <4>1. Width(s) \in Nat
                BY WidthFacts
            <4> QED
                BY <4>1
        <3>4. b \in Kept(s, i) /\ b \in Kept(s, k)
            BY <3>2, <3>3, SharedAreKept
        <3>5. b \in common
            BY <2>2, <3>4 DEF IsCommon, InSome
        <3> QED
            BY <3>5
    <2>4. out = [i \in DOMAIN S |-> NaturalRow(S[i][1], S[i][2])]
        BY <1>1, <2>3 DEF joined
    <2>5. DOMAIN out = DOMAIN S /\ out = [i \in DOMAIN out |-> out[i]]
        BY <2>4
    <2>6. \A x \in DOMAIN P : \A c :
              Meeting(s, db, k, c, P[x][1], P[x][2]) => (x \in I <=> Linked(s, db, k, c))
        BY <1>2, <2>2, NaturalIsLinked
    <2>7. \A y \in DOMAIN out : \A c :
              Linked(s, db, k, c) /\ Meeting(s, db, k, c, S[y][1], S[y][2]) => Shows(s, db, k, c, out[y])
        BY <2>4, <2>5, NaturalShows
    <2>8. Combines(s, db, k, left, right, I, out)
        BY <1>2, <2>5, <2>6, <2>7 DEF Combines, P, S
    <2>9. Lists(s, db, k, out, Partial(s, db, k))
        BY <2>8, CombinesLists
    <2> QED
        BY <2>9 DEF out
<1> QED
    BY <1>3, <1>4

LEMMA ExecuteJoinLists ==
    ASSUME NEW s, Plain(s), NEW db, IsDatabase(db), NEW k \in 2..Width(s),
           NEW left, NEW right,
           Lists(s, db, k - 1, left, Partial(s, db, k - 1)), Reads(s, db, k, right)
    PROVE  Lists(s, db, k, execute_join(left, right, s.joins, k - 1), Partial(s, db, k))
<1> DEFINE h == k - 1
           out == execute_join(left, right, s.joins, h)
<1>0. /\ Width(s) \in Nat /\ Len(s.joins) \in Nat /\ DOMAIN s.joins = 1..Len(s.joins)
      /\ Len(s.from) \in Nat \ {0}
    BY SelectFacts
<1>1. CASE Len(s.from) > 1
    <2>1. DOMAIN s.joins = {}
        <3>1. Len(s.from) # 1
            <4>1. ~(1 > 1)
                OBVIOUS
            <4> QED
                BY <1>1, <4>1, Zenon
        <3> QED
            BY <3>1, JoinFacts
    <2>2. h > Len(s.joins)
        <3> DEFINE n == Len(s.joins)
                   N == Width(s)
        <3>1. n \in Nat /\ 1..n = {} /\ N \in Nat /\ k \in 2..N
            BY <1>0, <2>1
        <3> HIDE DEF n, N
        <3>2. k - 1 > n
            BY <3>1
        <3> QED
            BY <3>2 DEF n
    <2>3. out = CartesianProduct(left, right)
        BY <2>2 DEF execute_join
    <2>4. Lists(s, db, k, CartesianProduct(left, right), Partial(s, db, k))
        BY <1>1, CartesianLists
    <2> QED
        BY <2>3, <2>4
<1>2. CASE Len(s.from) = 1
    <2>1. h \in DOMAIN s.joins
        <3>1. ~(Len(s.from) > 1)
            BY <1>2
        <3> QED
            BY <3>1, JoinFacts
    <2>2. ~(h > Len(s.joins))
        BY <1>0, <2>1
    <2>3. CASE s.joins[h].natural
        <3>1. out = NaturalJoin(left, right)
            BY <2>2, <2>3 DEF execute_join
        <3>2. NaturalClause(s, k)
            BY <1>2, <2>3 DEF NaturalClause
        <3>3. Lists(s, db, k, NaturalJoin(left, right), Partial(s, db, k))
            BY <3>2, NaturalLists
        <3> QED
            BY <3>1, <3>3
    <2>4. CASE ~s.joins[h].natural
        <3>1. out = JoinOn(left, right, s.joins[h].left, s.joins[h].right)
            BY <2>2, <2>4 DEF execute_join
        <3>2. OnClause(s, k)
            BY <1>2, <2>4 DEF OnClause
        <3>3. Lists(s, db, k, JoinOn(left, right, s.joins[k - 1].left, s.joins[k - 1].right),
                    Partial(s, db, k))
            BY <3>2, JoinOnLists
        <3> QED
            BY <3>1, <3>3
    <2> QED
        BY <2>3, <2>4
<1>3. Len(s.from) > 1 \/ Len(s.from) = 1
    BY JoinFacts
<1> QED
    BY <1>1, <1>2, <1>3

(* h[i] is the join of the first i of n tables read.                       *)
JoinsUpTo(reads, clauses, n, h) ==
    /\ h = [i \in 1..n |-> h[i]]
    /\ \A i \in 1..n :
          h[i] = IF i = 1 THEN reads[1] ELSE execute_join(h[i - 1], reads[i], clauses, i - 1)

LEMMA JoinsUpToExist ==
    ASSUME NEW reads, NEW clauses
    PROVE  \A n \in Nat : \E h : JoinsUpTo(reads, clauses, n, h)
<1> DEFINE S == {n \in Nat : \E h : JoinsUpTo(reads, clauses, n, h)}
<1>1. 0 \in S
    <2> DEFINE h == [i \in 1..0 |-> 0]
    <2>1. JoinsUpTo(reads, clauses, 0, h)
        BY DEF JoinsUpTo
    <2> QED
        BY <2>1
<1>2. ASSUME NEW n \in Nat, n \in S PROVE n + 1 \in S
    <2>1. PICK h : JoinsUpTo(reads, clauses, n, h)
        BY <1>2
    <2> DEFINE m == n + 1
               v(i) == IF i = 1 THEN reads[1] ELSE execute_join(h[i - 1], reads[i], clauses, i - 1)
               g == [i \in 1..m |-> IF i = m THEN v(m) ELSE h[i]]
    <2>2. \A i \in 1..n : h[i] = v(i)
        BY <2>1 DEF JoinsUpTo
    <2>3. \A i \in 1..m : i = m \/ i \in 1..n
        OBVIOUS
    <2>4. \A i \in 1..m : i # 1 => i - 1 \in 1..m /\ i - 1 # m
        OBVIOUS
    <2>5. \A i \in 1..m : g[i] = v(i)
        <3> HIDE DEF v, m
        <3> QED
            BY <2>2, <2>3
    <2>6. \A i \in 1..m : i # 1 => g[i - 1] = h[i - 1]
        <3> HIDE DEF v, m
        <3> QED
            BY <2>4
    <2>7. g = [i \in 1..m |-> g[i]]
        <3> HIDE DEF v, m
        <3> QED
            OBVIOUS
    <2> HIDE DEF m, g
    <2>8. \A i \in 1..m :
              g[i] = IF i = 1 THEN reads[1] ELSE execute_join(g[i - 1], reads[i], clauses, i - 1)
        BY <2>5, <2>6
    <2>9. JoinsUpTo(reads, clauses, m, g)
        BY <2>7, <2>8 DEF JoinsUpTo
    <2> QED
        BY <2>9 DEF m
<1> HIDE DEF S
<1>3. \A n \in Nat : n \in S
    BY <1>1, <1>2, NatInduct
<1> QED
    BY <1>3 DEF S

JoinedRows(reads, clauses) ==
    LET joined[i \in DOMAIN reads] ==
            IF i = 1 THEN reads[1]
            ELSE execute_join(joined[i - 1], reads[i], clauses, i - 1)
    IN  joined[Len(reads)]

LEMMA JoinedRowsAre ==
    ASSUME NEW reads, NEW clauses, NEW n \in Nat \ {0}, DOMAIN reads = 1..n, Len(reads) = n
    PROVE  \E h : JoinsUpTo(reads, clauses, n, h) /\ JoinedRows(reads, clauses) = h[n]
<1> DEFINE Fits(h) == h = [i \in 1..n |-> IF i = 1 THEN reads[1]
                                          ELSE execute_join(h[i - 1], reads[i], clauses, i - 1)]
           c == CHOOSE h : Fits(h)
<1>1. JoinedRows(reads, clauses) = c[n]
    BY DEF JoinedRows
<1>2. PICK h : JoinsUpTo(reads, clauses, n, h)
    BY JoinsUpToExist
<1>3. Fits(h)
    BY <1>2 DEF JoinsUpTo
<1>4. Fits(c)
    BY <1>3
<1> HIDE DEF c
<1>5. JoinsUpTo(reads, clauses, n, c)
    BY <1>4 DEF JoinsUpTo
<1> QED
    BY <1>1, <1>5

IsRecordOf(t, row) == row = [table |-> t, columns |-> row.columns]

LEMMA FirstLists ==
    ASSUME NEW s, Plain(s), NEW db, NEW rows, Reads(s, db, 1, rows),
           \A r \in 1..Len(rows) : IsRecordOf(TableAt(s, 1), rows[r])
    PROVE  Lists(s, db, 1, rows, Partial(s, db, 1))
<1> DEFINE n == Len(rows)
           one(x) == [i \in 1..1 |-> x]
           f == [x \in 1..n |-> one(x)]
           C == Partial(s, db, 1)
<1>1. /\ rows \in Seq(Range(rows)) /\ n \in Nat /\ 1..n = DOMAIN db[TableAt(s, 1)]
      /\ \A r \in 1..n : ReadAs(s, db, 1, r, rows[r])
    BY RangeFacts DEF Reads
<1>2. \A x \in 1..n : one(x) \in [1..1 -> Nat]
    OBVIOUS
<1>3. \A x : one(x)[1] = x
    OBVIOUS
<1>4. \A c \in [1..1 -> Nat] : c = one(c[1])
    OBVIOUS
<1>5. \A i \in 1..1 : i = 1
    OBVIOUS
<1>6. \A c : LinkedUpTo(s, db, 1, c)
    BY DEF LinkedUpTo
<1> HIDE DEF one
<1>7. \A x \in 1..n : one(x) \in C
    BY <1>1, <1>2, <1>3, <1>5, <1>6 DEF Partial, InRange
<1>8. \A c \in C : c \in [1..1 -> Nat] /\ c[1] \in 1..n
    BY <1>1 DEF Partial, InRange
<1> HIDE DEF C
<1>9. /\ f \in [1..n -> C] /\ \A x \in 1..n : f[x] = one(x)
    BY <1>7
<1> HIDE DEF f
<1>10. \A x, y \in 1..n : f[x] = f[y] => x = y
    BY <1>3, <1>9
<1>11. \A c \in C : \E x \in 1..n : f[x] = c
    BY <1>4, <1>8, <1>9
<1>12. Enumerates(f, n, C)
    BY <1>9, <1>10, <1>11 DEF Enumerates
<1>13. ASSUME NEW x \in 1..n PROVE Shows(s, db, 1, f[x], rows[x])
    <2>1. \A b : HeadName(s, 1, 1, b) = <<AliasAt(s, 1), b>>
        BY DEF HeadName
    <2>2. \A b : Cell(s, db, f[x], 1, b) = db[TableAt(s, 1)][x][Name(b)]
        BY <1>3, <1>9 DEF Cell
    <2>3. /\ \A m \in DOMAIN rows[x].columns : \E b \in Kept(s, 1) : m = <<AliasAt(s, 1), b>>
          /\ \A b \in Kept(s, 1) :
                /\ <<AliasAt(s, 1), b>> \in DOMAIN rows[x].columns
                /\ rows[x].columns[<<AliasAt(s, 1), b>>] = db[TableAt(s, 1)][x][Name(b)]
        BY <1>1 DEF ReadAs
    <2>4. rows[x] = [table |-> TableAt(s, 1), columns |-> rows[x].columns]
        BY DEF IsRecordOf
    <2>5. 1 \in 1..1
        OBVIOUS
    <2> DEFINE head(b) == <<AliasAt(s, 1), b>>
               g == rows[x].columns
               row == rows[x]
    <2>6. /\ \A m \in DOMAIN g : \E b \in Kept(s, 1) : m = HeadName(s, 1, 1, b)
          /\ \A b \in Kept(s, 1) :
                HeadName(s, 1, 1, b) \in DOMAIN g /\ g[HeadName(s, 1, 1, b)] = Cell(s, db, f[x], 1, b)
        <3>1. /\ \A m \in DOMAIN g : \E b \in Kept(s, 1) : m = head(b)
              /\ \A b \in Kept(s, 1) : head(b) \in DOMAIN g /\ g[head(b)] = db[TableAt(s, 1)][x][Name(b)]
            BY <2>3
        <3>2. \A b : HeadName(s, 1, 1, b) = head(b)
            BY <2>1
        <3> HIDE DEF head, g
        <3> QED
            BY <2>2, <3>1, <3>2
    <2> HIDE DEF g
    <2>7. \A m \in DOMAIN g : \E i \in 1..1 : \E b \in Kept(s, i) : m = HeadName(s, 1, i, b)
        BY <2>5, <2>6
    <2>8. \A i \in 1..1 : \A b \in Kept(s, i) :
              HeadName(s, 1, i, b) \in DOMAIN g /\ g[HeadName(s, 1, i, b)] = Cell(s, db, f[x], i, b)
        BY <1>5, <2>6
    <2> QED
        BY <2>4, <2>7, <2>8 DEF Shows, g
<1> QED
    BY <1>1, <1>12, <1>13 DEF Lists, ListedBy, C

(* All tables read, and their joins.                                       *)
AllRead(s, db, n, reads) ==
    /\ DOMAIN reads = 1..n /\ Len(reads) = n
    /\ \A i \in 1..n : Reads(s, db, i, reads[i])
    /\ n # 0 => \A r \in 1..Len(reads[1]) : IsRecordOf(TableAt(s, 1), reads[1][r])

LEMMA JoinsList ==
    ASSUME NEW s, Plain(s), NEW db, IsDatabase(db), NEW reads, AllRead(s, db, Width(s), reads)
    PROVE  Lists(s, db, Width(s), JoinedRows(reads, s.joins), Partial(s, db, Width(s)))
<1> DEFINE N == Width(s)
<1>1. N \in Nat \ {0}
    BY WidthFacts
<1>2. /\ DOMAIN reads = 1..N /\ Len(reads) = N
      /\ \A i \in 1..N : Reads(s, db, i, reads[i])
      /\ \A r \in 1..Len(reads[1]) : IsRecordOf(TableAt(s, 1), reads[1][r])
    BY <1>1 DEF AllRead
<1>3. PICK h : JoinsUpTo(reads, s.joins, N, h) /\ JoinedRows(reads, s.joins) = h[N]
    BY <1>1, <1>2, JoinedRowsAre
<1> HIDE DEF N
<1> DEFINE S == {m \in 0..N : m = 0 \/ Lists(s, db, m, h[m], Partial(s, db, m))}
<1>4. \A i \in 1..N : h[i] = IF i = 1 THEN reads[1] ELSE execute_join(h[i - 1], reads[i], s.joins, i - 1)
    BY <1>3 DEF JoinsUpTo
<1>5. Lists(s, db, 1, h[1], Partial(s, db, 1))
    <2>1. 1 \in 1..N
        BY <1>1
    <2>2. h[1] = reads[1] /\ Reads(s, db, 1, reads[1])
        BY <1>2, <1>4, <2>1
    <2>3. Lists(s, db, 1, reads[1], Partial(s, db, 1))
        BY <1>2, <2>2, FirstLists
    <2> QED
        BY <2>2, <2>3
<1>6. ASSUME NEW m \in 0..(N - 1), m \in S PROVE m + 1 \in S
    <2>1. m + 1 \in 0..N
        BY <1>1
    <2>2. CASE m = 0
        BY <1>5, <2>1, <2>2
    <2>3. CASE m # 0
        <3> DEFINE k == m + 1
        <3>1. k \in 2..N /\ k - 1 = m /\ k \in 1..N /\ k # 1
            BY <1>1, <2>3
        <3>2. Lists(s, db, m, h[m], Partial(s, db, m))
            BY <1>6, <2>3
        <3>3. h[k] = execute_join(h[k - 1], reads[k], s.joins, k - 1)
            BY <1>4, <3>1
        <3>4. Reads(s, db, k, reads[k])
            BY <1>2, <3>1
        <3> HIDE DEF k, S
        <3>5. Lists(s, db, k - 1, h[k - 1], Partial(s, db, k - 1))
            BY <3>1, <3>2
        <3>6. Lists(s, db, k, execute_join(h[k - 1], reads[k], s.joins, k - 1), Partial(s, db, k))
            BY <3>1, <3>4, <3>5, ExecuteJoinLists DEF N
        <3>7. Lists(s, db, k, h[k], Partial(s, db, k))
            BY <3>3, <3>6
        <3> QED
            BY <2>1, <3>7 DEF S, k
    <2> QED
        BY <2>2, <2>3
<1>7. 0 \in S
    BY <1>1
<1> HIDE DEF S
<1>8. \A m \in 0..N : m \in S
    BY <1>1, <1>6, <1>7, Upwards
<1>9. Lists(s, db, N, h[N], Partial(s, db, N))
    <2>1. N \in S
        BY <1>1, <1>8
    <2> QED
        BY <1>1, <2>1 DEF S
<1> QED
    BY <1>3, <1>9 DEF N

(* What a scan and the alias make of the rows of source i.                 *)
LEMMA StarFacts == All # NoName /\ Qualifier(Star) = All
<1>1. "*" # ""
    OBVIOUS
<1> QED
    BY <1>1 DEF All, NoName, Star, Qualifier

LEMMA AliasesAre ==
    ASSUME NEW s, Plain(s), NEW A, A = table_aliases(Sources(s))
    PROVE  /\ NoName \notin DOMAIN A /\ All \notin DOMAIN A
           /\ \A i \in 1..Width(s) : \A a :
                 (a \in DOMAIN A \ {TableAt(s, i)} /\ A[a] = TableAt(s, i))
                     <=> (a = AliasAt(s, i) /\ a # NoName)
<1> DEFINE N == Width(s)
           T(i) == TableAt(s, i)
           B(i) == AliasAt(s, i)
           src == Sources(s)
           labels == {src[i].table : i \in DOMAIN src} \cup ({src[i].alias : i \in DOMAIN src} \ {NoName})
           Has(a, i) == a \in {T(i), B(i)}
           IsLast(a, i) == Has(a, i) /\ \A j \in i + 1..N : ~Has(a, j)
           last(a) == CHOOSE i \in 1..N : IsLast(a, i)
<1>1. N \in Nat /\ DOMAIN src = 1..N /\ Len(src) = N
    BY SelectFacts
<1>2. A = [a \in labels |-> T(last(a))]
    BY <1>1 DEF table_aliases, TableAt, AliasAt
<1>3. \A i, j \in 1..N :
          /\ T(i) # NoName /\ T(i) # All /\ B(i) # All /\ B(i) # T(j)
          /\ i # j => T(i) # T(j) /\ (B(i) = NoName \/ B(i) # B(j))
    BY SourcesAre
<1>4. \A a : a \in labels <=> \E i \in 1..N : a = T(i) \/ (a = B(i) /\ a # NoName)
    BY <1>1 DEF TableAt, AliasAt
<1> HIDE DEF T, B, src, N
<1>5. ASSUME NEW a, a # NoName, NEW i \in 1..N, Has(a, i)
      PROVE  last(a) = i
    <2>1. \A j \in 1..N : Has(a, j) => j = i
        BY <1>3, <1>5
    <2>2. \A j \in i + 1..N : j \in 1..N /\ j # i
        BY <1>1
    <2>3. IsLast(a, i)
        BY <1>5, <2>1, <2>2
    <2>4. \A j \in 1..N : IsLast(a, j) => j = i
        BY <2>1
    <2> HIDE DEF IsLast
    <2> QED
        BY <2>3, <2>4
<1> HIDE DEF last, labels
<1>6. \A a \in labels : a # NoName /\ a # All
    BY <1>3, <1>4
<1>7. ASSUME NEW i \in 1..N, NEW a
      PROVE  (a \in DOMAIN A \ {T(i)} /\ A[a] = T(i)) <=> (a = B(i) /\ a # NoName)
    <2>1. ASSUME a \in DOMAIN A, a # T(i), A[a] = T(i) PROVE a = B(i) /\ a # NoName
        <3>1. a \in labels /\ a # NoName
            BY <1>2, <1>6, <2>1
        <3>2. PICK j \in 1..N : a = T(j) \/ (a = B(j) /\ a # NoName)
            BY <1>4, <3>1
        <3>3. last(a) = j
            BY <1>5, <3>1, <3>2
        <3>4. T(j) = T(i)
            BY <1>2, <2>1, <3>1, <3>3
        <3>5. j = i
            BY <1>3, <3>4
        <3> QED
            BY <2>1, <3>1, <3>2, <3>5
    <2>2. ASSUME a = B(i), a # NoName PROVE a \in DOMAIN A /\ a # T(i) /\ A[a] = T(i)
        <3>1. a \in labels
            BY <1>4, <2>2
        <3>2. last(a) = i
            BY <1>5, <2>2
        <3> QED
            BY <1>2, <1>3, <2>2, <3>1, <3>2
    <2> QED
        BY <2>1, <2>2
<1>8. NoName \notin DOMAIN A /\ All \notin DOMAIN A
    BY <1>2, <1>6
<1> QED
    BY <1>7, <1>8 DEF N, T, B

(* The names of the SELECT list as ReadTable asks the storage engine for   *)
(* them.                                                                   *)
AskedOf(s) ==
    LET columns == parse_select_query(s).select_columns
        aliases == parse_select_query(s).table_aliases
    IN  [i \in DOMAIN columns |-> resolve_aliased_column(columns[i], aliases)]

LEMMA AskedAre ==
    ASSUME NEW s, Plain(s)
    PROVE  /\ s.select = <<>> <=> Star \in Range(AskedOf(s))
           /\ s.select # <<>> => Range(AskedOf(s)) = Asked(s)
<1> DEFINE A == table_aliases(Sources(s))
           columns == parse_select_query(s).select_columns
<1>0. AskedOf(s) = [i \in DOMAIN columns |-> resolve_aliased_column(columns[i], A)]
    BY DEF AskedOf, parse_select_query
<1>1. columns = IF s.select = <<>> THEN <<Star>> ELSE [i \in DOMAIN s.select |-> s.select[i].column]
    BY DEF parse_select_query
<1> HIDE DEF columns
<1>2. NoName \notin DOMAIN A /\ All \notin DOMAIN A
    BY AliasesAre
<1> HIDE DEF A
<1>3. \A n : Qualifier(n) \notin DOMAIN A => resolve_aliased_column(n, A) = n
    BY DEF resolve_aliased_column
<1>4. CASE s.select = <<>>
    <2>1. columns = <<Star>>
        BY <1>1, <1>4
    <2>2. DOMAIN columns = {1} /\ columns[1] = Star
        BY <2>1
    <2>3. resolve_aliased_column(Star, A) = Star
        BY <1>2, <1>3, StarFacts
    <2>4. 1 \in DOMAIN AskedOf(s) /\ AskedOf(s)[1] = Star
        BY <1>0, <2>2, <2>3
    <2>5. Star \in Range(AskedOf(s))
        BY <2>4 DEF Range
    <2> QED
        BY <1>4, <2>5
<1>5. CASE s.select # <<>>
    <2>1. \A n \in Asked(s) : Qualifier(n) = NoName
        BY <1>5, PlainFacts DEF KeepsColumns
    <2>2. \A i \in DOMAIN s.select : s.select[i].column \in Asked(s)
        BY DEF Asked
    <2>3. /\ DOMAIN AskedOf(s) = DOMAIN s.select
          /\ \A i \in DOMAIN s.select : AskedOf(s)[i] = s.select[i].column
        BY <1>0, <1>1, <1>2, <1>3, <1>5, <2>1, <2>2
    <2>4. Range(AskedOf(s)) = Asked(s)
        BY <2>3 DEF Range, Asked
    <2>5. Star \notin Asked(s)
        BY <2>1, StarFacts
    <2> QED
        BY <1>5, <2>4, <2>5
<1> QED
    BY <1>4, <1>5

ScannedRow(s, t, r) ==
    [table |-> t,
     columns |-> IF Star \in Range(AskedOf(s)) THEN tables[t][r]
                 ELSE Restrict(tables[t][r], Range(AskedOf(s)) \cap DOMAIN tables[t][r])]

LEMMA ScannedRowIs ==
    ASSUME NEW s, Plain(s), IsDatabase(tables), NEW i \in 1..Width(s),
           NEW r \in DOMAIN tables[TableAt(s, i)]
    PROVE  /\ ScannedRow(s, TableAt(s, i), r).table = TableAt(s, i)
           /\ \A n : n \in DOMAIN ScannedRow(s, TableAt(s, i), r).columns
                         <=> \E b \in Kept(s, i) : n = Name(b)
           /\ \A b \in Kept(s, i) :
                 ScannedRow(s, TableAt(s, i), r).columns[Name(b)] = tables[TableAt(s, i)][r][Name(b)]
<1> DEFINE t == TableAt(s, i)
           f == tables[t][r]
           R == Range(AskedOf(s))
           g == IF Star \in R THEN f ELSE Restrict(f, R \cap DOMAIN f)
<1>1. t \in Tables
    BY SourcesAre
<1>2. DOMAIN f = {Name(c) : c \in ColumnsOf(t)}
    <2>1. tables[t] \in Seq(Rows(t))
        BY <1>1 DEF IsDatabase, IsTable
    <2>2. f \in Rows(t)
        BY <2>1
    <2> QED
        BY <1>1, <2>2, RowFacts
<1>3. ScannedRow(s, t, r).columns = g /\ ScannedRow(s, t, r).table = t
    BY DEF ScannedRow
<1>4. \A n : n \in DOMAIN f <=> \E b \in ColumnsOf(t) : n = Name(b)
    BY <1>2
<1>5. \A b : b \in Kept(s, i) <=> /\ b \in ColumnsOf(t)
                                  /\ s.select = <<>> \/ \E n \in Asked(s) : b = Base(n)
    BY DEF Kept, ColumnsAt
<1> HIDE DEF t, f
<1>6. CASE s.select = <<>>
    <2>1. g = f
        BY <1>6, AskedAre
    <2> QED
        BY <1>3, <1>4, <1>5, <1>6, <2>1 DEF f, t
<1>7. CASE s.select # <<>>
    <2>1. g = Restrict(f, Asked(s) \cap DOMAIN f)
        BY <1>7, AskedAre
    <2>2. \A n \in Asked(s) : n = Name(Base(n))
        <3>1. \A n \in Asked(s) : Qualifier(n) = NoName /\ n = <<Qualifier(n), Base(n)>>
            BY <1>7, PlainFacts, UsedAreNames DEF KeepsColumns
        <3> QED
            BY <3>1, PairNames
    <2> HIDE DEF g
    <2>3. DOMAIN g = Asked(s) \cap DOMAIN f /\ \A n \in DOMAIN g : g[n] = f[n]
        BY <2>1 DEF Restrict
    <2>4. \A n : n \in DOMAIN g <=> \E b \in Kept(s, i) : n = Name(b)
        BY <1>4, <1>5, <1>7, <2>2, <2>3, NameFacts
    <2>5. \A b \in Kept(s, i) : g[Name(b)] = f[Name(b)]
        BY <2>3, <2>4
    <2> QED
        BY <1>3, <2>4, <2>5 DEF f, t
<1> QED
    BY <1>6, <1>7

(* ReadTable for source i.                                                 *)
RowsRead(s, i) ==
    apply_table_aliases(full_scan(TableAt(s, i), AskedOf(s)), TableAt(s, i),
                        parse_select_query(s).table_aliases)

Prefixed(alias, f) == [n \in {<<alias, Base(k)>> : k \in DOMAIN f} |-> f[Name(Base(n))]]

LEMMA PrefixedFacts ==
    ASSUME NEW alias, NEW f
    PROVE  \A b : Name(b) \in DOMAIN f =>
               <<alias, b>> \in DOMAIN Prefixed(alias, f) /\ Prefixed(alias, f)[<<alias, b>>] = f[Name(b)]
<1> DEFINE D == {<<alias, Base(k)>> : k \in DOMAIN f}
           p == Prefixed(alias, f)
<1>1. p = [n \in D |-> f[Name(Base(n))]]
    BY DEF Prefixed
<1>2. ASSUME NEW b, Name(b) \in DOMAIN f PROVE <<alias, b>> \in DOMAIN p /\ p[<<alias, b>>] = f[Name(b)]
    <2> DEFINE n == <<alias, b>>
    <2>1. Base(n) = b /\ Base(Name(b)) = b
        BY PairNames
    <2>2. n \in D
        BY <1>2, <2>1
    <2> HIDE DEF n, D, p
    <2>3. n \in DOMAIN p /\ p[n] = f[Name(Base(n))]
        BY <1>1, <2>2
    <2> QED
        BY <2>1, <2>3 DEF n, p
<1> QED
    BY <1>2

LEMMA RowsReadAre ==
    ASSUME NEW s, Plain(s), IsDatabase(tables), NEW i \in 1..Width(s)
    PROVE  /\ Reads(s, tables, i, RowsRead(s, i))
           /\ \A r \in 1..Len(RowsRead(s, i)) : IsRecordOf(TableAt(s, i), RowsRead(s, i)[r])
<1> DEFINE t == TableAt(s, i)
           a == AliasAt(s, i)
           scan == full_scan(t, AskedOf(s))
           A == table_aliases(Sources(s))
           own == {x \in DOMAIN A \ {t} : A[x] = t}
           rows == RowsRead(s, i)
           n == Len(tables[t])
           K == Kept(s, i)
           R == ScannedRow(s, t, 1)
<1>1. tables[t] \in Seq(Rows(t)) /\ n \in Nat /\ DOMAIN tables[t] = 1..n
    <2>1. t \in Tables
        BY SourcesAre
    <2>2. tables[t] \in Seq(Rows(t))
        BY <2>1 DEF IsDatabase, IsTable
    <2> QED
        BY <2>2
<1>2. \A x : x \in own <=> x = a /\ x # NoName
    BY AliasesAre
<1>3. rows = apply_table_aliases(scan, t, A)
    BY DEF RowsRead, parse_select_query
<1>4. scan = [r \in 1..n |-> ScannedRow(s, t, r)]
    BY <1>1 DEF full_scan, ScannedRow
<1> DEFINE f(r) == ScannedRow(s, t, r).columns
<1>5. \A r \in 1..n : /\ ScannedRow(s, t, r) = [table |-> t, columns |-> f(r)]
                      /\ \A m : m \in DOMAIN f(r) <=> \E b \in K : m = Name(b)
                      /\ \A b \in K : f(r)[Name(b)] = tables[t][r][Name(b)]
    <2> TAKE r \in 1..n
    <2>1. ScannedRow(s, t, r) = [table |-> t, columns |-> f(r)]
        BY DEF ScannedRow
    <2>2. r \in DOMAIN tables[TableAt(s, i)]
        BY <1>1
    <2> QED
        BY <2>1, <2>2, ScannedRowIs
<1> HIDE DEF f
<1>6. /\ own = {} => rows = scan
      /\ own # {} => rows = [r \in DOMAIN scan |->
                        [scan[r] EXCEPT !.columns = Prefixed(CHOOSE x \in own : TRUE, @)]]
    BY <1>3 DEF apply_table_aliases, Prefixed
<1>7. own # {} => a # NoName /\ (CHOOSE x \in own : TRUE) = a
    BY <1>2
<1>8. own = {} => a = NoName
    BY <1>2
<1> HIDE DEF rows, own, scan, A, t, a, n, K
<1> DEFINE g(r) == IF own = {} THEN f(r) ELSE Prefixed(a, f(r))
<1>9. rows = [r \in 1..n |-> [table |-> t, columns |-> g(r)]]
    <2>1. CASE own = {}
        BY <1>4, <1>5, <1>6, <2>1
    <2>2. CASE own # {}
        <3>1. rows = [r \in DOMAIN scan |-> [scan[r] EXCEPT !.columns = Prefixed(a, @)]]
            BY <1>6, <1>7, <2>2
        <3>2. \A r \in 1..n : scan[r] = [table |-> t, columns |-> f(r)]
            BY <1>4, <1>5
        <3>3. \A r \in 1..n : [scan[r] EXCEPT !.columns = Prefixed(a, @)] = [table |-> t, columns |-> g(r)]
            <4> TAKE r \in 1..n
            <4> DEFINE p == Prefixed(a, scan[r].columns)
                       e == f(r)
            <4>1. scan[r] = [table |-> t, columns |-> e] /\ scan[r].columns = e
                BY <3>2
            <4>2. g(r) = p
                BY <2>2, <4>1
            <4> HIDE DEF p, e, g
            <4>3. [scan[r] EXCEPT !.columns = p] = [table |-> t, columns |-> p]
                BY <4>1
            <4> QED
                BY <4>2, <4>3 DEF p
        <3>4. DOMAIN scan = 1..n
            BY <1>4
        <3> HIDE DEF g
        <3> QED
            BY <3>1, <3>3, <3>4
    <2> QED
        BY <2>1, <2>2
<1>10. ASSUME NEW r \in 1..n
       PROVE  /\ \A m \in DOMAIN g(r) : \E b \in K : m = <<a, b>>
              /\ \A b \in K : <<a, b>> \in DOMAIN g(r) /\ g(r)[<<a, b>>] = tables[t][r][Name(b)]
    <2>1. CASE own = {}
        <3>1. \A b : <<a, b>> = Name(b)
            BY <1>8, <2>1, PairNames
        <3>2. g(r) = f(r)
            BY <2>1
        <3> QED
            BY <1>5, <3>1, <3>2
    <2>2. CASE own # {}
        <3>1. g(r) = Prefixed(a, f(r))
            BY <2>2
        <3>2. \A b \in K : Name(b) \in DOMAIN f(r) /\ f(r)[Name(b)] = tables[t][r][Name(b)]
            BY <1>5
        <3>3. ASSUME NEW m \in DOMAIN g(r) PROVE \E b \in K : m = <<a, b>>
            <4>1. PICK k \in DOMAIN f(r) : m = <<a, Base(k)>>
                BY <3>1 DEF Prefixed
            <4>2. PICK b \in K : k = Name(b)
                BY <1>5
            <4>3. m = <<a, b>>
                BY <4>1, <4>2, NameFacts
            <4> QED
                BY <4>3
        <3> HIDE DEF g
        <3> QED
            BY <3>1, <3>2, <3>3, PrefixedFacts
    <2> QED
        BY <2>1, <2>2
<1> HIDE DEF g
<1>11. DOMAIN rows = 1..n /\ Len(rows) = n /\ rows \in Seq(Range(rows))
    <2> DEFINE Q == Range(rows)
    <2>1. DOMAIN rows = 1..n /\ rows = [x \in 1..n |-> rows[x]]
        BY <1>9
    <2>2. rows \in [1..n -> Q]
        BY <2>1 DEF Range
    <2> HIDE DEF Q
    <2> QED
        BY <1>1, <2>1, <2>2, FunctionIsSequence DEF Q
<1>12. ASSUME NEW r \in 1..n PROVE ReadAs(s, tables, i, r, rows[r]) /\ IsRecordOf(t, rows[r])
    <2>1. rows[r] = [table |-> t, columns |-> g(r)]
        BY <1>9
    <2>2. rows[r].table = t /\ rows[r].columns = g(r)
        BY <2>1
    <2>3. IsRecordOf(t, rows[r])
        BY <2>1, <2>2 DEF IsRecordOf
    <2>4. ReadAs(s, tables, i, r, rows[r])
        BY <1>10, <2>2 DEF ReadAs, t, a, K
    <2> QED
        BY <2>3, <2>4
<1> QED
    BY <1>1, <1>11, <1>12 DEF Reads, rows, t

(* The conditions.                                                         *)
LEMMA JoinedIsLinked ==
    ASSUME NEW s, Plain(s), NEW db, NEW c
    PROVE  Joined(s, db, c) <=> LinkedUpTo(s, db, Width(s), c)
<1> DEFINE m == Len(s.from)
           n == Len(s.joins)
           N == Width(s)
           clause(j) == s.joins[j]
           links(j) ==
               IF clause(j).natural
               THEN \A h \in 1..((m + j) - 1) : \A b \in ColumnsAt(s, h) \cap ColumnsAt(s, m + j) :
                       Cell(s, db, c, h, b) = Cell(s, db, c, m + j, b)
               ELSE ValueIn(s, db, c, clause(j).left) = ValueIn(s, db, c, clause(j).right)
<1>1. m \in Nat \ {0} /\ n \in Nat /\ DOMAIN s.joins = 1..n /\ N = m + n
    BY SelectFacts
<1>2. Joined(s, db, c) <=> \A j \in 1..n : links(j)
    <2>1. Joined(s, db, c) <=> \A j \in DOMAIN s.joins : links(j)
        BY Zenon DEF Joined, Cell, ColumnsAt, TableAt
    <2> HIDE DEF links
    <2> QED
        BY <1>1, <2>1
<1>3. ASSUME NEW i \in Int
      PROVE  Linked(s, db, i, c) <=> (i > m => links(i - m))
    <2> DEFINE j == i - m
    <2>1. m + j = i
        BY <1>1
    <2>2. Linked(s, db, i, c) <=>
              (i > m => IF s.joins[j].natural
                        THEN \A h \in 1..(i - 1) : \A b \in ColumnsAt(s, h) \cap ColumnsAt(s, i) :
                                Cell(s, db, c, h, b) = Cell(s, db, c, i, b)
                        ELSE ValueIn(s, db, c, s.joins[j].left) = ValueIn(s, db, c, s.joins[j].right))
        BY DEF Linked
    <2>3. links(j) <=> IF s.joins[j].natural
                       THEN \A h \in 1..(i - 1) : \A b \in ColumnsAt(s, h) \cap ColumnsAt(s, i) :
                                Cell(s, db, c, h, b) = Cell(s, db, c, i, b)
                       ELSE ValueIn(s, db, c, s.joins[j].left) = ValueIn(s, db, c, s.joins[j].right)
        BY <2>1
    <2> HIDE DEF links, j
    <2>4. Linked(s, db, i, c) <=> (i > m => links(j))
        BY <2>2, <2>3
    <2> QED
        BY <2>4 DEF j
<1> HIDE DEF links, m, n, N
<1>4. ASSUME \A j \in 1..n : links(j), NEW i \in 2..N PROVE Linked(s, db, i, c)
    <2>1. i > m => i - m \in 1..n
        BY <1>1
    <2> QED
        BY <1>1, <1>3, <1>4, <2>1
<1>5. ASSUME \A i \in 2..N : Linked(s, db, i, c), NEW j \in 1..n PROVE links(j)
    <2>1. m + j \in 2..N /\ m + j > m /\ (m + j) - m = j /\ m + j \in Int
        BY <1>1
    <2> QED
        BY <1>3, <1>5, <2>1
<1>6. LinkedUpTo(s, db, N, c) <=> \A i \in 2..N : Linked(s, db, i, c)
    BY DEF LinkedUpTo
<1> QED
    BY <1>2, <1>4, <1>5, <1>6 DEF N

LEMMA ChosenIs ==
    ASSUME NEW s, Plain(s), NEW db, IsDatabase(db)
    PROVE  \A c : c \in Chosen(s, db) <=>
               c \in Partial(s, db, Width(s)) /\ SatisfiesAll(s, db, c, s.where)
<1> DEFINE N == Width(s)
           index == UNION {DOMAIN db[Sources(s)[i].table] : i \in DOMAIN Sources(s)}
<1>1. DOMAIN Sources(s) = 1..N
    BY SelectFacts
<1>2. ASSUME NEW i \in 1..N PROVE DOMAIN db[TableAt(s, i)] \in SUBSET Nat
    <2>1. TableAt(s, i) \in Tables
        BY SourcesAre
    <2>2. db[TableAt(s, i)] \in Seq(Rows(TableAt(s, i)))
        BY <2>1 DEF IsDatabase, IsTable
    <2> QED
        BY <2>2
<1>3. \A x : x \in index <=> \E i \in 1..N : x \in DOMAIN db[TableAt(s, i)]
    BY <1>1 DEF TableAt
<1>4. \A c : c \in Combinations(s, db) <=>
                c \in [1..N -> index] /\ \A i \in 1..N : c[i] \in DOMAIN db[TableAt(s, i)]
    BY <1>1 DEF Combinations, TableAt
<1> HIDE DEF index, N
<1>5. \A c : c \in Combinations(s, db) <=> c \in [1..N -> Nat] /\ InRange(s, db, N, c)
    BY <1>2, <1>3, <1>4 DEF InRange
<1>6. \A c : c \in Chosen(s, db) <=>
                c \in Combinations(s, db) /\ Joined(s, db, c) /\ SatisfiesAll(s, db, c, s.where)
    BY DEF Chosen
<1> QED
    BY <1>5, <1>6, JoinedIsLinked DEF Partial, N

(* A number of whatever type compared to a float, or two of one type.      *)
LEMMA FittingComparison ==
    ASSUME NEW v \in Values, NEW w \in Values, NEW op,
           \/ Type(v) \in {"string", "int"} /\ Type(w) = Type(v)
           \/ Type(v) = "float" /\ Type(w) # "string"
    PROVE  Compare(v, op, w) <=> (IsNumber(v) <=> IsNumber(w)) /\ Holds(op, Payload(v), Payload(w))
<1>1. CASE Type(v) \in {"string", "int"} /\ Type(w) = Type(v)
    <2>1. Compare(v, op, w) = Holds(op, Payload(v), Payload(w))
        BY <1>1, SameTypeComparison DEF ColumnTypes
    <2>2. IsNumber(v) <=> IsNumber(w)
        BY <1>1 DEF IsNumber
    <2> QED
        BY <2>1, <2>2
<1>2. CASE Type(v) = "float" /\ Type(w) # "string"
    <2>1. Type(w) \in {"int", "float", "double"}
        BY <1>2, ValueFacts
    <2>2. IsNumber(v) /\ IsNumber(w)
        BY <1>2, <2>1 DEF IsNumber
    <2>3. Compare(v, op, w) = Holds(op, Payload(v), Payload(w))
        BY <1>2, <2>2 DEF Compare
    <2> QED
        BY <2>2, <2>3
<1> QED
    BY <1>1, <1>2

(* A name of the statement is found in the row of a combination with what  *)
(* it means.                                                               *)
LEMMA UsedIsFound ==
    ASSUME NEW s, Plain(s), NEW db, IsDatabase(db), NEW c, c \in Partial(s, db, Width(s)),
           NEW row, Shows(s, db, Width(s), c, row), NEW n \in Used(s) \cup Asked(s)
    PROVE  /\ Found(row, n) # {} /\ ValueOf(row, n) = ValueIn(s, db, c, n)
           /\ \A x \in Found(row, n) : row.columns[x] = ValueIn(s, db, c, n)
           /\ ValueIn(s, db, c, n) \in Values /\ Type(ValueIn(s, db, c, n)) \in ColumnTypes
           /\ Type(ValueIn(s, db, c, n)) = TypeOf(s, n)
<1> DEFINE i == SourceOf(s, n)
           N == Width(s)
           v == Cell(s, db, c, i, Base(n))
<1>1. i \in 1..N /\ Base(n) \in ColumnsAt(s, i) /\ OfSource(s, n, N, i) /\ N \in 1..N
    BY UsedAreOf, WidthFacts
<1>2. ValueIn(s, db, c, n) = v
    BY DEF ValueIn, Cell, TableAt
<1>3. LinkedUpTo(s, db, N, c) /\ \A j \in 1..N : c[j] \in DOMAIN db[TableAt(s, j)]
    BY DEF Partial, InRange
<1>4. TypeOf(s, n) = Schemas[TableAt(s, i)].types[Base(n)]
    BY DEF TypeOf, TableAt
<1> HIDE DEF i
<1>5. v \in Values /\ Type(v) \in ColumnTypes /\ Type(v) = TypeOf(s, n)
    BY <1>1, <1>3, <1>4, CellFacts
<1>6. /\ Found(row, n) # {} /\ ValueOf(row, n) = v
      /\ \A x \in Found(row, n) : row.columns[x] = v
    BY <1>1, <1>3, FoundIs
<1> QED
    BY <1>2, <1>5, <1>6

LEMMA WhereFacts ==
    ASSUME NEW s, Plain(s)
    PROVE  /\ s.where \in Seq(Conditions) /\ Len(s.where) \in Nat /\ DOMAIN s.where = 1..Len(s.where)
           /\ \A i \in 1..Len(s.where) :
                 /\ s.where[i] \in Conditions /\ OperandIsPlain(s.where[i]) /\ OperandFits(s, s.where[i])
                 /\ s.where[i].column \in Used(s)
                 /\ s.where[i].isColumn => Payload(s.where[i].operand) \in Used(s)
                 /\ s.where[i].operand \in Values /\ s.where[i].isColumn \in BOOLEAN
                 /\ s.where[i].link \in {"AND", "OR"}
<1>1. s.where \in Seq(Conditions)
    BY PlainFacts DEF Selects
<1>2. Len(s.where) \in Nat /\ DOMAIN s.where = 1..Len(s.where) /\ \A i \in 1..Len(s.where) : s.where[i] \in Conditions
    BY <1>1, SequenceFacts
<1>3. \A i \in DOMAIN s.where : OperandIsPlain(s.where[i]) /\ OperandFits(s, s.where[i])
    BY PlainFacts DEF PlainSelect
<1>4. \A i \in DOMAIN s.where : s.where[i].column \in Used(s)
    BY DEF Used
<1>5. \A i \in DOMAIN s.where : s.where[i].isColumn => Payload(s.where[i].operand) \in Used(s)
    BY DEF Used
<1>6. \A w \in Conditions : w.operand \in Values /\ w.isColumn \in BOOLEAN /\ w.link \in {"AND", "OR"}
    BY DEF Conditions
<1> QED
    BY <1>1, <1>2, <1>3, <1>4, <1>5, <1>6

LEMMA EvaluatedIsSatisfied ==
    ASSUME NEW s, Plain(s), NEW db, IsDatabase(db), NEW c, c \in Partial(s, db, Width(s)),
           NEW row, Shows(s, db, Width(s), c, row), NEW i \in 1..Len(s.where)
    PROVE  evaluate_condition(row, parse_condition(s.where[i])) <=> Satisfies(s, db, c, s.where[i])
<1> DEFINE w == s.where[i]
           p == parse_condition(w)
           n == w.column
           m == Payload(w.operand)
           v == ValueIn(s, db, c, n)
           u == ValueIn(s, db, c, m)
           right == IF w.isColumn THEN u ELSE w.operand
<1>1. /\ OperandIsPlain(w) /\ OperandFits(s, w) /\ n \in Used(s)
      /\ (w.isColumn => m \in Used(s)) /\ w.operand \in Values /\ w.isColumn \in BOOLEAN
    BY WhereFacts
<1>2. p.column = n /\ p.operation = w.operation /\ p.operand = w.operand
    BY DEF parse_condition
<1>3. Satisfies(s, db, c, w) <=> (IsNumber(v) <=> IsNumber(right)) /\ Holds(w.operation, Payload(v), Payload(right))
    BY DEF Satisfies, Payload
<1> HIDE DEF w, p
<1>4. /\ Found(row, n) # {} /\ ValueOf(row, n) = v
      /\ v \in Values /\ Type(v) \in ColumnTypes /\ Type(v) = TypeOf(s, n)
    BY <1>1, UsedIsFound
<1>5. w.isColumn => /\ Found(row, m) # {} /\ ValueOf(row, m) = u
                    /\ u \in Values /\ Type(u) = TypeOf(s, m)
    BY <1>1, UsedIsFound
<1>6. w.isColumn <=> IsColumnReference(w.operand)
    BY <1>1 DEF OperandIsPlain
<1> HIDE DEF n, m, v, u
<1>7. right \in Values
    BY <1>1, <1>5
<1>8. \/ Type(v) \in {"string", "int"} /\ Type(right) = Type(v)
      \/ Type(v) = "float" /\ Type(right) # "string"
    <2> DEFINE type == TypeOf(s, n)
               other == IF w.isColumn THEN TypeOf(s, m) ELSE Type(w.operand)
    <2>1. (type \in {"string", "int"} /\ other = type) \/ (type = "float" /\ other # "string")
        BY <1>1 DEF OperandFits, n, m
    <2>2. Type(v) = type /\ Type(right) = other
        BY <1>1, <1>4, <1>5
    <2> HIDE DEF type, other, right
    <2> QED
        BY <2>1, <2>2
<1>9. evaluate_condition(row, p) <=> Compare(v, w.operation, right)
    <2>1. evaluate_condition(row, p) <=>
              /\ Found(row, n) # {}
              /\ IsColumnReference(w.operand) => Found(row, m) # {}
              /\ Compare(ValueOf(row, n), w.operation,
                         IF IsColumnReference(w.operand) THEN ValueOf(row, m) ELSE w.operand)
        BY <1>2 DEF evaluate_condition, m
    <2>2. (IF IsColumnReference(w.operand) THEN ValueOf(row, m) ELSE w.operand) = right
        BY <1>1, <1>5, <1>6
    <2> HIDE DEF right
    <2> QED
        BY <1>4, <1>5, <1>6, <2>1, <2>2
<1> HIDE DEF right
<1>10. Compare(v, w.operation, right) <=>
           (IsNumber(v) <=> IsNumber(right)) /\ Holds(w.operation, Payload(v), Payload(right))
    BY <1>4, <1>7, <1>8, FittingComparison
<1>11. evaluate_condition(row, p) <=> Satisfies(s, db, c, w)
    BY <1>3, <1>9, <1>10
<1> QED
    BY <1>11 DEF w, p

(* Some run of the first m conditions between two ORs holds.               *)
SomeRunHolds(s, db, c, m) ==
    \E first \in 1..m : \E last \in first..m :
        /\ first = 1 \/ s.where[first - 1].link = "OR"
        /\ last = m \/ s.where[last].link = "OR"
        /\ \A i \in first..last : Satisfies(s, db, c, s.where[i])

LEMMA RunsGrow ==
    ASSUME NEW s, Plain(s), NEW db, NEW c, NEW m \in Nat \ {0}, m + 1 \in 1..Len(s.where)
    PROVE  SomeRunHolds(s, db, c, m + 1) <=>
               IF s.where[m].link = "OR"
               THEN SomeRunHolds(s, db, c, m) \/ Satisfies(s, db, c, s.where[m + 1])
               ELSE SomeRunHolds(s, db, c, m) /\ Satisfies(s, db, c, s.where[m + 1])
<1> DEFINE sat(i) == Satisfies(s, db, c, s.where[i])
           or(i) == s.where[i].link = "OR"
           n == Len(s.where)
           k == m + 1
           R(l) == \E first \in 1..l : \E last \in first..l :
                      /\ first = 1 \/ or(first - 1)
                      /\ last = l \/ or(last)
                      /\ \A i \in first..last : sat(i)
<1>1. (SomeRunHolds(s, db, c, m) <=> R(m)) /\ (SomeRunHolds(s, db, c, k) <=> R(k))
    BY DEF SomeRunHolds
<1>2. n \in Nat /\ \A i \in 1..n : s.where[i].link = "AND" \/ or(i)
    BY WhereFacts
<1>3. \A i, j \in 1..n - 1 : i < j => ~or(i) \/ or(j)
    <2>1. LinksInOrder(s)
        BY PlainFacts
    <2>2. \A i, j \in 1..n - 1 : i < j => s.where[i].link = "AND" \/ or(j)
        BY <2>1 DEF LinksInOrder
    <2> QED
        BY <2>2
<1> HIDE DEF sat, or, n
<1>4. k \in Nat /\ m \in 1..n - 1 /\ k - 1 = m /\ k # 1 /\ m < k
    BY <1>2 DEF n
<1>5. CASE or(m)
    <2>1. ASSUME R(k) PROVE R(m) \/ sat(k)
        <3>0. PICK first \in 1..k : \E last \in first..k :
                  /\ first = 1 \/ or(first - 1)
                  /\ last = k \/ or(last)
                  /\ \A i \in first..last : sat(i)
            BY <2>1
        <3>1. PICK last \in first..k :
                  /\ first = 1 \/ or(first - 1)
                  /\ last = k \/ or(last)
                  /\ \A i \in first..last : sat(i)
            BY <3>0
        <3>2. CASE last = k
            <4>1. k \in first..last
                BY <3>2
            <4> QED
                BY <3>1, <4>1
        <3>3. CASE last # k
            <4>1. first \in 1..m /\ last \in first..m
                BY <3>3
            <4> QED
                BY <3>1, <3>3, <4>1
        <3> QED
            BY <3>2, <3>3
    <2>2. ASSUME R(m) PROVE R(k)
        <3>0. PICK first \in 1..m : \E last \in first..m :
                  /\ first = 1 \/ or(first - 1)
                  /\ last = m \/ or(last)
                  /\ \A i \in first..last : sat(i)
            BY <2>2
        <3>1. PICK last \in first..m :
                  /\ first = 1 \/ or(first - 1)
                  /\ last = m \/ or(last)
                  /\ \A i \in first..last : sat(i)
            BY <3>0
        <3>2. or(last)
            BY <1>5, <3>1
        <3>3. first \in 1..k /\ last \in first..k
            OBVIOUS
        <3> QED
            BY <3>1, <3>2, <3>3
    <2>3. ASSUME sat(k) PROVE R(k)
        <3>1. k \in 1..k /\ k \in k..k /\ \A i \in k..k : i = k
            BY <1>4
        <3>2. or(k - 1)
            BY <1>4, <1>5
        <3> HIDE DEF k
        <3>3. \A i \in k..k : sat(i)
            BY <2>3, <3>1
        <3> QED
            BY <3>1, <3>2, <3>3
    <2> HIDE DEF R, k
    <2>4. SomeRunHolds(s, db, c, k) <=> SomeRunHolds(s, db, c, m) \/ sat(k)
        BY <1>1, <2>1, <2>2, <2>3
    <2> QED
        BY <1>5, <2>4 DEF or, sat, k
<1>6. CASE ~or(m)
    <2>1. \A i \in 1..m : ~or(i)
        <3> TAKE i \in 1..m
        <3>1. i = m \/ (i \in 1..n - 1 /\ i < m)
            BY <1>2, <1>4
        <3> QED
            BY <1>3, <1>4, <1>6, <3>1
    <2>2. R(m) <=> \A i \in 1..m : sat(i)
        <3>1. ASSUME R(m) PROVE \A i \in 1..m : sat(i)
            <4>0. PICK first \in 1..m : \E last \in first..m :
                      /\ first = 1 \/ or(first - 1)
                      /\ last = m \/ or(last)
                      /\ \A i \in first..last : sat(i)
                BY <3>1
            <4>1. PICK last \in first..m :
                      /\ first = 1 \/ or(first - 1)
                      /\ last = m \/ or(last)
                      /\ \A i \in first..last : sat(i)
                BY <4>0
            <4>2. last \in 1..m /\ (first # 1 => first - 1 \in 1..m)
                OBVIOUS
            <4>3. first = 1 /\ last = m
                BY <2>1, <4>1, <4>2
            <4> QED
                BY <4>1, <4>3
        <3>2. ASSUME \A i \in 1..m : sat(i) PROVE R(m)
            <4>1. 1 \in 1..m /\ m \in 1..m
                OBVIOUS
            <4> QED
                BY <3>2, <4>1
        <3> QED
            BY <3>1, <3>2
    <2>3. R(k) <=> \A i \in 1..k : sat(i)
        <3>1. ASSUME R(k) PROVE \A i \in 1..k : sat(i)
            <4>0. PICK first \in 1..k : \E last \in first..k :
                      /\ first = 1 \/ or(first - 1)
                      /\ last = k \/ or(last)
                      /\ \A i \in first..last : sat(i)
                BY <3>1
            <4>1. PICK last \in first..k :
                      /\ first = 1 \/ or(first - 1)
                      /\ last = k \/ or(last)
                      /\ \A i \in first..last : sat(i)
                BY <4>0
            <4>2. (last # k => last \in 1..m) /\ (first # 1 => first - 1 \in 1..m)
                OBVIOUS
            <4>3. first = 1 /\ last = k
                BY <2>1, <4>1, <4>2
            <4> QED
                BY <4>1, <4>3
        <3>2. ASSUME \A i \in 1..k : sat(i) PROVE R(k)
            <4>1. 1 \in 1..k /\ k \in 1..k
                OBVIOUS
            <4> QED
                BY <3>2, <4>1
        <3> QED
            BY <3>1, <3>2
    <2>4. (\A i \in 1..k : sat(i)) <=> (\A i \in 1..m : sat(i)) /\ sat(k)
        <3>1. \A i : i \in 1..k <=> i \in 1..m \/ i = k
            OBVIOUS
        <3> HIDE DEF k
        <3> QED
            BY <3>1
    <2> HIDE DEF R, k
    <2>5. SomeRunHolds(s, db, c, k) <=> SomeRunHolds(s, db, c, m) /\ sat(k)
        BY <1>1, <2>2, <2>3, <2>4
    <2> QED
        BY <1>6, <2>5 DEF or, sat, k
<1> QED
    BY <1>5, <1>6

(* From left to right is as AND before OR when no AND comes after an OR.   *)
LEMMA SelectedIsSatisfied ==
    ASSUME NEW s, Plain(s), NEW db, IsDatabase(db), NEW c, c \in Partial(s, db, Width(s)),
           NEW row, Shows(s, db, Width(s), c, row), s.where # <<>>
    PROVE  Selected(row, parse_conditions(s.where)) <=> SatisfiesAll(s, db, c, s.where)
<1> DEFINE n == Len(s.where)
           conditions == parse_conditions(s.where)
           sat(i) == Satisfies(s, db, c, s.where[i])
<1>1. /\ s.where \in Seq(Conditions) /\ n \in Nat /\ DOMAIN s.where = 1..n
      /\ \A i \in 1..n : s.where[i].link \in {"AND", "OR"}
    BY WhereFacts
<1>2. n \in Nat \ {0}
    BY <1>1, NotEmpty
<1>3. /\ DOMAIN conditions = 1..n
      /\ \A i \in 1..n : /\ conditions[i] = parse_condition(s.where[i])
                         /\ conditions[i].logical_operator = s.where[i].link
    BY <1>1 DEF parse_conditions, parse_condition
<1>4. Len(conditions) = n
    <2> DEFINE R == Range(conditions)
    <2>1. conditions \in [1..n -> R]
        BY <1>1 DEF parse_conditions, Range
    <2> HIDE DEF R, conditions, n
    <2> QED
        BY <1>1, <2>1, FunctionIsSequence
<1>5. \A i \in 1..n : evaluate_condition(row, conditions[i]) <=> sat(i)
    BY <1>3, EvaluatedIsSatisfied
<1>6. SatisfiesAll(s, db, c, s.where) <=> SomeRunHolds(s, db, c, n)
    BY <1>1 DEF SatisfiesAll, SomeRunHolds
<1> HIDE DEF n, conditions, sat
<1>7. PICK g : Evaluates(row, conditions, n, g) /\ (Selected(row, conditions) <=> g[n])
    BY <1>2, <1>3, <1>4, SelectedIs
<1>8. /\ g \in [1..n -> BOOLEAN] /\ (g[1] <=> evaluate_condition(row, conditions[1]))
      /\ \A i \in 2..n :
            g[i] <=> IF conditions[i - 1].logical_operator = "OR"
                     THEN g[i - 1] \/ evaluate_condition(row, conditions[i])
                     ELSE g[i - 1] /\ evaluate_condition(row, conditions[i])
    BY <1>7 DEF Evaluates
<1> DEFINE S == {m \in 0..n : m = 0 \/ (g[m] <=> SomeRunHolds(s, db, c, m))}
<1>9. g[1] <=> SomeRunHolds(s, db, c, 1)
    <2>1. g[1] <=> sat(1)
        BY <1>2, <1>5, <1>8
    <2>2. SomeRunHolds(s, db, c, 1) <=> sat(1)
        <3>1. \A i : i \in 1..1 <=> i = 1
            OBVIOUS
        <3> QED
            BY <3>1 DEF SomeRunHolds, sat
    <2> QED
        BY <2>1, <2>2
<1>10. ASSUME NEW m \in 0..(n - 1), m \in S PROVE m + 1 \in S
    <2>1. m + 1 \in 0..n
        BY <1>2
    <2>2. CASE m = 0
        BY <1>9, <2>1, <2>2
    <2>3. CASE m # 0
        <3> DEFINE k == m + 1
        <3>1. k \in 2..n /\ k \in 1..n /\ k - 1 = m /\ m \in Nat \ {0} /\ m \in 1..n
            BY <1>2, <2>3
        <3>2. g[m] <=> SomeRunHolds(s, db, c, m)
            BY <1>10, <2>3
        <3>3. SomeRunHolds(s, db, c, k) <=>
                  IF s.where[m].link = "OR"
                  THEN SomeRunHolds(s, db, c, m) \/ sat(k)
                  ELSE SomeRunHolds(s, db, c, m) /\ sat(k)
            BY <3>1, RunsGrow DEF n, sat
        <3>4. conditions[m].logical_operator = s.where[m].link
            BY <1>3, <3>1
        <3> HIDE DEF k, S
        <3>5. g[k] <=> IF conditions[m].logical_operator = "OR"
                       THEN g[m] \/ evaluate_condition(row, conditions[k])
                       ELSE g[m] /\ evaluate_condition(row, conditions[k])
            BY <1>8, <3>1
        <3>6. evaluate_condition(row, conditions[k]) <=> sat(k)
            BY <1>5, <3>1
        <3>7. g[k] <=> SomeRunHolds(s, db, c, k)
            BY <3>2, <3>3, <3>4, <3>5, <3>6
        <3> QED
            BY <2>1, <3>7 DEF S, k
    <2> QED
        BY <2>2, <2>3
<1>11. 0 \in S
    BY <1>2
<1> HIDE DEF S
<1>12. \A m \in 0..n : m \in S
    BY <1>2, <1>10, <1>11, Upwards
<1>13. g[n] <=> SomeRunHolds(s, db, c, n)
    <2>1. n \in S
        BY <1>2, <1>12
    <2> QED
        BY <1>2, <2>1 DEF S
<1>14. Selected(row, conditions) <=> SatisfiesAll(s, db, c, s.where)
    BY <1>6, <1>7, <1>13
<1> QED
    BY <1>14 DEF conditions

(* Rows taken from others, each once.                                      *)
Taken(f, n, S, g, m, I, C, h) ==
    /\ n \in Nat /\ m \in Nat /\ Enumerates(f, n, S) /\ Enumerates(g, m, I) /\ I \in SUBSET (1..n)
    /\ \A x : x \in C <=> \E i \in I : x = f[i]
    /\ h = [i \in 1..m |-> f[g[i]]]

LEMMA TakenEnumerates ==
    ASSUME NEW f, NEW n, NEW S, NEW g, NEW m, NEW I, NEW C, NEW h, Taken(f, n, S, g, m, I, C, h)
    PROVE  Enumerates(h, m, C) /\ \A i \in 1..m : g[i] \in 1..n /\ h[i] = f[g[i]]
<1>1. /\ Enumerates(f, n, S) /\ Enumerates(g, m, I) /\ I \in SUBSET (1..n)
      /\ \A x : x \in C <=> \E i \in I : x = f[i]
      /\ h = [i \in 1..m |-> f[g[i]]]
    BY DEF Taken
<1>2. /\ \A i, j \in 1..n : f[i] = f[j] => i = j
      /\ \A i \in 1..m : g[i] \in I
      /\ \A i, j \in 1..m : g[i] = g[j] => i = j
      /\ \A x \in I : \E i \in 1..m : g[i] = x
    <2>1. Enumerates(f, n, S)
        BY <1>1
    <2>2. Enumerates(g, m, I)
        BY <1>1
    <2>3. \A i, j \in 1..n : f[i] = f[j] => i = j
        BY <2>1 DEF Enumerates
    <2>4. /\ \A i \in 1..m : g[i] \in I
          /\ \A i, j \in 1..m : g[i] = g[j] => i = j
          /\ \A x \in I : \E i \in 1..m : g[i] = x
        BY <2>2 DEF Enumerates
    <2> QED
        BY <2>3, <2>4
<1>3. \A i \in 1..m : g[i] \in 1..n /\ g[i] \in I /\ h[i] = f[g[i]] /\ h[i] \in C
    BY <1>1, <1>2
<1>4. h \in [1..m -> C]
    BY <1>1, <1>3
<1>5. \A i, j \in 1..m : h[i] = h[j] => i = j
    BY <1>2, <1>3
<1>6. \A x \in C : \E i \in 1..m : h[i] = x
    BY <1>1, <1>2, <1>3
<1> QED
    BY <1>3, <1>4, <1>5, <1>6 DEF Enumerates

LEMMA FilterLists ==
    ASSUME NEW s, Plain(s), NEW db, IsDatabase(db), NEW rows,
           Lists(s, db, Width(s), rows, Partial(s, db, Width(s)))
    PROVE  Lists(s, db, Width(s), apply_where_clause(rows, parse_conditions(s.where)), Chosen(s, db))
<1> DEFINE N == Width(s)
           conditions == parse_conditions(s.where)
           out == apply_where_clause(rows, conditions)
           P == Partial(s, db, N)
           C == Chosen(s, db)
           n == Len(rows)
<1>1. \A c : c \in C <=> c \in P /\ SatisfiesAll(s, db, c, s.where)
    BY ChosenIs
<1>2. DOMAIN s.where = 1..Len(s.where) /\ s.where \in Seq(Conditions)
    BY WhereFacts
<1>3. CASE s.where = <<>>
    <2>1. conditions = <<>>
        BY <1>3 DEF parse_conditions
    <2>2. out = rows
        BY <2>1 DEF apply_where_clause
    <2>3. \A c : c \in C <=> c \in P
        BY <1>1, <1>3 DEF SatisfiesAll
    <2> HIDE DEF C, P, out, N
    <2>4. C = P
        BY <2>3
    <2> QED
        BY <2>2, <2>4 DEF C, P, out, N
<1>4. CASE s.where # <<>>
    <2>1. conditions # <<>>
        <3>1. 1 \in DOMAIN s.where
            BY <1>2, <1>4, NotEmpty
        <3>2. 1 \in DOMAIN conditions
            BY <3>1 DEF parse_conditions
        <3> QED
            BY <3>2
    <2> DEFINE I == {i \in DOMAIN rows : Selected(rows[i], conditions)}
               m == Cardinality(I)
    <2>2. out = Sublist(rows, I)
        BY <2>1 DEF apply_where_clause
    <2>3. PICK f : ListedBy(s, db, N, rows, P, f)
        BY DEF Lists
    <2>4. /\ rows \in Seq(Range(rows)) /\ n \in Nat /\ DOMAIN rows = 1..n
          /\ Enumerates(f, n, P) /\ \A x \in 1..n : Shows(s, db, N, f[x], rows[x])
        BY <2>3, RangeFacts DEF ListedBy
    <2>5. /\ f \in [1..n -> P] /\ \A i \in 1..n : f[i] \in P
          /\ \A x \in P : \E i \in 1..n : f[i] = x
        BY <2>4, EnumeratedFacts
    <2>6. I \in SUBSET (DOMAIN rows) /\ \A i \in 1..n : i \in I <=> Selected(rows[i], conditions)
        BY <2>4
    <2> HIDE DEF I, n
    <2>7. \A i \in 1..n : i \in I <=> f[i] \in C
        <3> TAKE i \in 1..n
        <3>1. f[i] \in P /\ Shows(s, db, N, f[i], rows[i])
            BY <2>4, <2>5
        <3>2. Selected(rows[i], conditions) <=> SatisfiesAll(s, db, f[i], s.where)
            BY <1>4, <3>1, SelectedIsSatisfied
        <3> QED
            BY <1>1, <2>6, <3>1, <3>2
    <2> HIDE DEF conditions, out, P, C, N
    <2> DEFINE R == Range(rows)
    <2>8. rows \in Seq(R)
        BY <2>4
    <2> HIDE DEF R
    <2>9. PICK g : Enumerates(g, m, I) /\ \A i \in 1..m : out[i] = rows[g[i]]
        BY <2>2, <2>6, <2>8, SublistIs
    <2>10. m \in Nat /\ out \in Seq(R) /\ Len(out) = m
        BY <2>2, <2>6, <2>8, SublistIs
    <2>11. out \in Seq(Range(out))
        <3> DEFINE Q == Range(out)
        <3>1. DOMAIN out = 1..m /\ out = [x \in 1..m |-> out[x]]
            BY <2>10
        <3>2. out \in [1..m -> Q]
            BY <3>1 DEF Range
        <3> HIDE DEF Q
        <3> QED
            BY <2>10, <3>2, FunctionIsSequence DEF Q
    <2> HIDE DEF m
    <2> DEFINE h == [i \in 1..m |-> f[g[i]]]
    <2>12. \A x : x \in C <=> \E i \in I : x = f[i]
        BY <1>1, <2>4, <2>5, <2>6, <2>7
    <2>13. I \in SUBSET (1..n)
        BY <2>4, <2>6
    <2>14. Taken(f, n, P, g, m, I, C, h)
        BY <2>4, <2>9, <2>10, <2>12, <2>13 DEF Taken
    <2> HIDE DEF h
    <2>15. Enumerates(h, m, C) /\ \A i \in 1..m : g[i] \in 1..n /\ h[i] = f[g[i]]
        BY <2>14, TakenEnumerates
    <2>16. \A x \in 1..m : Shows(s, db, N, h[x], out[x])
        BY <2>4, <2>9, <2>15
    <2>17. ListedBy(s, db, N, out, C, h)
        BY <2>10, <2>11, <2>15, <2>16 DEF ListedBy
    <2>18. Lists(s, db, N, out, C)
        BY <2>17 DEF Lists
    <2> QED
        BY <2>18 DEF out, C, N, conditions
<1> QED
    BY <1>3, <1>4

(* The order of the rows.                                                  *)
KeyOf(s, db, c) == ValueIn(s, db, c, s.order)

InOrder(s, db, f, n) ==
    s.order # Star =>
        \A i \in 1..n : \A j \in i + 1..n : ~Before(s, KeyOf(s, db, f[j]), KeyOf(s, db, f[i]))

ListsInOrder(s, db, rows) ==
    \E f : ListedBy(s, db, Width(s), rows, Chosen(s, db), f) /\ InOrder(s, db, f, Len(rows))

LEMMA OrderHeading ==
    ASSUME NEW s, Plain(s), s.order # Star, NEW db, IsDatabase(db), NEW c,
           c \in Partial(s, db, Width(s)), NEW row, Shows(s, db, Width(s), c, row)
    PROVE  /\ s.order \in DOMAIN row.columns /\ row.columns[s.order] = KeyOf(s, db, c)
           /\ Type(row.columns[s.order]) = TypeOf(s, s.order)
<1> DEFINE n == s.order
           i == SourceOf(s, n)
           b == Base(n)
           N == Width(s)
<1>1. n \in Used(s)
    BY DEF Used
<1>2. OrderIsFound(s)
    BY PlainFacts
<1>3. n = Heading(s, i, b)
    BY <1>2 DEF OrderIsFound
<1>4. i \in 1..N /\ N \in 1..N /\ OfSource(s, n, N, i)
    BY <1>1, UsedAreOf, WidthFacts
<1>5. b \in Kept(s, i)
    BY <1>4 DEF OfSource
<1>6. n = HeadName(s, N, i, b)
    <2>1. CASE N # 1
        BY <1>3, <2>1 DEF HeadName
    <2>2. CASE N = 1
        <3>1. Len(s.from) = 1 /\ DOMAIN s.joins = {}
            <4> DEFINE m == Len(s.from)
                       j == Len(s.joins)
            <4>1. m \in Nat \ {0} /\ j \in Nat /\ DOMAIN s.joins = 1..j /\ N = m + j
                BY SelectFacts
            <4> HIDE DEF m, j, N
            <4>2. m = 1 /\ j = 0
                BY <2>2, <4>1
            <4>3. DOMAIN s.joins = {}
                BY <4>1, <4>2
            <4> QED
                BY <4>2, <4>3 DEF m
        <3>2. ~InNatural(s, i)
            BY <3>1 DEF InNatural
        <3>3. ~(Len(s.from) > 1)
            BY <3>1
        <3>4. Heading(s, i, b) = <<AliasAt(s, i), b>>
            BY <3>2, <3>3 DEF Heading, AliasAt
        <3> QED
            BY <1>3, <2>2, <3>4 DEF HeadName
    <2> QED
        BY <2>1, <2>2
<1> HIDE DEF i, b
<1>7. n \in DOMAIN row.columns
    BY <1>4, <1>5, <1>6 DEF Shows
<1>8. Found(row, n) = {n}
    BY <1>7 DEF Found
<1>9. /\ \A x \in Found(row, n) : row.columns[x] = ValueIn(s, db, c, n)
      /\ Type(ValueIn(s, db, c, n)) = TypeOf(s, n)
    BY <1>1, UsedIsFound
<1> QED
    BY <1>7, <1>8, <1>9 DEF KeyOf

LEMMA RearrangementsEnumerate ==
    ASSUME NEW n \in Nat, NEW p \in SetToSeqs(1..n)
    PROVE  Enumerates(p, n, 1..n)
<1> DEFINE D == 1..n
<1>1. IsFiniteSet(D) /\ Cardinality(D) = n
    BY FS_Interval
<1>2. p \in [D -> D] /\ \A i, j \in D : i # j => p[i] # p[j]
    BY <1>1 DEF SetToSeqs
<1> HIDE DEF D
<1>3. p \in Injection(D, D)
    BY <1>2 DEF Injection, IsInjective
<1>4. p \in Surjection(D, D)
    BY <1>1, <1>3, FS_Injection
<1>5. \A x \in D : \E i \in D : p[i] = x
    BY <1>4 DEF Surjection
<1>6. /\ p \in [1..n -> D] /\ \A i, j \in 1..n : p[i] = p[j] => i = j
      /\ \A x \in D : \E i \in 1..n : p[i] = x
    BY <1>2, <1>5 DEF D
<1> QED
    BY <1>6 DEF Enumerates, D

LEMMA OrderedLists ==
    ASSUME NEW s, Plain(s), NEW db, IsDatabase(db), NEW rows,
           Lists(s, db, Width(s), rows, Chosen(s, db)),
           NEW out \in IF s.order = Star THEN {rows} ELSE OrderedVersions(rows, s.order, s.ascending)
    PROVE  ListsInOrder(s, db, out)
<1> DEFINE N == Width(s)
           C == Chosen(s, db)
           n == Len(rows)
           o == s.order
<1>1. PICK f : ListedBy(s, db, N, rows, C, f)
    BY DEF Lists
<1>2. /\ rows \in Seq(Range(rows)) /\ n \in Nat /\ DOMAIN rows = 1..n
      /\ Enumerates(f, n, C) /\ \A x \in 1..n : Shows(s, db, N, f[x], rows[x])
    BY <1>1, RangeFacts DEF ListedBy
<1>3. \A i \in 1..n : f[i] \in C
    BY <1>2, EnumeratedFacts
<1>4. CASE o = Star
    <2>1. out = rows
        BY <1>4
    <2>2. InOrder(s, db, f, n)
        BY <1>4 DEF InOrder
    <2> QED
        BY <1>1, <2>1, <2>2 DEF ListsInOrder
<1>5. CASE o # Star /\ rows = <<>>
    <2>1. out = rows
        BY <1>5 DEF OrderedVersions
    <2>2. 1..n = {}
        BY <1>5
    <2>3. InOrder(s, db, f, n)
        BY <2>2 DEF InOrder
    <2> QED
        BY <1>1, <2>1, <2>3 DEF ListsInOrder
<1>6. CASE o # Star /\ rows # <<>>
    <2>1. \A x \in 1..n : /\ o \in DOMAIN rows[x].columns /\ rows[x].columns[o] = KeyOf(s, db, f[x])
                          /\ Type(rows[x].columns[o]) = TypeOf(s, o)
        <3> TAKE x \in 1..n
        <3>1. f[x] \in Partial(s, db, N)
            BY <1>3, ChosenIs
        <3> QED
            BY <1>2, <1>6, <3>1, OrderHeading
    <2>2. 1 \in 1..n
        BY <1>2, <1>6, NotEmpty
    <2> DEFINE before(x, y) == IF s.ascending THEN Payload(x) < Payload(y) ELSE Payload(x) > Payload(y)
               versions == {[i \in DOMAIN rows |-> rows[p[i]]] : p \in SetToSeqs(DOMAIN rows)}
               alike == \A row \in Range(rows) :
                            o \in DOMAIN row.columns /\ Type(row.columns[o]) = Type(rows[1].columns[o])
    <2>3. alike
        <3>1. ASSUME NEW row \in Range(rows)
              PROVE  o \in DOMAIN row.columns /\ Type(row.columns[o]) = Type(rows[1].columns[o])
            <4>1. PICK x \in 1..n : row = rows[x]
                BY <1>2 DEF Range
            <4> QED
                BY <2>1, <2>2, <4>1
        <3> QED
            BY <3>1
    <2>4. out \in {v \in versions :
                      alike => \A i \in DOMAIN v : \A j \in i + 1..Len(v) :
                                   ~before(v[j].columns[o], v[i].columns[o])}
        <3>1. ~(rows = <<>> \/ o \notin DOMAIN rows[1].columns) /\ o # Star
            BY <1>6, <2>1, <2>2
        <3>2. out \in OrderedVersions(rows, o, s.ascending)
            BY <3>1
        <3> QED
            BY <3>1, <3>2 DEF OrderedVersions
    <2> HIDE DEF before, alike
    <2>5. out \in versions
        BY <2>4
    <2>6. \A i \in DOMAIN out : \A j \in i + 1..Len(out) : ~before(out[j].columns[o], out[i].columns[o])
        BY <2>3, <2>4
    <2>7. PICK p \in SetToSeqs(DOMAIN rows) : out = [i \in DOMAIN rows |-> rows[p[i]]]
        BY <2>5
    <2> HIDE DEF n, o, C, N
    <2>8. Enumerates(p, n, 1..n)
        <3>1. p \in SetToSeqs(1..n)
            BY <1>2
        <3> QED
            BY <1>2, <3>1, RearrangementsEnumerate
    <2> DEFINE h == [i \in 1..n |-> f[p[i]]]
    <2>9. \A x : x \in C <=> \E i \in 1..n : x = f[i]
        BY <1>2, <1>3, EnumeratedFacts
    <2>10. Taken(f, n, C, p, n, 1..n, C, h)
        BY <1>2, <2>8, <2>9 DEF Taken
    <2> HIDE DEF h
    <2>11. Enumerates(h, n, C) /\ \A i \in 1..n : p[i] \in 1..n /\ h[i] = f[p[i]]
        BY <2>10, TakenEnumerates
    <2>12. DOMAIN out = 1..n /\ \A i \in 1..n : out[i] = rows[p[i]]
        BY <1>2, <2>7
    <2>13. out \in Seq(Range(out)) /\ Len(out) = n
        <3> DEFINE Q == Range(out)
        <3>1. out = [x \in 1..n |-> out[x]]
            BY <1>2, <2>7
        <3>2. out \in [1..n -> Q]
            BY <2>12, <3>1 DEF Range
        <3> HIDE DEF Q
        <3> QED
            BY <1>2, <3>2, FunctionIsSequence DEF Q
    <2>14. \A x \in 1..n : Shows(s, db, N, h[x], out[x])
        BY <1>2, <2>11, <2>12
    <2>15. ListedBy(s, db, N, out, C, h)
        BY <2>11, <2>13, <2>14 DEF ListedBy
    <2>16. \A x \in 1..n : out[x].columns[o] = KeyOf(s, db, h[x])
        BY <2>1, <2>11, <2>12
    <2>17. \A x, y : before(x, y) <=> Before(s, x, y)
        BY DEF before, Before
    <2>18. ASSUME NEW i \in 1..n, NEW j \in i + 1..n
           PROVE  ~Before(s, KeyOf(s, db, h[j]), KeyOf(s, db, h[i]))
        <3>1. j \in 1..n
            BY <1>2
        <3>2. ~before(out[j].columns[o], out[i].columns[o])
            BY <2>6, <2>12, <2>13
        <3> QED
            BY <2>16, <2>17, <3>1, <3>2
    <2>19. InOrder(s, db, h, n)
        BY <2>18 DEF InOrder
    <2> QED
        BY <2>13, <2>15, <2>19 DEF ListsInOrder, N, C
<1> QED
    BY <1>4, <1>5, <1>6

(* The answer.                                                             *)
ShownAs(s, row) ==
    [f \in Fields(s) |-> IF Found(row, f) = {} THEN <<"missing", 0>> ELSE ValueOf(row, f)]

(* A row of the answer: as it is, or with the columns of the SELECT list.  *)
Final(s, row) ==
    IF s.select = <<>> THEN row
    ELSE Projected(row, parse_select_query(s).select_columns, parse_select_query(s).select_aliases)

LEMMA FoundInAll ==
    ASSUME NEW s, Plain(s), NEW db, NEW c, LinkedUpTo(s, db, Width(s), c),
           NEW row, Shows(s, db, Width(s), c, row), NEW n, NEW i, OfSource(s, n, Width(s), i)
    PROVE  Found(row, n) # {} /\ ValueOf(row, n) = Cell(s, db, c, i, Base(n))
<1> DEFINE N == Width(s)
<1>1. N \in 1..N
    BY WidthFacts
<1> QED
    BY <1>1, FoundIs

LEMMA WholeRowIsShown ==
    ASSUME NEW s, Plain(s), s.select = <<>>, NEW db, IsDatabase(db),
           NEW c, c \in Partial(s, db, Width(s)), NEW row, Shows(s, db, Width(s), c, row)
    PROVE  ShownAs(s, row) = Answer(s, db, c)
<1> DEFINE N == Width(s)
<1>1. N \in 1..N /\ DOMAIN Sources(s) = 1..N /\ LinkedUpTo(s, db, N, c)
    <2>1. N \in Nat \ {0} /\ DOMAIN Sources(s) = 1..N
        BY WidthFacts, SelectFacts
    <2>2. LinkedUpTo(s, db, N, c)
        BY DEF Partial
    <2> HIDE DEF N
    <2> QED
        BY <2>1, <2>2
<1>2. Fields(s) = UNION {{<<Label(src), col>> : col \in ColumnsOf(src.table)} : src \in Range(Sources(s))}
    BY DEF Fields
<1>3. ASSUME NEW x \in Fields(s)
      PROVE  Found(row, x) # {} /\ ValueOf(row, x) = ValueIn(s, db, c, Expression(s, x))
    <2>1. PICK src \in Range(Sources(s)) : x \in {<<Label(src), col>> : col \in ColumnsOf(src.table)}
        BY <1>2
    <2>2. PICK i \in 1..N : src = Sources(s)[i]
        BY <1>1 DEF Range
    <2>3. PICK b \in ColumnsAt(s, i) : x = <<LabelAt(s, i), b>>
        BY <2>1, <2>2 DEF ColumnsAt, TableAt, LabelAt
    <2>4. Base(x) = b /\ Qualifier(x) = LabelAt(s, i) /\ x = <<Qualifier(x), Base(x)>>
        BY <2>3, PairNames
    <2>5. \A j \in 1..N : LabelAt(s, j) # NoName /\ (LabelAt(s, j) = LabelAt(s, i) => j = i)
        BY SourcesAre
    <2> HIDE DEF N
    <2>6. \A j : j \in Candidates(s, x) <=>
              j \in 1..N /\ b \in ColumnsAt(s, j) /\ Qualifier(x) \in {NoName, LabelAt(s, j)}
        BY <2>4, CandidateFacts DEF N
    <2>7. \A j : j \in Candidates(s, x) <=> j = i
        BY <2>4, <2>5, <2>6
    <2>8. SourceOf(s, x) = i
        BY <2>7, CandidateFacts
    <2>9. b \in Kept(s, i)
        BY DEF Kept
    <2>10. OfSource(s, x, N, i)
        BY <2>4, <2>7, <2>9 DEF OfSource
    <2>11. Found(row, x) # {} /\ ValueOf(row, x) = Cell(s, db, c, i, Base(x))
        <3>1. LinkedUpTo(s, db, Width(s), c) /\ OfSource(s, x, Width(s), i)
            BY <1>1, <2>10 DEF N
        <3> QED
            BY <3>1, FoundInAll
    <2>12. Expression(s, x) = x
        BY DEF Expression
    <2>13. ValueIn(s, db, c, x) = Cell(s, db, c, i, Base(x))
        BY <2>8 DEF ValueIn, Cell, TableAt
    <2> QED
        BY <2>11, <2>12, <2>13
<1> QED
    BY <1>3 DEF ShownAs, Answer

LEMMA ItemFacts ==
    ASSUME NEW s, Plain(s), s.select # <<>>
    PROVE  /\ Len(s.select) \in Nat /\ DOMAIN s.select = 1..Len(s.select)
           /\ \A i \in DOMAIN s.select :
                 s.select[i].column \in Asked(s) /\ Qualifier(s.select[i].column) = NoName
           /\ \A i, j \in DOMAIN s.select :
                 Name(s.select[i].label) = Name(s.select[j].label) => i = j
           /\ Fields(s) = {Name(s.select[i].label) : i \in DOMAIN s.select}
           /\ \A i \in DOMAIN s.select : Expression(s, Name(s.select[i].label)) = s.select[i].column
<1> DEFINE D == DOMAIN s.select
           label(i) == Name(s.select[i].label)
<1>1. Len(s.select) \in Nat /\ D = 1..Len(s.select)
    <2> DEFINE R == [column : ColumnNames, label : STRING]
    <2>1. s \in Selects
        BY PlainFacts
    <2>2. s.select \in Seq(R)
        BY <2>1 DEF Selects
    <2> HIDE DEF R
    <2> QED
        BY <2>2, SequenceFacts
<1>2. \A i \in D : s.select[i].column \in Asked(s)
    BY DEF Asked
<1>3. /\ \A n \in Asked(s) : Qualifier(n) = NoName
      /\ \A i, j \in D : s.select[i].label = s.select[j].label => i = j
    BY PlainFacts DEF KeepsColumns
<1>4. \A i, j \in D : label(i) = label(j) => i = j
    BY <1>3, NameFacts
<1>5. Fields(s) = {label(i) : i \in D}
    BY DEF Fields
<1>6. \A f : Expression(s, f) = s.select[CHOOSE i \in D : label(i) = f].column
    BY DEF Expression
<1> HIDE DEF label, D
<1>7. \A i \in D : Expression(s, label(i)) = s.select[i].column
    <2> TAKE i \in D
    <2>1. (CHOOSE j \in D : label(j) = label(i)) = i
        BY <1>4
    <2> QED
        BY <1>6, <2>1
<1> QED
    BY <1>1, <1>2, <1>3, <1>4, <1>5, <1>7 DEF D, label

LEMMA ProjectedIsShown ==
    ASSUME NEW s, Plain(s), s.select # <<>>, NEW db, IsDatabase(db),
           NEW c, c \in Partial(s, db, Width(s)), NEW row, Shows(s, db, Width(s), c, row)
    PROVE  ShownAs(s, Final(s, row)) = Answer(s, db, c)
<1> DEFINE D == DOMAIN s.select
           item(i) == s.select[i].column
           label(i) == Name(s.select[i].label)
           columns == [i \in D |-> item(i)]
           labels == [i \in D |-> label(i)]
           found == {i \in DOMAIN columns : Source(row, columns[i]) # {}}
           last(n) == CHOOSE i \in found : labels[i] = n /\ \A j \in found : labels[j] = n => j <= i
           g == [n \in {labels[i] : i \in found} |->
                    row.columns[CHOOSE k \in Source(row, columns[last(n)]) : TRUE]]
           out == Final(s, row)
<1>1. /\ D \in SUBSET Nat
      /\ \A i \in D : item(i) \in Asked(s) /\ Qualifier(item(i)) = NoName
      /\ \A i, j \in D : label(i) = label(j) => i = j
      /\ Fields(s) = {label(i) : i \in D}
      /\ \A i \in D : Expression(s, label(i)) = item(i)
    BY ItemFacts
<1>2. out = [row EXCEPT !.columns = g]
    <2>1. /\ parse_select_query(s).select_columns = columns
          /\ parse_select_query(s).select_aliases = labels
        BY DEF parse_select_query
    <2>2. out = Projected(row, columns, labels)
        BY <2>1 DEF Final
    <2> HIDE DEF columns, labels, out
    <2> QED
        BY <2>2 DEF Projected
<1>3. row = [table |-> TableAt(s, 1), columns |-> row.columns]
    BY DEF Shows
<1> HIDE DEF g
<1>4. out.columns = g
    BY <1>2, <1>3
<1> HIDE DEF out
<1>5. ASSUME NEW i \in D
      PROVE  /\ Source(row, item(i)) # {}
             /\ \A x \in Source(row, item(i)) : row.columns[x] = ValueIn(s, db, c, item(i))
    <2>1. /\ Found(row, item(i)) # {}
          /\ \A x \in Found(row, item(i)) : row.columns[x] = ValueIn(s, db, c, item(i))
        BY <1>1, UsedIsFound
    <2>2. Qualifier(item(i)) = NoName
        BY <1>1
    <2> HIDE DEF item
    <2>3. Source(row, item(i)) = Found(row, item(i))
        BY <2>2 DEF Source, Found
    <2> QED
        BY <2>1, <2>3
<1> HIDE DEF D, item, label
<1>6. found = D /\ \A i \in D : columns[i] = item(i) /\ labels[i] = label(i)
    BY <1>5
<1>7. g = [n \in {labels[i] : i \in found} |->
              row.columns[CHOOSE k \in Source(row, columns[last(n)]) : TRUE]]
    BY DEF g
<1> HIDE DEF columns, labels, found
<1>8. ASSUME NEW i \in D PROVE last(label(i)) = i
    <2>1. \A j \in D : labels[j] = label(i) => j = i
        BY <1>1, <1>6
    <2>2. i \in Nat /\ i <= i
        BY <1>1
    <2>3. i \in found /\ labels[i] = label(i) /\ \A j \in found : labels[j] = label(i) => j <= i
        BY <1>6, <2>1, <2>2
    <2> QED
        BY <1>6, <2>1, <2>3
<1>9. ASSUME NEW i \in D
      PROVE  label(i) \in DOMAIN g /\ g[label(i)] = ValueIn(s, db, c, item(i))
    <2> DEFINE n == label(i)
               k == CHOOSE x \in Source(row, item(i)) : TRUE
    <2>1. n \in {labels[j] : j \in found}
        BY <1>6
    <2>2. columns[last(n)] = item(i)
        BY <1>6, <1>8
    <2> HIDE DEF last, n
    <2>3. n \in DOMAIN g /\ g[n] = row.columns[CHOOSE x \in Source(row, columns[last(n)]) : TRUE]
        BY <1>7, <2>1
    <2>4. g[n] = row.columns[k]
        BY <2>2, <2>3
    <2>5. row.columns[k] = ValueIn(s, db, c, item(i))
        BY <1>5
    <2> QED
        BY <2>3, <2>4, <2>5 DEF n
<1> HIDE DEF last
<1>10. ASSUME NEW x \in Fields(s)
       PROVE  Found(out, x) # {} /\ ValueOf(out, x) = ValueIn(s, db, c, Expression(s, x))
    <2>1. PICK i \in D : x = label(i)
        BY <1>1
    <2>2. x \in DOMAIN g /\ g[x] = ValueIn(s, db, c, item(i)) /\ Expression(s, x) = item(i)
        BY <1>1, <1>9, <2>1
    <2>3. Found(out, x) = {x}
        BY <1>4, <2>2 DEF Found
    <2> QED
        BY <1>4, <2>2, <2>3, OneFound
<1> HIDE DEF g
<1>11. ShownAs(s, out) = Answer(s, db, c)
    BY <1>10 DEF ShownAs, Answer
<1> QED
    BY <1>11 DEF out

(* How many rows the limit leaves.                                         *)
SizeOf(limit, n) == IF limit < 0 \/ limit > n THEN n ELSE limit

LEMMA LimitFacts ==
    ASSUME NEW R, NEW rows \in Seq(R), NEW limit \in Int, limit # 0
    PROVE  /\ SizeOf(limit, Len(rows)) \in 0..Len(rows)
           /\ apply_limit(rows, limit) \in Seq(R)
           /\ Len(apply_limit(rows, limit)) = SizeOf(limit, Len(rows))
           /\ \A i \in 1..SizeOf(limit, Len(rows)) : apply_limit(rows, limit)[i] = rows[i]
<1> DEFINE n == Len(rows)
           out == apply_limit(rows, limit)
<1>1. n \in Nat
    OBVIOUS
<1>2. CASE limit <= 0 \/ limit >= n
    <2>1. out = rows
        BY <1>2 DEF apply_limit
    <2>2. SizeOf(limit, n) = n
        BY <1>1, <1>2 DEF SizeOf
    <2> QED
        BY <1>1, <2>1, <2>2
<1>3. CASE ~(limit <= 0 \/ limit >= n)
    <2>1. out = SubSeq(rows, 1, limit)
        BY <1>3 DEF apply_limit
    <2>2. limit \in 1..n /\ SizeOf(limit, n) = limit
        BY <1>1, <1>3 DEF SizeOf
    <2> QED
        BY <2>1, <2>2
<1> QED
    BY <1>2, <1>3

(* LimitRows for the statement.                                            *)
Answered(s, rows) ==
    LET q == parse_select_query(s)
        limited == apply_limit(rows, q.limit_value)
    IN  IF q.select_columns = <<Star>> THEN limited
        ELSE [i \in DOMAIN limited |-> Projected(limited[i], q.select_columns, q.select_aliases)]

LEMMA AnsweredIs ==
    ASSUME NEW s, Plain(s), NEW rows
    PROVE  Answered(s, rows) =
               IF s.select = <<>> THEN apply_limit(rows, s.limit)
               ELSE [i \in DOMAIN apply_limit(rows, s.limit) |-> Final(s, apply_limit(rows, s.limit)[i])]
<1> DEFINE columns == parse_select_query(s).select_columns
           aliases == parse_select_query(s).select_aliases
           limited == apply_limit(rows, s.limit)
<1>1. Answered(s, rows) = IF columns = <<Star>> THEN limited
                          ELSE [i \in DOMAIN limited |-> Projected(limited[i], columns, aliases)]
    BY DEF Answered, parse_select_query
<1>2. s.select = <<>> => columns = <<Star>>
    BY DEF parse_select_query
<1>3. ASSUME s.select # <<>> PROVE columns # <<Star>>
    <2>1. columns = [i \in DOMAIN s.select |-> s.select[i].column]
        BY <1>3 DEF parse_select_query
    <2>2. \A i \in DOMAIN s.select : Qualifier(s.select[i].column) = NoName
        BY <1>3, ItemFacts
    <2> HIDE DEF columns
    <2>3. \A i \in DOMAIN columns : columns[i] # Star
        BY <2>1, <2>2, StarFacts
    <2>4. DOMAIN <<Star>> = {1} /\ <<Star>>[1] = Star
        OBVIOUS
    <2> QED
        BY <2>3, <2>4
<1>4. s.select # <<>> => \A i : Final(s, limited[i]) = Projected(limited[i], columns, aliases)
    BY DEF Final
<1> HIDE DEF columns, aliases, limited
<1>5. Answered(s, rows) = IF s.select = <<>> THEN limited ELSE [i \in DOMAIN limited |-> Final(s, limited[i])]
    BY <1>1, <1>2, <1>3, <1>4
<1> QED
    BY <1>5 DEF limited

LEMMA EnumeratedCardinality ==
    ASSUME NEW f, NEW n \in Nat, NEW S, Enumerates(f, n, S)
    PROVE  Cardinality(S) = n
<1> DEFINE D == 1..n
<1>1. /\ f \in [D -> S] /\ \A i, j \in D : f[i] = f[j] => i = j
      /\ \A x \in S : \E i \in D : f[i] = x
    BY EnumeratedFacts
<1> HIDE DEF D
<1>2. f \in Bijection(D, S)
    BY <1>1 DEF Bijection, Injection, Surjection, IsInjective
<1>3. ExistsBijection(1..n, S)
    BY <1>2 DEF ExistsBijection, D
<1> QED
    BY <1>3, FS_CountingElements

Answers(s, db, out) == IsAnswer(s, db, [i \in DOMAIN out |-> ShownAs(s, out[i])])

LEMMA AnswersInOrder ==
    ASSUME NEW s, Plain(s), NEW db, IsDatabase(db), NEW rows, ListsInOrder(s, db, rows)
    PROVE  Answers(s, db, Answered(s, rows))
<1> DEFINE N == Width(s)
           C == Chosen(s, db)
           n == Len(rows)
           size == SizeOf(s.limit, n)
           limited == apply_limit(rows, s.limit)
           out == Answered(s, rows)
           answer == [i \in DOMAIN out |-> ShownAs(s, out[i])]
<1>1. PICK f : ListedBy(s, db, N, rows, C, f) /\ InOrder(s, db, f, n)
    BY DEF ListsInOrder
<1>2. /\ rows \in Seq(Range(rows)) /\ n \in Nat /\ Enumerates(f, n, C)
      /\ \A x \in 1..n : Shows(s, db, N, f[x], rows[x])
    BY <1>1, RangeFacts DEF ListedBy
<1>3. /\ \A i \in 1..n : f[i] \in C
      /\ \A i, j \in 1..n : f[i] = f[j] => i = j
      /\ \A c \in C : \E i \in 1..n : f[i] = c
    BY <1>2, EnumeratedFacts
<1>4. Cardinality(C) = n
    BY <1>2, EnumeratedCardinality
<1>5. s.limit \in Int /\ s.limit # 0
    BY PlainFacts DEF Selects
<1>6. /\ size \in 0..n /\ Len(limited) = size /\ DOMAIN limited = 1..size
      /\ \A i \in 1..size : limited[i] = rows[i]
    <2> DEFINE R == Range(rows)
    <2>1. rows \in Seq(R)
        BY <1>2
    <2> HIDE DEF R, size, limited
    <2>2. /\ size \in 0..n /\ limited \in Seq(R) /\ Len(limited) = size
          /\ \A i \in 1..size : limited[i] = rows[i]
        BY <1>5, <2>1, LimitFacts DEF size, limited
    <2>3. DOMAIN limited = 1..Len(limited)
        BY <2>2, SequenceFacts
    <2> QED
        BY <2>2, <2>3
<1>7. \A i \in 1..size : i \in 1..n
    BY <1>2, <1>6
<1> HIDE DEF N, C, size, n, limited
<1>8. DOMAIN out = 1..size /\ \A i \in 1..size : out[i] = Final(s, rows[i])
    <2>1. out = IF s.select = <<>> THEN limited ELSE [i \in DOMAIN limited |-> Final(s, limited[i])]
        BY AnsweredIs DEF limited
    <2>2. s.select = <<>> => \A row : Final(s, row) = row
        BY DEF Final
    <2> HIDE DEF out
    <2> QED
        BY <1>6, <2>1, <2>2
<1> HIDE DEF out
<1>9. DOMAIN answer = 1..size /\ \A i \in 1..size : answer[i] = Answer(s, db, f[i])
    <2>1. ASSUME NEW i \in 1..size PROVE ShownAs(s, out[i]) = Answer(s, db, f[i])
        <3>1. Shows(s, db, N, f[i], rows[i]) /\ f[i] \in C
            BY <1>2, <1>3, <1>7
        <3>2. f[i] \in Partial(s, db, N)
            BY <3>1, ChosenIs DEF C, N
        <3>3. CASE s.select = <<>>
            <4>1. Final(s, rows[i]) = rows[i]
                BY <3>3 DEF Final
            <4>2. ShownAs(s, rows[i]) = Answer(s, db, f[i])
                BY <3>1, <3>2, <3>3, WholeRowIsShown DEF N
            <4> QED
                BY <1>8, <4>1, <4>2
        <3>4. CASE s.select # <<>>
            <4>1. ShownAs(s, Final(s, rows[i])) = Answer(s, db, f[i])
                BY <3>1, <3>2, <3>4, ProjectedIsShown DEF N
            <4> QED
                BY <1>8, <4>1
        <3> QED
            BY <3>3, <3>4
    <2> QED
        BY <1>8, <2>1
<1>10. Len(answer) = size
    <2> DEFINE Q == Range(answer)
    <2>1. answer \in [1..size -> Q]
        BY <1>8, <1>9 DEF Range
    <2>2. size \in Nat
        BY <1>2, <1>6
    <2> HIDE DEF Q, answer
    <2> QED
        BY <2>1, <2>2, FunctionIsSequence
<1> HIDE DEF answer
<1> DEFINE pick == [i \in 1..size |-> f[i]]
<1>11. pick \in [1..size -> C] /\ \A i \in 1..size : pick[i] = f[i]
    BY <1>3, <1>7
<1>12. \A i, j \in 1..size : i # j => pick[i] # pick[j]
    BY <1>3, <1>7, <1>11
<1>13. \A i \in 1..size : Answer(s, db, pick[i]) = answer[i]
    BY <1>9, <1>11
<1>14. ASSUME s.order # Star
       PROVE  /\ \A i \in 1..size : \A j \in i + 1..size :
                    ~Before(s, KeyOf(s, db, pick[j]), KeyOf(s, db, pick[i]))
              /\ \A c \in C \ Range(pick) : \A i \in 1..size :
                    ~Before(s, KeyOf(s, db, c), KeyOf(s, db, pick[i]))
    <2>1. \A i \in 1..n : \A j \in i + 1..n : ~Before(s, KeyOf(s, db, f[j]), KeyOf(s, db, f[i]))
        BY <1>1, <1>14 DEF InOrder
    <2>2. ASSUME NEW i \in 1..size, NEW j \in i + 1..size
          PROVE  ~Before(s, KeyOf(s, db, pick[j]), KeyOf(s, db, pick[i]))
        <3>1. i \in 1..n /\ j \in i + 1..n /\ j \in 1..size
            BY <1>2, <1>6
        <3>2. pick[i] = f[i] /\ pick[j] = f[j]
            BY <1>11, <3>1
        <3> HIDE DEF pick
        <3> QED
            BY <2>1, <3>1, <3>2
    <2>3. ASSUME NEW c \in C \ Range(pick), NEW i \in 1..size
          PROVE  ~Before(s, KeyOf(s, db, c), KeyOf(s, db, pick[i]))
        <3>1. PICK j \in 1..n : f[j] = c
            BY <1>3
        <3>2. j \notin 1..size
            <4> SUFFICES ASSUME j \in 1..size PROVE FALSE
                OBVIOUS
            <4>1. pick[j] = c /\ j \in DOMAIN pick
                BY <1>11, <3>1
            <4> HIDE DEF pick
            <4> QED
                BY <4>1 DEF Range
        <3>3. i \in 1..n /\ j \in i + 1..n
            BY <1>2, <1>6, <3>2
        <3>4. pick[i] = f[i]
            BY <1>11
        <3> HIDE DEF pick
        <3> QED
            BY <2>1, <3>1, <3>3, <3>4
    <2> QED
        BY <2>2, <2>3
<1>15. IsAnswer(s, db, answer)
    <2> HIDE DEF pick
    <2>1. (IF s.limit < 0 \/ s.limit > Cardinality(C) THEN Cardinality(C) ELSE s.limit) = size
        BY <1>4 DEF size, SizeOf
    <2>2. /\ Len(answer) = size
          /\ \E p \in [1..size -> C] :
                /\ \A i, j \in 1..size : i # j => p[i] # p[j]
                /\ \A i \in 1..size : Answer(s, db, p[i]) = answer[i]
                /\ s.order # Star =>
                      /\ \A i \in 1..size : \A j \in i + 1..size :
                            ~Before(s, KeyOf(s, db, p[j]), KeyOf(s, db, p[i]))
                      /\ \A c \in C \ Range(p) : \A i \in 1..size :
                            ~Before(s, KeyOf(s, db, c), KeyOf(s, db, p[i]))
        BY <1>10, <1>11, <1>12, <1>13, <1>14
    <2>3. IsAnswer(s, db, answer) <=>
              LET z == IF s.limit < 0 \/ s.limit > Cardinality(C) THEN Cardinality(C) ELSE s.limit
              IN  /\ Len(answer) = z
                  /\ \E p \in [1..z -> C] :
                        /\ \A i, j \in 1..z : i # j => p[i] # p[j]
                        /\ \A i \in 1..z : Answer(s, db, p[i]) = answer[i]
                        /\ s.order # Star =>
                              /\ \A i \in 1..z : \A j \in i + 1..z :
                                    ~Before(s, KeyOf(s, db, p[j]), KeyOf(s, db, p[i]))
                              /\ \A c \in C \ Range(p) : \A i \in 1..z :
                                    ~Before(s, KeyOf(s, db, c), KeyOf(s, db, p[i]))
        BY DEF IsAnswer, KeyOf, C
    <2> QED
        BY <2>1, <2>2, <2>3
<1> QED
    BY <1>15 DEF Answers, answer, out

-----------------------------------------------------------------------------
(* A SELECT, step by step.                                                 *)

ReadUpTo(s, db, n, reads) == reads \in Seq(Range(reads)) /\ AllRead(s, db, n, reads)

LEMMA OneMoreRead ==
    ASSUME NEW s, Plain(s), IsDatabase(tables), NEW n \in Nat, n + 1 \in 1..Width(s),
           NEW reads, ReadUpTo(s, tables, n, reads)
    PROVE  ReadUpTo(s, tables, n + 1, Append(reads, RowsRead(s, n + 1)))
<1> DEFINE rows == RowsRead(s, n + 1)
           R == Range(reads) \cup {rows}
           more == Append(reads, rows)
           m == n + 1
<1>1. /\ Reads(s, tables, m, rows)
      /\ \A r \in 1..Len(rows) : IsRecordOf(TableAt(s, m), rows[r])
    BY RowsReadAre
<1>2. /\ reads \in Seq(Range(reads)) /\ Len(reads) = n
      /\ \A i \in 1..n : Reads(s, tables, i, reads[i])
      /\ n # 0 => \A r \in 1..Len(reads[1]) : IsRecordOf(TableAt(s, 1), reads[1][r])
    BY DEF ReadUpTo, AllRead
<1> HIDE DEF rows
<1>3. reads \in Seq(R) /\ rows \in R
    <2> DEFINE Q == Range(reads)
    <2>1. reads \in Seq(Q)
        BY <1>2
    <2> HIDE DEF Q
    <2>2. reads \in Seq(Q \cup {rows})
        BY <2>1
    <2> QED
        BY <2>2 DEF Q
<1> HIDE DEF R
<1>4. /\ more \in Seq(R) /\ Len(more) = m /\ DOMAIN more = 1..m
      /\ more[m] = rows /\ \A i \in 1..n : more[i] = reads[i]
    BY <1>2, <1>3, AppendFacts
<1> HIDE DEF more
<1>5. more \in Seq(Range(more))
    <2>1. more \in [1..Len(more) -> R]
        BY <1>4, SequenceFacts
    <2>2. more \in [1..m -> Range(more)] /\ m \in Nat
        BY <1>4, <2>1 DEF Range
    <2> QED
        BY <2>2, FunctionIsSequence
<1>6. ASSUME NEW i \in 1..m PROVE Reads(s, tables, i, more[i])
    <2>1. i = m \/ i \in 1..n
        OBVIOUS
    <2> HIDE DEF m
    <2> QED
        BY <1>1, <1>2, <1>4, <2>1
<1>7. \A r \in 1..Len(more[1]) : IsRecordOf(TableAt(s, 1), more[1][r])
    <2>1. CASE n = 0
        <3>1. m = 1
            BY <2>1
        <3> HIDE DEF m
        <3> QED
            BY <1>1, <1>4, <3>1
    <2>2. CASE n # 0
        <3>1. 1 \in 1..n
            BY <2>2
        <3> HIDE DEF m
        <3> QED
            BY <1>2, <1>4, <2>2, <3>1
    <2> QED
        BY <2>1, <2>2
<1> HIDE DEF m
<1>8. AllRead(s, tables, m, more)
    BY <1>4, <1>6, <1>7 DEF AllRead
<1>9. ReadUpTo(s, tables, m, more)
    BY <1>5, <1>8 DEF ReadUpTo
<1> QED
    BY <1>9 DEF m, more, rows

(* What a plain SELECT has come to, at each stage.                         *)
Progress(st, s, db, reads, rows) ==
    /\ st = "read" => Len(reads) \in Nat /\ Len(reads) < Width(s) /\ ReadUpTo(s, db, Len(reads), reads)
    /\ st = "join" => AllRead(s, db, Width(s), reads)
    /\ st = "where" => Lists(s, db, Width(s), rows, Partial(s, db, Width(s)))
    /\ st = "order" => Lists(s, db, Width(s), rows, Chosen(s, db))
    /\ st = "limit" => ListsInOrder(s, db, rows)
    /\ st = "done" => Answers(s, db, rows)

LEMMA ParsedProgresses ==
    ASSUME NEW s, Plain(s), NEW db, NEW rows
    PROVE  Progress("read", s, db, <<>>, rows)
<1>1. Len(<<>>) = 0 /\ DOMAIN <<>> = 1..0 /\ <<>> \in Seq(Range(<<>>)) /\ 1..0 = {}
    OBVIOUS
<1>2. Width(s) \in Nat \ {0}
    BY WidthFacts
<1> DEFINE empty == <<>>
<1>3. AllRead(s, db, 0, empty)
    BY <1>1 DEF AllRead
<1>4. ReadUpTo(s, db, 0, empty)
    BY <1>1, <1>3 DEF ReadUpTo
<1>5. 0 < Width(s)
    <2> DEFINE N == Width(s)
    <2>1. N \in Nat \ {0}
        BY <1>2
    <2> HIDE DEF N
    <2>2. 0 < N
        BY <2>1
    <2> QED
        BY <2>2 DEF N
<1> QED
    BY <1>1, <1>4, <1>5 DEF Progress

LEMMA TablesNamed ==
    ASSUME NEW s, Plain(s)
    PROVE  /\ Len(parse_select_query(s).from_tables) = Width(s)
           /\ \A i \in 1..Width(s) : parse_select_query(s).from_tables[i] = TableAt(s, i)
<1> DEFINE N == Width(s)
           names == [i \in 1..N |-> TableAt(s, i)]
           R == Range(names)
<1>1. DOMAIN Sources(s) = 1..N /\ N \in Nat
    BY SelectFacts
<1>2. parse_select_query(s).from_tables = names
    BY <1>1 DEF parse_select_query, parse_from_clause, TableAt
<1>3. names \in [1..N -> R]
    BY DEF Range
<1>4. \A i \in 1..N : names[i] = TableAt(s, i)
    OBVIOUS
<1> HIDE DEF N, R, names
<1>5. Len(names) = N
    BY <1>1, <1>3, FunctionIsSequence
<1> QED
    BY <1>2, <1>4, <1>5 DEF N

LEMMA ReadingProgresses ==
    ASSUME Plain(sql), IsDatabase(tables), pq = parse_select_query(sql),
           Progress(stage, sql, tables, read, result), ReadTable
    PROVE  Progress(stage', sql, tables, read', result')
<1> DEFINE N == Width(sql)
           n == Len(read)
           m == n + 1
           rows == RowsRead(sql, n + 1)
           more == Append(read, RowsRead(sql, n + 1))
<1>1. n \in Nat /\ n < N /\ ReadUpTo(sql, tables, n, read)
    BY DEF Progress, ReadTable
<1>2. N \in Nat \ {0}
    BY WidthFacts
<1>3. m \in 1..N /\ (m < N \/ m = N)
    <2> HIDE DEF N, n
    <2> QED
        BY <1>1, <1>2
<1>4. Len(pq.from_tables) = N /\ pq.from_tables[m] = TableAt(sql, m)
    BY <1>3, TablesNamed
<1>5. read' = more
    <2>1. read' = Append(read,
              apply_table_aliases(
                  full_scan(pq.from_tables[m],
                            [i \in DOMAIN pq.select_columns |->
                                resolve_aliased_column(pq.select_columns[i], pq.table_aliases)]),
                  pq.from_tables[m], pq.table_aliases))
        BY DEF ReadTable
    <2>2. [i \in DOMAIN pq.select_columns |->
              resolve_aliased_column(pq.select_columns[i], pq.table_aliases)] = AskedOf(sql)
        BY DEF AskedOf
    <2> QED
        BY <1>4, <2>1, <2>2 DEF RowsRead
<1>6. ReadUpTo(sql, tables, m, more)
    BY <1>1, <1>3, OneMoreRead
<1>7. /\ result' = read'[1]
      /\ stage' = IF Len(read') < N THEN "read" ELSE IF Len(read') > 1 THEN "join" ELSE "where"
    BY <1>4 DEF ReadTable
<1> HIDE DEF more, N
<1>8. AllRead(sql, tables, m, read')
    BY <1>5, <1>6 DEF ReadUpTo
<1>9. Len(read') = m
    BY <1>8 DEF AllRead
<1>10. CASE m < N
    <2>1. stage' = "read"
        BY <1>7, <1>9, <1>10
    <2>2. m \in Nat /\ ReadUpTo(sql, tables, m, read')
        BY <1>3, <1>5, <1>6
    <2> HIDE DEF m
    <2> QED
        BY <1>9, <1>10, <2>1, <2>2 DEF Progress, N
<1>11. CASE m = N /\ m > 1
    <2>1. stage' = "join"
        <3>1. ~(m < N)
            BY <1>1, <1>11
        <3> HIDE DEF m
        <3> QED
            BY <1>7, <1>9, <1>11, <3>1
    <2> HIDE DEF m
    <2>2. AllRead(sql, tables, Width(sql), read')
        BY <1>8, <1>11 DEF N
    <2> QED
        BY <2>1, <2>2 DEF Progress
<1>12. CASE m = N /\ ~(m > 1)
    <2>1. ~(m < N) /\ m = 1
        BY <1>1, <1>12
    <2> HIDE DEF m
    <2>2. stage' = "where"
        BY <1>7, <1>9, <1>12, <2>1
    <2>3. /\ Reads(sql, tables, 1, read'[1])
          /\ \A r \in 1..Len(read'[1]) : IsRecordOf(TableAt(sql, 1), read'[1][r])
        BY <1>8, <2>1 DEF AllRead
    <2>4. Lists(sql, tables, 1, read'[1], Partial(sql, tables, 1))
        BY <2>3, FirstLists
    <2>5. Lists(sql, tables, Width(sql), result', Partial(sql, tables, Width(sql)))
        BY <1>7, <1>12, <2>1, <2>4 DEF N
    <2> QED
        BY <2>2, <2>5 DEF Progress
<1> QED
    BY <1>3, <1>10, <1>11, <1>12

LEMMA SelectProgresses ==
    ASSUME Plain(sql), IsDatabase(tables), pq = parse_select_query(sql),
           Progress(stage, sql, tables, read, result),
           JoinTables \/ FilterRows \/ OrderRows \/ LimitRows
    PROVE  Progress(stage', sql, tables, read', result')
<1> DEFINE N == Width(sql)
<1>1. /\ pq.join_clauses = sql.joins /\ pq.where_conditions = parse_conditions(sql.where)
      /\ pq.order_by_column = sql.order /\ pq.order_ascending = sql.ascending
      /\ pq.limit_value = sql.limit
    BY DEF parse_select_query
<1>2. ASSUME JoinTables PROVE Progress(stage', sql, tables, read', result')
    <2>1. stage = "join" /\ stage' = "where"
        BY <1>2 DEF JoinTables
    <2>2. result' = JoinedRows(read, sql.joins)
        BY <1>1, <1>2 DEF JoinTables, JoinedRows
    <2>3. AllRead(sql, tables, N, read)
        BY <2>1 DEF Progress
    <2>4. Lists(sql, tables, N, result', Partial(sql, tables, N))
        BY <2>2, <2>3, JoinsList
    <2> QED
        BY <2>1, <2>4 DEF Progress
<1>3. ASSUME FilterRows PROVE Progress(stage', sql, tables, read', result')
    <2>1. /\ stage = "where" /\ stage' = "order"
          /\ result' = apply_where_clause(result, parse_conditions(sql.where))
        BY <1>1, <1>3 DEF FilterRows
    <2>2. Lists(sql, tables, N, result, Partial(sql, tables, N))
        BY <2>1 DEF Progress
    <2>3. Lists(sql, tables, N, result', Chosen(sql, tables))
        BY <2>1, <2>2, FilterLists
    <2> QED
        BY <2>1, <2>3 DEF Progress
<1>4. ASSUME OrderRows PROVE Progress(stage', sql, tables, read', result')
    <2>1. /\ stage = "order" /\ stage' = "limit"
          /\ result' \in IF sql.order = Star THEN {result}
                         ELSE OrderedVersions(result, sql.order, sql.ascending)
        BY <1>1, <1>4 DEF OrderRows
    <2>2. Lists(sql, tables, N, result, Chosen(sql, tables))
        BY <2>1 DEF Progress
    <2>3. ListsInOrder(sql, tables, result')
        BY <2>1, <2>2, OrderedLists
    <2> QED
        BY <2>1, <2>3 DEF Progress
<1>5. ASSUME LimitRows PROVE Progress(stage', sql, tables, read', result')
    <2>1. stage = "limit" /\ stage' = "done" /\ result' = Answered(sql, result)
        BY <1>5 DEF LimitRows, Answered
    <2>2. ListsInOrder(sql, tables, result)
        BY <2>1 DEF Progress
    <2>3. Answers(sql, tables, result')
        BY <2>1, <2>2, AnswersInOrder
    <2> QED
        BY <2>1, <2>3 DEF Progress
<1> QED
    BY <1>2, <1>3, <1>4, <1>5

(* While every change was a plain one, a plain SELECT is always on its way *)
(* to what it means.                                                       *)
SelectsProgress ==
    exact /\ sql.kind = "select" /\ PlainSelect(sql) => Progress(stage, sql, tables, read, result)

LEMMA SelectsGoOn ==
    ASSUME Consistent, SelectsProgress, [Next]_vars
    PROVE  SelectsProgress'
<1> SUFFICES ASSUME exact', sql'.kind = "select", PlainSelect(sql')
             PROVE  Progress(stage', sql', tables', read', result')
    BY DEF SelectsProgress
<1>1. CASE UNCHANGED vars
    <2>1. UNCHANGED <<exact, sql, stage, tables, read, result>>
        BY <1>1 DEF vars
    <2>2. Progress(stage, sql, tables, read, result)
        BY <2>1 DEF SelectsProgress
    <2> QED
        BY <2>1, <2>2
<1>2. ASSUME NEW s \in Written, Parse(s) PROVE Progress(stage', sql', tables', read', result')
    <2>1. sql' = s /\ read' = <<>> /\ stage' = IF s.kind = "select" THEN "read" ELSE "change"
        BY <1>2 DEF Parse
    <2>2. s \in Selects
        BY <2>1, KindFacts
    <2>3. Plain(s) /\ stage' = "read"
        BY <2>1, <2>2 DEF Plain
    <2> QED
        BY <2>1, <2>3, ParsedProgresses
<1>3. ASSUME ReadTable \/ JoinTables \/ FilterRows \/ OrderRows \/ LimitRows
      PROVE  Progress(stage', sql', tables', read', result')
    <2>1. stage \in {"read", "join", "where", "order", "limit"} /\ UNCHANGED <<tables, sql, exact>>
        BY <1>3 DEF ReadTable, JoinTables, FilterRows, OrderRows, LimitRows, Unchanged
    <2>2. sql \in Written /\ pq = sql_parser(sql) /\ IsDatabase(tables)
        BY <2>1 DEF Consistent
    <2>3. Plain(sql) /\ pq = parse_select_query(sql)
        BY <2>1, <2>2, KindFacts DEF Plain
    <2>4. Progress(stage, sql, tables, read, result)
        BY <2>1 DEF SelectsProgress
    <2>5. Progress(stage', sql, tables, read', result')
        BY <1>3, <2>2, <2>3, <2>4, ReadingProgresses, SelectProgresses
    <2> QED
        BY <2>1, <2>5
<1>4. ASSUME Return PROVE Progress(stage', sql', tables', read', result')
    BY <1>4 DEF Return, Progress
<1>5. ASSUME execute_insert \/ execute_update \/ execute_delete PROVE FALSE
    <2>1. pq.kind # "select" /\ stage = "change" /\ sql' = sql
        BY <1>5 DEF execute_insert, execute_update, execute_delete, Changed
    <2>2. sql \in Written /\ pq = sql_parser(sql)
        BY <2>1 DEF Consistent
    <2>3. pq.kind = sql.kind
        BY <2>2, KindFacts
    <2> QED
        BY <2>1, <2>3
<1> QED
    BY <1>1, <1>2, <1>3, <1>4, <1>5 DEF Next

(* What the client gets for a plain SELECT is an answer that the SELECT    *)
(* means, for all schemas, tables and statements: rows of the combinations *)
(* that meet its joins and conditions, each once, in the order asked for,  *)
(* and as many as the limit says.                                          *)
THEOREM SelectsAlwaysExact == Spec => []SelectsAreExact
<1>1. Init => SelectsProgress
    BY DEF Init, SelectsProgress, Progress
<1>2. SelectsProgress => SelectsAreExact
    <2> SUFFICES ASSUME SelectsProgress, exact, stage = "done", sql.kind = "select", PlainSelect(sql)
                 PROVE  IsAnswer(sql, tables, [i \in DOMAIN result |-> Shown(result[i])])
        BY DEF SelectsAreExact
    <2>1. Answers(sql, tables, result)
        BY DEF SelectsProgress, Progress
    <2>2. \A row : Shown(row) = ShownAs(sql, row)
        BY DEF Shown, ShownAs
    <2>3. [i \in DOMAIN result |-> Shown(result[i])] = [i \in DOMAIN result |-> ShownAs(sql, result[i])]
        BY <2>2
    <2> QED
        BY <2>1, <2>3 DEF Answers
<1>3. Spec => []SelectsProgress
    BY <1>1, SelectsGoOn, AlwaysConsistent, PTL DEF Spec
<1> QED
    BY <1>2, <1>3, PTL
=============================================================================

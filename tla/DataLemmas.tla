----------------------------- MODULE DataLemmas -----------------------------
(***************************************************************************)
(* Facts about data that several proofs need: the order of the naturals,   *)
(* the folds of the community modules, sums over finite sets, and what     *)
(* FlattenSeq makes of a sequence of sequences.  The provers cannot        *)
(* instantiate the library's induction theorems, which take an operator,   *)
(* so induction is stated for sets, and a fold is what the end of a trace  *)
(* of its steps is.                                                        *)
(***************************************************************************)
EXTENDS Integers, Sequences, SequencesExt, FiniteSetsExt, FiniteSetTheorems,
        WellFoundedInduction, TLAPS


(* A nonempty set of naturals has a least element.                         *)
LEMMA LeastNatural ==
    ASSUME NEW S \in SUBSET Nat, S # {}
    PROVE  \E m \in S : \A n \in S : m =< n
<1> DEFINE less == {p \in Nat \X Nat : p[1] < p[2]}
<1>1. OpToRel(<, Nat) = less
    BY Zenon DEF OpToRel
<1>2. IsWellFoundedOn(less, Nat)
    BY <1>1, NatLessThanWellFounded, Zenon
<1>3. PICK m \in S : \A n \in S : <<n, m>> \notin less
    <2> HIDE DEF less
    <2> QED
        BY <1>2, WFMin
<1>4. ASSUME NEW n \in S PROVE m =< n
    <2>1. m \in Nat /\ n \in Nat
        OBVIOUS
    <2>2. n < m => <<n, m>> \in less
        BY <2>1
    <2> QED
        BY <1>3, <2>1, <2>2
<1> QED
    BY <1>4

(* A nonempty set of naturals up to N has a greatest element.              *)
LEMMA GreatestBelow ==
    ASSUME NEW N \in Nat, NEW S \in SUBSET (0..N), S # {}
    PROVE  \E m \in S : \A n \in S : n =< m
<1> DEFINE T == {N - n : n \in S}
<1>1. T \in SUBSET Nat /\ T # {}
    <2>1. ASSUME NEW n \in S PROVE N - n \in Nat
        <3>1. n \in 0..N
            OBVIOUS
        <3> QED
            BY <3>1
    <2>2. T \in SUBSET Nat
        BY <2>1, Zenon
    <2>3. PICK n : n \in S
        OBVIOUS
    <2>4. N - n \in T
        BY <2>3
    <2> QED
        BY <2>2, <2>4
<1>2. PICK k \in T : \A n \in T : k =< n
    <2> HIDE DEF T
    <2> QED
        BY <1>1, LeastNatural
<1>3. PICK m \in S : k = N - m
    OBVIOUS
<1>4. ASSUME NEW n \in S PROVE n =< m
    <2>1. k =< N - n
        BY <1>2
    <2> QED
        BY <1>3, <2>1
<1> QED
    BY <1>4

-----------------------------------------------------------------------------
(* Induction over the naturals, for a property given as a set.             *)
LEMMA NatInduct ==
    ASSUME NEW S, 0 \in S, \A n \in Nat : n \in S => n + 1 \in S
    PROVE  \A n \in Nat : n \in S
<1> SUFFICES ASSUME NEW k \in Nat, k \notin S PROVE FALSE
    OBVIOUS
<1> DEFINE B == {n \in Nat : n \notin S}
<1>1. PICK m \in B : \A n \in B : m =< n
    <2> B \in SUBSET Nat /\ B # {}
        OBVIOUS
    <2> HIDE DEF B
    <2> QED
        BY LeastNatural
<1>2. m - 1 \in Nat /\ m - 1 \in S
    BY <1>1
<1> QED
    BY <1>1, <1>2

(* Induction upwards from 0 to N, for a property given as a set.           *)
LEMMA Upwards ==
    ASSUME NEW N \in Nat, NEW S, 0 \in S, \A n \in 0..(N - 1) : n \in S => n + 1 \in S
    PROVE  \A n \in 0..N : n \in S
<1> DEFINE T == {n \in Nat : n =< N => n \in S}
<1>1. 0 \in T
    OBVIOUS
<1>2. ASSUME NEW n \in Nat, n \in T PROVE n + 1 \in T
    BY <1>2
<1>3. \A n \in Nat : n \in T
    <2> HIDE DEF T
    <2> QED
        BY <1>1, <1>2, NatInduct
<1> QED
    BY <1>3

(* Induction downwards from N + 1 to 1, for a property given as a set.     *)
LEMMA Downwards ==
    ASSUME NEW N \in Nat, NEW S, N + 1 \in S, \A n \in 1..N : n + 1 \in S => n \in S
    PROVE  \A n \in 1..(N + 1) : n \in S
<1> DEFINE T == {n \in Nat : n =< N => N + 1 - n \in S}
<1>1. 0 \in T
    OBVIOUS
<1>2. ASSUME NEW n \in Nat, n \in T PROVE n + 1 \in T
    <2> SUFFICES ASSUME n + 1 =< N PROVE N + 1 - (n + 1) \in S
        OBVIOUS
    <2>1. N + 1 - n \in S
        BY <1>2
    <2>2. N - n \in 1..N /\ (N - n) + 1 = N + 1 - n
        OBVIOUS
    <2>3. N - n \in S
        BY <2>1, <2>2
    <2> QED
        BY <2>3
<1>3. \A n \in Nat : n \in T
    <2> HIDE DEF T
    <2> QED
        BY <1>1, <1>2, NatInduct
<1>4. ASSUME NEW n \in 1..(N + 1) PROVE n \in S
    <2>1. N + 1 - n \in Nat /\ N + 1 - n =< N /\ N + 1 - (N + 1 - n) = n
        OBVIOUS
    <2> QED
        BY <1>3, <2>1
<1> QED
    BY <1>4

(* The greatest of some numbers up to n + 1 that include n + 1.            *)
LEMMA MaxUpTo ==
    ASSUME NEW n \in Nat, NEW t \in SUBSET (1..(n + 1)), n + 1 \in t
    PROVE  Max(t) = n + 1 /\ t \ {n + 1} \in SUBSET (1..n)
<1>1. \A m \in t : (\A k \in t : m >= k) => m = n + 1
    OBVIOUS
<1>2. \A k \in t : n + 1 >= k
    OBVIOUS
<1>3. Max(t) = n + 1
    BY <1>1, <1>2 DEF Max
<1>4. ASSUME NEW k \in t, k # n + 1 PROVE k \in 1..n
    BY <1>4
<1> QED
    BY <1>3, <1>4

(* The least of some numbers from n on that include n.                     *)
LEMMA MinFrom ==
    ASSUME NEW N \in Nat, NEW n \in 1..N, NEW t \in SUBSET (n..N), n \in t
    PROVE  Min(t) = n /\ t \ {n} \in SUBSET ((n + 1)..N)
<1>1. \A m \in t : (\A k \in t : m =< k) => m = n
    OBVIOUS
<1>2. \A k \in t : n =< k
    OBVIOUS
<1>3. Min(t) = n
    BY <1>1, <1>2 DEF Min
<1>4. ASSUME NEW k \in t, k # n PROVE k \in (n + 1)..N
    BY <1>4
<1> QED
    BY <1>3, <1>4

(* The functions of the steps of a fold over N elements.                   *)
FoldSteps(X, N, step) == N \in Nat /\ step \in [1..N -> [X -> X]]

(* f satisfies the equation of a fold from the left, or from the right.    *)
FitsLeft(X, N, b, step, f) ==
    /\ f \in [SUBSET (1..N) -> X]
    /\ \A t \in SUBSET (1..N) :
           f[t] = IF t = {} THEN b ELSE step[Max(t)][f[t \ {Max(t)}]]

FitsRight(X, N, b, step, f) ==
    /\ f \in [SUBSET (1..N) -> X]
    /\ \A t \in SUBSET (1..N) :
           f[t] = IF t = {} THEN b ELSE step[Min(t)][f[t \ {Min(t)}]]

(* There is a function on the sets of numbers up to N that satisfies the   *)
(* equation by which FoldLeft is computed, so the CHOOSE of                *)
(* MapThenFoldSet has a witness.                                           *)
LEMMA LeftFoldsExist ==
    ASSUME NEW X, NEW N, NEW b \in X, NEW step, FoldSteps(X, N, step)
    PROVE  \E f : FitsLeft(X, N, b, step, f)
<1> USE DEF FoldSteps
<1> DEFINE Fits(n, f) ==
               f = [t \in SUBSET (1..n) |->
                        IF t = {} THEN b ELSE step[Max(t)][f[t \ {Max(t)}]]]
           S == {n \in 0..N : \E f \in [SUBSET (1..n) -> X] : Fits(n, f)}
<1>1. 0 \in S
    <2> DEFINE f == [t \in SUBSET (1..0) |-> b]
    <2>1. SUBSET (1..0) = {{}}
        OBVIOUS
    <2>2. Fits(0, f)
        BY <2>1
    <2> QED
        BY <2>2
<1>2. ASSUME NEW n \in 0..(N - 1), n \in S
      PROVE  n + 1 \in S
    <2>1. PICK g \in [SUBSET (1..n) -> X] : Fits(n, g)
        BY <1>2
    <2> DEFINE f == [t \in SUBSET (1..(n + 1)) |->
                        IF n + 1 \in t THEN step[n + 1][g[t \ {n + 1}]] ELSE g[t]]
    <2>2. ASSUME NEW t \in SUBSET (1..(n + 1)), n + 1 \in t
          PROVE  Max(t) = n + 1 /\ t \ {n + 1} \in SUBSET (1..n)
        BY <2>2, MaxUpTo
    <2>3. ASSUME NEW t \in SUBSET (1..(n + 1)), n + 1 \notin t
          PROVE  t \in SUBSET (1..n)
        BY <2>3
    <2>4. step[n + 1] \in [X -> X] /\ n + 1 \in 0..N
        OBVIOUS
    <2>5. f \in [SUBSET (1..(n + 1)) -> X]
        BY <2>2, <2>3, <2>4
    <2>6. \A t \in SUBSET (1..n) : f[t] = g[t]
        <3>1. \A t \in SUBSET (1..n) : n + 1 \notin t /\ t \in SUBSET (1..(n + 1))
            OBVIOUS
        <3> QED
            BY <3>1
    <2>7. ASSUME NEW t \in SUBSET (1..(n + 1))
          PROVE  f[t] = IF t = {} THEN b ELSE step[Max(t)][f[t \ {Max(t)}]]
        <3>1. CASE n + 1 \in t
            <4>1. f[t \ {n + 1}] = g[t \ {n + 1}]
                BY <2>2, <2>6, <3>1
            <4> QED
                BY <2>2, <3>1, <4>1
        <3>2. CASE n + 1 \notin t
            <4>1. t \in SUBSET (1..n) /\ f[t] = g[t]
                BY <2>3, <3>2
            <4>2. g[t] = IF t = {} THEN b ELSE step[Max(t)][g[t \ {Max(t)}]]
                BY <2>1, <4>1
            <4>3. t \ {Max(t)} \in SUBSET (1..n)
                BY <4>1
            <4>4. f[t \ {Max(t)}] = g[t \ {Max(t)}]
                BY <2>6, <4>3
            <4> HIDE DEF f
            <4> QED
                BY <4>1, <4>2, <4>4
        <3> QED
            BY <3>1, <3>2
    <2>8. Fits(n + 1, f)
        <3> HIDE DEF f
        <3> QED
            BY <2>5, <2>7
    <2> QED
        BY <2>4, <2>5, <2>8
<1>3. \A n \in 0..N : n \in S
    <2> HIDE DEF S
    <2> QED
        BY <1>1, <1>2, Upwards
<1>4. N \in S
    <2> HIDE DEF S
    <2> QED
        BY <1>3
<1>5. PICK f \in [SUBSET (1..N) -> X] : Fits(N, f)
    BY <1>4
<1>6. \A t \in SUBSET (1..N) :
          f[t] = IF t = {} THEN b ELSE step[Max(t)][f[t \ {Max(t)}]]
    BY <1>5
<1> QED
    BY <1>6 DEF FitsLeft

(* The same for FoldRight.                                                 *)
LEMMA RightFoldsExist ==
    ASSUME NEW X, NEW N, NEW b \in X, NEW step, FoldSteps(X, N, step)
    PROVE  \E f : FitsRight(X, N, b, step, f)
<1> USE DEF FoldSteps
<1> DEFINE Fits(n, f) ==
               f = [t \in SUBSET (n..N) |->
                        IF t = {} THEN b ELSE step[Min(t)][f[t \ {Min(t)}]]]
           S == {n \in 1..(N + 1) : \E f \in [SUBSET (n..N) -> X] : Fits(n, f)}
<1>1. N + 1 \in S
    <2> DEFINE f == [t \in SUBSET ((N + 1)..N) |-> b]
    <2>1. SUBSET ((N + 1)..N) = {{}}
        OBVIOUS
    <2>2. Fits(N + 1, f)
        BY <2>1
    <2>3. f \in [SUBSET ((N + 1)..N) -> X] /\ N + 1 \in 1..(N + 1)
        OBVIOUS
    <2> HIDE DEF f
    <2> QED
        BY <2>2, <2>3
<1>2. ASSUME NEW n \in 1..N, n + 1 \in S
      PROVE  n \in S
    <2>1. PICK g \in [SUBSET ((n + 1)..N) -> X] : Fits(n + 1, g)
        BY <1>2
    <2> DEFINE f == [t \in SUBSET (n..N) |->
                        IF n \in t THEN step[n][g[t \ {n}]] ELSE g[t]]
    <2>2. ASSUME NEW t \in SUBSET (n..N), n \in t
          PROVE  Min(t) = n /\ t \ {n} \in SUBSET ((n + 1)..N)
        BY <2>2, MinFrom
    <2>3. ASSUME NEW t \in SUBSET (n..N), n \notin t
          PROVE  t \in SUBSET ((n + 1)..N)
        BY <2>3
    <2>4. step[n] \in [X -> X] /\ n \in 1..(N + 1)
        OBVIOUS
    <2>5. f \in [SUBSET (n..N) -> X]
        BY <2>2, <2>3, <2>4
    <2>6. \A t \in SUBSET ((n + 1)..N) : f[t] = g[t]
        <3>1. \A t \in SUBSET ((n + 1)..N) : n \notin t /\ t \in SUBSET (n..N)
            OBVIOUS
        <3> QED
            BY <3>1
    <2>7. ASSUME NEW t \in SUBSET (n..N)
          PROVE  f[t] = IF t = {} THEN b ELSE step[Min(t)][f[t \ {Min(t)}]]
        <3>1. CASE n \in t
            <4>1. f[t \ {n}] = g[t \ {n}]
                BY <2>2, <2>6, <3>1
            <4> QED
                BY <2>2, <3>1, <4>1
        <3>2. CASE n \notin t
            <4>1. t \in SUBSET ((n + 1)..N) /\ f[t] = g[t]
                BY <2>3, <3>2
            <4>2. g[t] = IF t = {} THEN b ELSE step[Min(t)][g[t \ {Min(t)}]]
                BY <2>1, <4>1
            <4>3. t \ {Min(t)} \in SUBSET ((n + 1)..N)
                BY <4>1
            <4>4. f[t \ {Min(t)}] = g[t \ {Min(t)}]
                BY <2>6, <4>3
            <4> HIDE DEF f
            <4> QED
                BY <4>1, <4>2, <4>4
        <3> QED
            BY <3>1, <3>2
    <2>8. Fits(n, f)
        <3> HIDE DEF f
        <3> QED
            BY <2>5, <2>7
    <2> QED
        BY <2>4, <2>5, <2>8
<1>3. \A n \in 1..(N + 1) : n \in S
    <2> HIDE DEF S
    <2> QED
        BY <1>1, <1>2, Downwards
<1>4. 1 \in S
    <2> HIDE DEF S
    <2> QED
        BY <1>3
<1>5. PICK f \in [SUBSET (1..N) -> X] : Fits(1, f)
    BY <1>4
<1>6. \A t \in SUBSET (1..N) :
          f[t] = IF t = {} THEN b ELSE step[Min(t)][f[t \ {Min(t)}]]
    BY <1>5
<1> QED
    BY <1>6 DEF FitsRight

-----------------------------------------------------------------------------
(* The folds over a sequence by functions: step[e] is what element e does. *)
LeftFold(step, b, s) == FoldLeft(LAMBDA x, e : step[e][x], b, s)
RightFold(step, s, b) == FoldRight(LAMBDA e, x : step[e][x], s, b)

(* The numbers up to n: the greatest, and what is left without it.         *)
LEMMA InitialPart ==
    ASSUME NEW n \in Nat, n # 0
    PROVE  Max(1..n) = n /\ (1..n) \ {n} = 1..(n - 1) /\ 1..n # {}
<1>1. n - 1 \in Nat /\ (n - 1) + 1 = n /\ 1..n \in SUBSET (1..n) /\ n \in 1..n
    OBVIOUS
<1>2. Max(1..n) = n
    BY <1>1, MaxUpTo
<1> QED
    BY <1>1, <1>2

(* The numbers from n to N: the least, and what is left without it.        *)
LEMMA FinalPart ==
    ASSUME NEW N \in Nat, NEW n \in 1..N
    PROVE  Min(n..N) = n /\ (n..N) \ {n} = (n + 1)..N /\ n..N # {}
<1>1. n..N \in SUBSET (n..N) /\ n \in n..N
    OBVIOUS
<1>2. Min(n..N) = n
    BY <1>1, MinFrom
<1>3. (n..N) \ {n} = (n + 1)..N
    OBVIOUS
<1> QED
    BY <1>1, <1>2, <1>3

(* The values a fold takes, element by element.                            *)
LeftTrace(X, N, b, step, g) ==
    /\ g \in [0..N -> X] /\ g[0] = b
    /\ \A n \in 1..N : g[n] = step[n][g[n - 1]]

RightTrace(X, N, b, step, g) ==
    /\ g \in [1..(N + 1) -> X] /\ g[N + 1] = b
    /\ \A n \in 1..N : g[n] = step[n][g[n + 1]]

(* What satisfies the equation of a fold goes through such values.         *)
LEMMA LeftFoldSteps ==
    ASSUME NEW X, NEW N, NEW b \in X, NEW step, FoldSteps(X, N, step), NEW c,
           c[{}] = b,
           \A n \in 1..N : c[1..(n - 1)] \in X => c[1..n] = step[n][c[1..(n - 1)]]
    PROVE  \E g : LeftTrace(X, N, b, step, g) /\ c[1..N] = g[N]
<1> USE DEF FoldSteps
<1> DEFINE S == {n \in 0..N : c[1..n] \in X}
           g == [n \in 0..N |-> c[1..n]]
<1>1. 1..0 = {} /\ 0 \in 0..N /\ N \in 0..N
    OBVIOUS
<1>2. 0 \in S
    BY <1>1
<1>3. ASSUME NEW n \in 0..(N - 1), n \in S PROVE n + 1 \in S
    <2>1. n + 1 \in 1..N /\ n + 1 \in 0..N /\ (n + 1) - 1 = n
        OBVIOUS
    <2>2. step[n + 1] \in [X -> X]
        BY <2>1
    <2> QED
        BY <1>3, <2>1, <2>2
<1>4. \A n \in 0..N : n \in S
    <2> HIDE DEF S
    <2> QED
        BY <1>2, <1>3, Upwards
<1>5. g \in [0..N -> X]
    BY <1>4
<1>6. \A n \in 1..N : n - 1 \in 0..N /\ n \in 0..N
    OBVIOUS
<1>7. g[0] = b /\ c[1..N] = g[N]
    BY <1>1
<1>8. \A n \in 1..N : g[n] = step[n][g[n - 1]]
    BY <1>4, <1>6
<1> HIDE DEF g
<1> QED
    BY <1>5, <1>7, <1>8 DEF LeftTrace

(* A function on the final parts of 1..N that steps as a fold from the     *)
(* right is a trace of that fold.                                          *)
LEMMA RightFoldSteps ==
    ASSUME NEW X, NEW N, NEW b \in X, NEW step, FoldSteps(X, N, step), NEW c,
           c[{}] = b,
           \A n \in 1..N : c[(n + 1)..N] \in X => c[n..N] = step[n][c[(n + 1)..N]]
    PROVE  \E g : RightTrace(X, N, b, step, g) /\ c[1..N] = g[1]
<1> USE DEF FoldSteps
<1> DEFINE S == {n \in 1..(N + 1) : c[n..N] \in X}
           g == [n \in 1..(N + 1) |-> c[n..N]]
<1>1. (N + 1)..N = {} /\ 1 \in 1..(N + 1) /\ N + 1 \in 1..(N + 1)
    OBVIOUS
<1>2. N + 1 \in S
    BY <1>1
<1>3. ASSUME NEW n \in 1..N, n + 1 \in S PROVE n \in S
    <2>1. step[n] \in [X -> X] /\ n \in 1..(N + 1)
        OBVIOUS
    <2> QED
        BY <1>3, <2>1
<1>4. \A n \in 1..(N + 1) : n \in S
    <2> HIDE DEF S
    <2> QED
        BY <1>2, <1>3, Downwards
<1>5. g \in [1..(N + 1) -> X]
    BY <1>4
<1>6. \A n \in 1..N : n + 1 \in 1..(N + 1) /\ n \in 1..(N + 1)
    OBVIOUS
<1>7. g[N + 1] = b /\ c[1..N] = g[1]
    BY <1>1
<1>8. \A n \in 1..N : g[n] = step[n][g[n + 1]]
    BY <1>4, <1>6
<1> HIDE DEF g
<1> QED
    BY <1>5, <1>7, <1>8 DEF RightTrace

(* Two traces of a fold from the left end in the same value.               *)
LEMMA LeftTracesAgree ==
    ASSUME NEW X, NEW N, NEW b, NEW step, FoldSteps(X, N, step),
           NEW g, LeftTrace(X, N, b, step, g), NEW h, LeftTrace(X, N, b, step, h)
    PROVE  g[N] = h[N]
<1> USE DEF FoldSteps, LeftTrace
<1> DEFINE S == {n \in 0..N : g[n] = h[n]}
<1>1. 0 \in S
    OBVIOUS
<1>2. ASSUME NEW n \in 0..(N - 1), n \in S PROVE n + 1 \in S
    <2>1. n + 1 \in 1..N /\ n + 1 \in 0..N /\ (n + 1) - 1 = n
        OBVIOUS
    <2> QED
        BY <1>2, <2>1
<1>3. \A n \in 0..N : n \in S
    <2> HIDE DEF S
    <2> QED
        BY <1>1, <1>2, Upwards
<1>4. N \in S
    <2> HIDE DEF S
    <2> QED
        BY <1>3
<1> QED
    BY <1>4

(* Two traces of a fold from the right end in the same value.              *)
LEMMA RightTracesAgree ==
    ASSUME NEW X, NEW N, NEW b, NEW step, FoldSteps(X, N, step),
           NEW g, RightTrace(X, N, b, step, g), NEW h, RightTrace(X, N, b, step, h)
    PROVE  g[1] = h[1]
<1> USE DEF FoldSteps, RightTrace
<1> DEFINE S == {n \in 1..(N + 1) : g[n] = h[n]}
<1>1. N + 1 \in S
    OBVIOUS
<1>2. ASSUME NEW n \in 1..N, n + 1 \in S PROVE n \in S
    <2>1. n \in 1..(N + 1)
        OBVIOUS
    <2> QED
        BY <1>2, <2>1
<1>3. \A n \in 1..(N + 1) : n \in S
    <2> HIDE DEF S
    <2> QED
        BY <1>1, <1>2, Downwards
<1>4. 1 \in S
    <2> HIDE DEF S
    <2> QED
        BY <1>3
<1> QED
    BY <1>4

-----------------------------------------------------------------------------
(* step[e] is what an element e of E does to a member of X.                *)
Moves(X, E, step) == step \in [E -> [X -> X]]

(* The steps of a fold over the sequence s.                                *)
Along(step, s) == [n \in 1..Len(s) |-> step[s[n]]]

(* The steps along a sequence of elements are steps of a fold.             *)
LEMMA AlongSteps ==
    ASSUME NEW X, NEW E, NEW step, Moves(X, E, step), NEW s \in Seq(E)
    PROVE  /\ Len(s) \in Nat /\ DOMAIN s = 1..Len(s)
           /\ FoldSteps(X, Len(s), Along(step, s))
           /\ \A n \in 1..Len(s) : Along(step, s)[n] = step[s[n]]
BY DEF Along, FoldSteps, Moves

(* The maximum of a nonempty set of numbers up to N is in it.              *)
LEMMA MaxIsMember ==
    ASSUME NEW N \in Nat, NEW t \in SUBSET (1..N), t # {}
    PROVE  Max(t) \in t /\ Max(t) \in 1..N
<1>1. t \in SUBSET (0..N)
    OBVIOUS
<1>2. \E m \in t : \A k \in t : k =< m
    BY <1>1, GreatestBelow
<1>3. \E m \in t : \A k \in t : m >= k
    BY <1>2
<1> QED
    BY <1>3 DEF Max

(* The minimum of a nonempty set of numbers up to N is in it.              *)
LEMMA MinIsMember ==
    ASSUME NEW N \in Nat, NEW t \in SUBSET (1..N), t # {}
    PROVE  Min(t) \in t /\ Min(t) \in 1..N
<1>1. t \in SUBSET Nat
    OBVIOUS
<1>2. \E m \in t : \A k \in t : m =< k
    BY <1>1, LeastNatural
<1> QED
    BY <1>2 DEF Min

(* A function that satisfies the equation of a fold over s from the left:  *)
(* what CHOOSE picks in the definition of FoldLeft.                        *)
LEMMA LeftFoldIs ==
    ASSUME NEW X, NEW E, NEW step, Moves(X, E, step), NEW b \in X, NEW s \in Seq(E)
    PROVE  \E g : /\ LeftTrace(X, Len(s), b, Along(step, s), g)
                  /\ LeftFold(step, b, s) = g[Len(s)]
<1> DEFINE N == Len(s)
           at == Along(step, s)
           Fits(f) == f = [t \in SUBSET (DOMAIN s) |->
                              IF t = {} THEN b
                              ELSE step[s[Max(t)]][f[t \ {Max(t)}]]]
           c == CHOOSE f : Fits(f)
<1>1. N \in Nat /\ DOMAIN s = 1..N /\ FoldSteps(X, N, at)
      /\ \A n \in 1..N : at[n] = step[s[n]]
    BY AlongSteps
<1>2. LeftFold(step, b, s) = c[DOMAIN s]
    BY DEF LeftFold, FoldLeft, MapThenFoldSet
<1> HIDE DEF N, at
<1>3. \E f : Fits(f)
    <2>1. PICK f : FitsLeft(X, N, b, at, f)
        BY <1>1, LeftFoldsExist
    <2>2. ASSUME NEW t \in SUBSET (1..N), t # {} PROVE at[Max(t)] = step[s[Max(t)]]
        BY <1>1, <2>2, MaxIsMember
    <2>3. Fits(f)
        BY <1>1, <2>1, <2>2 DEF FitsLeft
    <2> QED
        BY <2>3
<1>4. c = [t \in SUBSET (1..N) |->
                IF t = {} THEN b ELSE step[s[Max(t)]][c[t \ {Max(t)}]]]
    <2> HIDE DEF Fits
    <2>1. Fits(c)
        BY <1>3
    <2> QED
        BY <1>1, <2>1 DEF Fits
<1> HIDE DEF c
<1>5. c[{}] = b
    BY <1>4
<1>6. \A n \in 1..N : c[1..n] = at[n][c[1..(n - 1)]]
    <2> TAKE n \in 1..N
    <2>1. n \in Nat /\ n # 0 /\ 1..n \in SUBSET (1..N)
        BY <1>1
    <2>2. Max(1..n) = n /\ (1..n) \ {n} = 1..(n - 1) /\ 1..n # {}
        BY <2>1, InitialPart
    <2>3. c[1..n] = step[s[Max(1..n)]][c[(1..n) \ {Max(1..n)}]]
        BY <1>4, <2>1, <2>2
    <2>4. c[1..n] = step[s[n]][c[1..(n - 1)]]
        BY <2>2, <2>3
    <2> QED
        BY <1>1, <2>4
<1>7. \E g : LeftTrace(X, N, b, at, g) /\ c[1..N] = g[N]
    BY <1>1, <1>5, <1>6, LeftFoldSteps
<1> QED
    BY <1>1, <1>2, <1>7 DEF N, at

(* FoldRight is the end of a trace.                                        *)
LEMMA RightFoldIs ==
    ASSUME NEW X, NEW E, NEW step, Moves(X, E, step), NEW b \in X, NEW s \in Seq(E)
    PROVE  \E g : /\ RightTrace(X, Len(s), b, Along(step, s), g)
                  /\ RightFold(step, s, b) = g[1]
<1> DEFINE N == Len(s)
           at == Along(step, s)
           Fits(f) == f = [t \in SUBSET (DOMAIN s) |->
                              IF t = {} THEN b
                              ELSE step[s[Min(t)]][f[t \ {Min(t)}]]]
           c == CHOOSE f : Fits(f)
<1>1. N \in Nat /\ DOMAIN s = 1..N /\ FoldSteps(X, N, at)
      /\ \A n \in 1..N : at[n] = step[s[n]]
    BY AlongSteps
<1>2. RightFold(step, s, b) = c[DOMAIN s]
    BY DEF RightFold, FoldRight, MapThenFoldSet
<1> HIDE DEF N, at
<1>3. \E f : Fits(f)
    <2>1. PICK f : FitsRight(X, N, b, at, f)
        BY <1>1, RightFoldsExist
    <2>2. ASSUME NEW t \in SUBSET (1..N), t # {} PROVE at[Min(t)] = step[s[Min(t)]]
        BY <1>1, <2>2, MinIsMember
    <2>3. Fits(f)
        BY <1>1, <2>1, <2>2 DEF FitsRight
    <2> QED
        BY <2>3
<1>4. c = [t \in SUBSET (1..N) |->
                IF t = {} THEN b ELSE step[s[Min(t)]][c[t \ {Min(t)}]]]
    <2> HIDE DEF Fits
    <2>1. Fits(c)
        BY <1>3
    <2> QED
        BY <1>1, <2>1 DEF Fits
<1> HIDE DEF c
<1>5. c[{}] = b
    BY <1>4
<1>6. \A n \in 1..N : c[n..N] = at[n][c[(n + 1)..N]]
    <2> TAKE n \in 1..N
    <2>1. Min(n..N) = n /\ (n..N) \ {n} = (n + 1)..N /\ n..N # {}
        BY <1>1, FinalPart
    <2>2. n..N \in SUBSET (1..N)
        BY <1>1
    <2>3. c[n..N] = step[s[Min(n..N)]][c[(n..N) \ {Min(n..N)}]]
        BY <1>4, <2>1, <2>2
    <2>4. c[n..N] = step[s[n]][c[(n + 1)..N]]
        BY <2>1, <2>3
    <2> QED
        BY <1>1, <2>4
<1>7. \E g : RightTrace(X, N, b, at, g) /\ c[1..N] = g[1]
    BY <1>1, <1>5, <1>6, RightFoldSteps
<1> QED
    BY <1>1, <1>2, <1>7 DEF N, at

(* FoldLeft stays in X, does nothing to the empty sequence, and applies    *)
(* the last element last.                                                  *)
LEMMA LeftFoldLaws ==
    ASSUME NEW X, NEW E, NEW step, Moves(X, E, step), NEW b \in X, NEW s \in Seq(E)
    PROVE  /\ LeftFold(step, b, s) \in X
           /\ LeftFold(step, b, <<>>) = b
           /\ \A e \in E : LeftFold(step, b, Append(s, e)) = step[e][LeftFold(step, b, s)]
<1>1. PICK g : /\ LeftTrace(X, Len(s), b, Along(step, s), g)
               /\ LeftFold(step, b, s) = g[Len(s)]
    BY LeftFoldIs
<1>2. LeftFold(step, b, s) \in X
    BY <1>1 DEF LeftTrace
<1>3. LeftFold(step, b, <<>>) = b
    <2>1. ASSUME NEW r \in Seq(E), Len(r) = 0 PROVE LeftFold(step, b, r) = b
        <3>1. PICK h : /\ LeftTrace(X, Len(r), b, Along(step, r), h)
                       /\ LeftFold(step, b, r) = h[Len(r)]
            BY LeftFoldIs
        <3> QED
            BY <2>1, <3>1 DEF LeftTrace
    <2>2. <<>> \in Seq(E) /\ Len(<<>>) = 0
        OBVIOUS
    <2> QED
        BY <2>1, <2>2, Zenon
<1>4. ASSUME NEW e \in E
      PROVE  LeftFold(step, b, Append(s, e)) = step[e][LeftFold(step, b, s)]
    <2> DEFINE r == Append(s, e)
               N == Len(s)
    <2>1. r \in Seq(E) /\ N \in Nat /\ Len(r) = N + 1 /\ r[N + 1] = e
          /\ (\A n \in 1..N : r[n] = s[n])
        OBVIOUS
    <2> HIDE DEF r, N
    <2>2. PICK h : /\ LeftTrace(X, Len(r), b, Along(step, r), h)
                   /\ LeftFold(step, b, r) = h[Len(r)]
        BY <2>1, LeftFoldIs
    <2> DEFINE k == [n \in 0..N |-> h[n]]
    <2>3. /\ FoldSteps(X, N, Along(step, s)) /\ \A n \in 1..N : Along(step, s)[n] = step[s[n]]
          /\ \A n \in 1..(N + 1) : Along(step, r)[n] = step[r[n]]
        BY <2>1, AlongSteps DEF N
    <2>4. LeftTrace(X, N, b, Along(step, s), k)
        <3>1. \A n \in 1..N : n \in 0..N /\ n - 1 \in 0..N /\ n \in 1..(N + 1)
            BY <2>1
        <3>2. \A n \in 1..N : k[n] = Along(step, s)[n][k[n - 1]]
            <4> TAKE n \in 1..N
            <4>1. k[n] = h[n] /\ k[n - 1] = h[n - 1] /\ n \in 1..(N + 1)
                BY <3>1
            <4>2. h[n] = Along(step, r)[n][h[n - 1]]
                BY <2>1, <2>2, <4>1 DEF LeftTrace
            <4>3. Along(step, r)[n] = Along(step, s)[n]
                BY <2>1, <2>3, <4>1
            <4> QED
                BY <4>1, <4>2, <4>3
        <3>3. k \in [0..N -> X] /\ k[0] = b
            BY <2>1, <2>2 DEF LeftTrace
        <3> QED
            BY <3>2, <3>3 DEF LeftTrace
    <2>5. k[N] = h[N]
        BY <2>1
    <2> HIDE DEF k
    <2>6. k[N] = g[N]
        BY <1>1, <2>3, <2>4, LeftTracesAgree DEF N
    <2>7. h[N + 1] = step[e][h[N]]
        <3>1. N + 1 \in 1..(N + 1) /\ (N + 1) - 1 = N
            BY <2>1
        <3> QED
            BY <2>1, <2>2, <2>3, <3>1 DEF LeftTrace
    <2> QED
        BY <1>1, <2>1, <2>2, <2>5, <2>6, <2>7 DEF r, N
<1> QED
    BY <1>2, <1>3, <1>4

(* FoldRight stays in X, does nothing to the empty sequence, and applies   *)
(* the last element first.                                                 *)
LEMMA RightFoldLaws ==
    ASSUME NEW X, NEW E, NEW step, Moves(X, E, step), NEW b \in X, NEW s \in Seq(E)
    PROVE  /\ RightFold(step, s, b) \in X
           /\ RightFold(step, <<>>, b) = b
           /\ \A e \in E : RightFold(step, Append(s, e), b) = RightFold(step, s, step[e][b])
<1>1. RightFold(step, s, b) \in X
    <2>1. PICK g : /\ RightTrace(X, Len(s), b, Along(step, s), g)
                   /\ RightFold(step, s, b) = g[1]
        BY RightFoldIs
    <2>2. 1 \in 1..(Len(s) + 1)
        OBVIOUS
    <2> QED
        BY <2>1, <2>2 DEF RightTrace
<1>2. RightFold(step, <<>>, b) = b
    <2>1. ASSUME NEW r \in Seq(E), Len(r) = 0 PROVE RightFold(step, r, b) = b
        <3>1. PICK h : /\ RightTrace(X, Len(r), b, Along(step, r), h)
                       /\ RightFold(step, r, b) = h[1]
            BY RightFoldIs
        <3> QED
            BY <2>1, <3>1 DEF RightTrace
    <2>2. <<>> \in Seq(E) /\ Len(<<>>) = 0
        OBVIOUS
    <2> QED
        BY <2>1, <2>2, Zenon
<1>3. ASSUME NEW e \in E
      PROVE  RightFold(step, Append(s, e), b) = RightFold(step, s, step[e][b])
    <2> DEFINE r == Append(s, e)
               N == Len(s)
               a == step[e][b]
    <2>1. r \in Seq(E) /\ N \in Nat /\ Len(r) = N + 1 /\ r[N + 1] = e /\ a \in X
          /\ (\A n \in 1..N : r[n] = s[n])
        BY DEF Moves
    <2> HIDE DEF r, a, N
    <2>2. PICK h : /\ RightTrace(X, Len(r), b, Along(step, r), h)
                   /\ RightFold(step, r, b) = h[1]
        BY <2>1, RightFoldIs
    <2>3. PICK g : /\ RightTrace(X, N, a, Along(step, s), g)
                   /\ RightFold(step, s, a) = g[1]
        BY <2>1, RightFoldIs DEF N
    <2>4. /\ FoldSteps(X, N, Along(step, s)) /\ \A n \in 1..N : Along(step, s)[n] = step[s[n]]
          /\ \A n \in 1..(N + 1) : Along(step, r)[n] = step[r[n]]
        BY <2>1, AlongSteps DEF N
    <2> DEFINE k == [n \in 1..(N + 1) |-> h[n]]
    <2>5. h[N + 1] = a /\ h \in [1..(N + 2) -> X]
        <3>1. N + 1 \in 1..(N + 1) /\ (N + 1) + 1 = N + 2
            BY <2>1
        <3> QED
            BY <2>1, <2>2, <2>4, <3>1 DEF a, RightTrace
    <2>6. RightTrace(X, N, a, Along(step, s), k)
        <3>1. \A n \in 1..N : n \in 1..(N + 1) /\ n + 1 \in 1..(N + 1)
            BY <2>1
        <3>2. \A n \in 1..N : k[n] = Along(step, s)[n][k[n + 1]]
            <4> TAKE n \in 1..N
            <4>1. k[n] = h[n] /\ k[n + 1] = h[n + 1] /\ n \in 1..(N + 1)
                BY <3>1
            <4>2. h[n] = Along(step, r)[n][h[n + 1]]
                BY <2>1, <2>2, <4>1 DEF RightTrace
            <4>3. Along(step, r)[n] = Along(step, s)[n]
                BY <2>1, <2>4, <4>1
            <4> QED
                BY <4>1, <4>2, <4>3
        <3>3. k \in [1..(N + 1) -> X] /\ k[N + 1] = a
            BY <2>1, <2>5
        <3> QED
            BY <3>2, <3>3 DEF RightTrace
    <2>7. k[1] = h[1]
        BY <2>1
    <2> HIDE DEF k
    <2>8. k[1] = g[1]
        BY <2>3, <2>4, <2>6, RightTracesAgree
    <2> QED
        BY <2>2, <2>3, <2>7, <2>8 DEF r, a
<1> QED
    BY <1>1, <1>2, <1>3

-----------------------------------------------------------------------------
(* The sum of f over the finite set S.                                     *)
SumOf(f, S) == MapThenSumSet(LAMBDA x : f[x], S)

(* it adds up f over the subsets of S with at most n elements.             *)
AddsUp(f, S, n, it) ==
    \A t \in SUBSET S : Cardinality(t) =< n =>
        /\ it[t] \in Nat
        /\ it[t] = IF t = {} THEN 0
                   ELSE f[CHOOSE x \in t : TRUE] + it[t \ {CHOOSE x \in t : TRUE}]

AnElement(t) == CHOOSE x \in t : TRUE

(* A finite set without its chosen element is smaller by one.              *)
LEMMA SmallerSubset ==
    ASSUME NEW S, IsFiniteSet(S), NEW t \in SUBSET S, t # {}
    PROVE  /\ AnElement(t) \in t /\ t \ {AnElement(t)} \in SUBSET S
           /\ Cardinality(t) \in Nat
           /\ Cardinality(t \ {AnElement(t)}) = Cardinality(t) - 1
<1>1. AnElement(t) \in t
    BY DEF AnElement
<1>2. IsFiniteSet(t)
    BY FS_Subset
<1> QED
    BY <1>1, <1>2, FS_RemoveElement, FS_CardinalityType

(* There is a function that adds up f over the small subsets of S.         *)
LEMMA SumsExist ==
    ASSUME NEW S, IsFiniteSet(S), NEW f \in [S -> Nat]
    PROVE  \A n \in Nat : \E it \in [SUBSET S -> Nat] : AddsUp(f, S, n, it)
<1> DEFINE P == {n \in Nat : \E it \in [SUBSET S -> Nat] : AddsUp(f, S, n, it)}
<1>0. \A t \in SUBSET S : IsFiniteSet(t) /\ Cardinality(t) \in Nat
    BY FS_Subset, FS_CardinalityType
<1>1. 0 \in P
    <2> DEFINE it == [t \in SUBSET S |-> 0]
    <2>1. \A t \in SUBSET S : Cardinality(t) =< 0 => t = {}
        BY <1>0, FS_EmptySet
    <2>2. AddsUp(f, S, 0, it)
        BY <2>1 DEF AddsUp
    <2>3. it \in [SUBSET S -> Nat]
        OBVIOUS
    <2> HIDE DEF it
    <2> QED
        BY <2>2, <2>3
<1>2. ASSUME NEW n \in Nat, n \in P PROVE n + 1 \in P
    <2>1. PICK less \in [SUBSET S -> Nat] : AddsUp(f, S, n, less)
        BY <1>2
    <2> DEFINE it == [t \in SUBSET S |->
                         IF t = {} THEN 0 ELSE IF Cardinality(t) =< n THEN less[t]
                         ELSE f[AnElement(t)] + less[t \ {AnElement(t)}]]
    <2>2. \A t \in SUBSET S : t # {} => AnElement(t) \in S /\ f[AnElement(t)] \in Nat
                                /\ t \ {AnElement(t)} \in SUBSET S
        BY SmallerSubset
    <2>3. it \in [SUBSET S -> Nat]
        BY <2>2
    <2>4. \A t \in SUBSET S : Cardinality(t) =< n => it[t] = less[t]
        BY <2>1 DEF AddsUp
    <2>5. ASSUME NEW t \in SUBSET S, Cardinality(t) =< n + 1, t # {}
          PROVE  it[t] = f[AnElement(t)] + it[t \ {AnElement(t)}]
        <3>1. /\ Cardinality(t) \in Nat /\ t \ {AnElement(t)} \in SUBSET S
              /\ Cardinality(t \ {AnElement(t)}) = Cardinality(t) - 1
            BY <2>5, SmallerSubset
        <3>2. it[t \ {AnElement(t)}] = less[t \ {AnElement(t)}]
            <4>1. Cardinality(t \ {AnElement(t)}) =< n
                BY <2>5, <3>1
            <4> QED
                BY <2>4, <3>1, <4>1
        <3>3. CASE Cardinality(t) =< n
            <4>1. less[t] = f[AnElement(t)] + less[t \ {AnElement(t)}]
                BY <2>1, <2>5, <3>3 DEF AddsUp, AnElement
            <4> HIDE DEF it
            <4> QED
                BY <2>4, <3>2, <3>3, <4>1
        <3>4. CASE ~(Cardinality(t) =< n)
            <4>1. it[t] = f[AnElement(t)] + less[t \ {AnElement(t)}]
                BY <2>5, <3>4
            <4> HIDE DEF it
            <4> QED
                BY <3>2, <4>1
        <3> QED
            BY <3>3, <3>4
    <2>6. it[{}] = 0
        OBVIOUS
    <2> HIDE DEF it
    <2>7. AddsUp(f, S, n + 1, it)
        BY <2>3, <2>5, <2>6 DEF AddsUp, AnElement
    <2> QED
        BY <2>3, <2>7
<1>3. \A n \in Nat : n \in P
    <2> HIDE DEF P
    <2> QED
        BY <1>1, <1>2, NatInduct
<1> QED
    BY <1>3

(* A sum of naturals is a natural, and zero if all that is summed up is.   *)
LEMMA SumIsPositive ==
    ASSUME NEW S, IsFiniteSet(S), NEW f \in [S -> Nat]
    PROVE  /\ SumOf(f, S) \in Nat
           /\ SumOf(f, S) = 0 <=> \A x \in S : f[x] = 0
<1> DEFINE Fits(it) == it = [t \in SUBSET S |->
                                IF t = {} THEN 0
                                ELSE f[CHOOSE x \in t : TRUE] + it[t \ {CHOOSE x \in t : TRUE}]]
           c == CHOOSE it : Fits(it)
<1>1. SumOf(f, S) = c[S]
    BY DEF SumOf, MapThenSumSet, MapThenFoldSet
<1>2. \E it : Fits(it)
    <2>1. Cardinality(S) \in Nat
        BY FS_CardinalityType
    <2>2. PICK it \in [SUBSET S -> Nat] : AddsUp(f, S, Cardinality(S), it)
        BY <2>1, SumsExist
    <2>3. \A t \in SUBSET S : Cardinality(t) =< Cardinality(S)
        BY FS_Subset
    <2>4. Fits(it)
        BY <2>2, <2>3 DEF AddsUp
    <2> QED
        BY <2>4
<1>3. Fits(c)
    <2> HIDE DEF Fits
    <2> QED
        BY <1>2
<1>4. c[{}] = 0 /\ \A t \in SUBSET S : t # {} => c[t] = f[AnElement(t)] + c[t \ {AnElement(t)}]
    <2> HIDE DEF c
    <2> QED
        BY <1>3 DEF AnElement
<1> HIDE DEF c
<1> DEFINE P == {n \in Nat : \A t \in SUBSET S : Cardinality(t) = n =>
                                c[t] \in Nat /\ (c[t] = 0 <=> \A x \in t : f[x] = 0)}
<1>5. 0 \in P
    <2>1. \A t \in SUBSET S : Cardinality(t) = 0 => t = {}
        BY FS_Subset, FS_EmptySet
    <2>2. c[{}] = 0
        BY <1>4
    <2>3. ASSUME NEW t \in SUBSET S, Cardinality(t) = 0
          PROVE  c[t] \in Nat /\ (c[t] = 0 <=> \A x \in t : f[x] = 0)
        <3>1. t = {} /\ c[t] = 0
            BY <2>1, <2>2, <2>3
        <3> HIDE DEF P, Fits
        <3> QED
            BY <3>1
    <2> QED
        BY <2>3
<1>6. ASSUME NEW n \in Nat, n \in P PROVE n + 1 \in P
    <2> SUFFICES ASSUME NEW t \in SUBSET S, Cardinality(t) = n + 1
                 PROVE  c[t] \in Nat /\ (c[t] = 0 <=> \A x \in t : f[x] = 0)
        OBVIOUS
    <2>1. t # {}
        BY FS_EmptySet
    <2> DEFINE r == t \ {AnElement(t)}
    <2>2. AnElement(t) \in t /\ r \in SUBSET S /\ Cardinality(r) = n
        <3>1. AnElement(t) \in t /\ r \in SUBSET S /\ Cardinality(r) = Cardinality(t) - 1
            BY <2>1, SmallerSubset
        <3> QED
            BY <3>1
    <2>3. c[t] = f[AnElement(t)] + c[r]
        BY <1>4, <2>1
    <2>4. c[r] \in Nat /\ (c[r] = 0 <=> \A x \in r : f[x] = 0)
        <3> HIDE DEF r
        <3> QED
            BY <1>6, <2>2
    <2>5. f[AnElement(t)] \in Nat
        BY <2>2
    <2>6. \A x \in t : x = AnElement(t) \/ x \in r
        OBVIOUS
    <2>7. \A x \in r : x \in t
        OBVIOUS
    <2> HIDE DEF r
    <2>8. c[t] = 0 <=> f[AnElement(t)] = 0 /\ c[r] = 0
        BY <2>3, <2>4, <2>5
    <2> QED
        BY <2>2, <2>3, <2>4, <2>5, <2>6, <2>7, <2>8
<1>7. \A n \in Nat : n \in P
    <2> HIDE DEF P
    <2> QED
        BY <1>5, <1>6, NatInduct
<1>8. Cardinality(S) \in P
    <2> HIDE DEF P
    <2> QED
        BY <1>7, FS_CardinalityType
<1> QED
    BY <1>1, <1>8

-----------------------------------------------------------------------------
(* A function that satisfies the equation of a fold, for the folds whose   *)
(* equation is not written with step.                                      *)
LeftValues(X, E, step, b, s, f) ==
    /\ f \in [SUBSET (1..Len(s)) -> X] /\ f[{}] = b
    /\ \A t \in SUBSET (1..Len(s)) : t # {} =>
           /\ Max(t) \in 1..Len(s) /\ s[Max(t)] \in E
           /\ f[t \ {Max(t)}] \in X
           /\ f[t] = step[s[Max(t)]][f[t \ {Max(t)}]]

(* There is a function that satisfies the equation of a fold from the      *)
(* left over s.                                                            *)
LEMMA LeftFoldHas ==
    ASSUME NEW X, NEW E, NEW step, Moves(X, E, step), NEW b \in X, NEW s \in Seq(E)
    PROVE  \E f : LeftValues(X, E, step, b, s, f)
<1> DEFINE N == Len(s)
           at == Along(step, s)
<1>1. N \in Nat /\ FoldSteps(X, N, at) /\ \A n \in 1..N : at[n] = step[s[n]] /\ s[n] \in E
    BY AlongSteps
<1> HIDE DEF N, at
<1>2. PICK f : FitsLeft(X, N, b, at, f)
    BY <1>1, LeftFoldsExist
<1>3. ASSUME NEW t \in SUBSET (1..N), t # {} PROVE Max(t) \in 1..N
    BY <1>1, <1>3, MaxIsMember
<1>4. f \in [SUBSET (1..N) -> X] /\ f[{}] = b
    BY <1>2 DEF FitsLeft
<1>5. ASSUME NEW t \in SUBSET (1..N), t # {}
      PROVE  f[t \ {Max(t)}] \in X /\ f[t] = step[s[Max(t)]][f[t \ {Max(t)}]]
    BY <1>1, <1>2, <1>3, <1>5 DEF FitsLeft
<1> QED
    BY <1>1, <1>3, <1>4, <1>5 DEF N, LeftValues

(* Whatever satisfies that equation has the fold as its value at all of    *)
(* s.                                                                      *)
LEMMA LeftFoldFrom ==
    ASSUME NEW X, NEW E, NEW step, Moves(X, E, step), NEW b \in X, NEW s \in Seq(E), NEW c,
           c[{}] = b,
           \A n \in 1..Len(s) : c[1..(n - 1)] \in X => c[1..n] = step[s[n]][c[1..(n - 1)]]
    PROVE  c[DOMAIN s] = LeftFold(step, b, s)
<1> DEFINE N == Len(s)
           at == Along(step, s)
<1>1. N \in Nat /\ DOMAIN s = 1..N /\ FoldSteps(X, N, at) /\ \A n \in 1..N : at[n] = step[s[n]]
    BY AlongSteps
<1>2. \A n \in 1..N : c[1..(n - 1)] \in X => c[1..n] = at[n][c[1..(n - 1)]]
    BY <1>1
<1>3. PICK h : LeftTrace(X, N, b, at, h) /\ LeftFold(step, b, s) = h[N]
    BY LeftFoldIs
<1> HIDE DEF N, at
<1>4. PICK g : LeftTrace(X, N, b, at, g) /\ c[1..N] = g[N]
    BY <1>1, <1>2, LeftFoldSteps
<1>5. g[N] = h[N]
    BY <1>1, <1>3, <1>4, LeftTracesAgree
<1> QED
    BY <1>1, <1>3, <1>4, <1>5

RightValues(X, E, step, b, s, f) ==
    /\ f \in [SUBSET (1..Len(s)) -> X] /\ f[{}] = b
    /\ \A t \in SUBSET (1..Len(s)) : t # {} =>
           /\ Min(t) \in 1..Len(s) /\ s[Min(t)] \in E
           /\ f[t \ {Min(t)}] \in X
           /\ f[t] = step[s[Min(t)]][f[t \ {Min(t)}]]

(* There is a function that satisfies the equation of a fold from the      *)
(* right over s.                                                           *)
LEMMA RightFoldHas ==
    ASSUME NEW X, NEW E, NEW step, Moves(X, E, step), NEW b \in X, NEW s \in Seq(E)
    PROVE  \E f : RightValues(X, E, step, b, s, f)
<1> DEFINE N == Len(s)
           at == Along(step, s)
<1>1. N \in Nat /\ FoldSteps(X, N, at) /\ \A n \in 1..N : at[n] = step[s[n]] /\ s[n] \in E
    BY AlongSteps
<1> HIDE DEF N, at
<1>2. PICK f : FitsRight(X, N, b, at, f)
    BY <1>1, RightFoldsExist
<1>3. ASSUME NEW t \in SUBSET (1..N), t # {} PROVE Min(t) \in 1..N
    BY <1>1, <1>3, MinIsMember
<1>4. f \in [SUBSET (1..N) -> X] /\ f[{}] = b
    BY <1>2 DEF FitsRight
<1>5. ASSUME NEW t \in SUBSET (1..N), t # {}
      PROVE  f[t \ {Min(t)}] \in X /\ f[t] = step[s[Min(t)]][f[t \ {Min(t)}]]
    BY <1>1, <1>2, <1>3, <1>5 DEF FitsRight
<1> QED
    BY <1>1, <1>3, <1>4, <1>5 DEF N, RightValues

(* Whatever satisfies that equation has the fold as its value at all of    *)
(* s.                                                                      *)
LEMMA RightFoldFrom ==
    ASSUME NEW X, NEW E, NEW step, Moves(X, E, step), NEW b \in X, NEW s \in Seq(E), NEW c,
           c[{}] = b,
           \A n \in 1..Len(s) :
               c[(n + 1)..Len(s)] \in X => c[n..Len(s)] = step[s[n]][c[(n + 1)..Len(s)]]
    PROVE  c[DOMAIN s] = RightFold(step, s, b)
<1> DEFINE N == Len(s)
           at == Along(step, s)
<1>1. N \in Nat /\ DOMAIN s = 1..N /\ FoldSteps(X, N, at) /\ \A n \in 1..N : at[n] = step[s[n]]
    BY AlongSteps
<1>2. \A n \in 1..N : c[(n + 1)..N] \in X => c[n..N] = at[n][c[(n + 1)..N]]
    BY <1>1
<1>3. PICK h : RightTrace(X, N, b, at, h) /\ RightFold(step, s, b) = h[1]
    BY RightFoldIs
<1> HIDE DEF N, at
<1>4. PICK g : RightTrace(X, N, b, at, g) /\ c[1..N] = g[1]
    BY <1>1, <1>2, RightFoldSteps
<1>5. g[1] = h[1]
    BY <1>1, <1>3, <1>4, RightTracesAgree
<1> QED
    BY <1>1, <1>3, <1>4, <1>5

-----------------------------------------------------------------------------
(* Sequences of sequences.                                                 *)

(* g[n] is what the first n of N sequences of f are, put together.         *)
Joins(R, N, f, g) ==
    /\ g \in [0..N -> Seq(R)] /\ g[0] = <<>>
    /\ \A n \in 1..N : g[n] = g[n - 1] \o f[n]

(* Sequences can be put together.                                          *)
LEMMA JoinsExist ==
    ASSUME NEW R, NEW N \in Nat, NEW f \in [1..N -> Seq(R)]
    PROVE  \E g : Joins(R, N, f, g)
<1> DEFINE S == {n \in 0..N : \E g : Joins(R, n, f, g)}
<1>1. 0 \in S
    <2> DEFINE g == [n \in 0..0 |-> <<>>]
    <2>1. <<>> \in Seq(R)
        OBVIOUS
    <2>2. Joins(R, 0, f, g)
        BY <2>1 DEF Joins
    <2> QED
        BY <2>2
<1>2. ASSUME NEW n \in 0..(N - 1), n \in S PROVE n + 1 \in S
    <2>1. PICK g : Joins(R, n, f, g)
        BY <1>2
    <2> DEFINE h == [m \in 0..(n + 1) |-> IF m = n + 1 THEN g[n] \o f[n + 1] ELSE g[m]]
    <2>2. n + 1 \in 1..N /\ n + 1 \in 0..N /\ n \in 0..n
        OBVIOUS
    <2>3. g[n] \o f[n + 1] \in Seq(R)
        BY <2>1, <2>2 DEF Joins
    <2>4. \A m \in 0..(n + 1) : m # n + 1 => m \in 0..n
        OBVIOUS
    <2>5. h \in [0..(n + 1) -> Seq(R)] /\ h[0] = <<>>
        BY <2>1, <2>3, <2>4 DEF Joins
    <2>8. h[n + 1] = g[n] \o f[n + 1] /\ \A m \in 0..n : h[m] = g[m]
        <3>1. \A m \in 0..n : m \in 0..(n + 1) /\ m # n + 1
            OBVIOUS
        <3>2. n + 1 \in 0..(n + 1)
            OBVIOUS
        <3> QED
            BY <3>1, <3>2
    <2>6. ASSUME NEW m \in 1..(n + 1) PROVE h[m] = h[m - 1] \o f[m]
        <3> HIDE DEF h
        <3>1. CASE m = n + 1
            <4>1. m - 1 = n
                BY <3>1
            <4> QED
                BY <2>2, <2>8, <3>1, <4>1
        <3>2. CASE m # n + 1
            <4>1. m \in 1..n /\ m \in 0..n /\ m - 1 \in 0..n
                BY <3>2
            <4>2. g[m] = g[m - 1] \o f[m]
                BY <2>1, <4>1 DEF Joins
            <4> QED
                BY <2>8, <4>1, <4>2
        <3> QED
            BY <3>1, <3>2
    <2>7. Joins(R, n + 1, f, h)
        BY <2>5, <2>6 DEF Joins
    <2> QED
        BY <2>2, <2>7
<1>3. \A n \in 0..N : n \in S
    <2> HIDE DEF S
    <2> QED
        BY <1>1, <1>2, Upwards
<1>4. N \in S
    <2> HIDE DEF S
    <2> QED
        BY <1>3
<1> QED
    BY <1>4

(* FlattenSeq puts a nonempty sequence of sequences together.              *)
LEMMA FlattenJoins ==
    ASSUME NEW R, NEW N \in Nat \ {0}, NEW f \in [1..N -> Seq(R)]
    PROVE  \E g : Joins(R, N, f, g) /\ FlattenSeq(f) = g[N]
<1> DEFINE Fits(h) == h = [i \in 1..N |-> IF i = 1 THEN f[i] ELSE h[i - 1] \o f[i]]
           c == CHOOSE h : Fits(h)
<1>1. Len(f) = N /\ N # 0 /\ N \in 1..N
    OBVIOUS
<1>2. FlattenSeq(f) = c[N]
    BY <1>1 DEF FlattenSeq
<1>3. PICK g : Joins(R, N, f, g)
    BY JoinsExist
<1>4. \E h : Fits(h)
    <2> DEFINE h == [i \in 1..N |-> g[i]]
    <2>1. \A i \in 1..N : i # 1 => i - 1 \in 1..N
        OBVIOUS
    <2>2. g[1] = f[1]
        <3>1. 1 \in 1..N /\ 1 - 1 = 0 /\ f[1] \in Seq(R)
            OBVIOUS
        <3>2. g[1] = <<>> \o f[1]
            BY <1>3, <3>1 DEF Joins
        <3> QED
            BY <3>1, <3>2
    <2>3. Fits(h)
        BY <1>3, <2>1, <2>2 DEF Joins
    <2> QED
        BY <2>3
<1>5. Fits(c)
    <2> HIDE DEF Fits
    <2> QED
        BY <1>4
<1> HIDE DEF c
<1> DEFINE S == {n \in 0..N : n # 0 => c[n] = g[n]}
<1>6. 0 \in S
    OBVIOUS
<1>7. ASSUME NEW n \in 0..(N - 1), n \in S PROVE n + 1 \in S
    <2>1. n + 1 \in 1..N /\ n + 1 \in 0..N /\ (n + 1) - 1 = n /\ (n + 1 = 1 <=> n = 0)
        OBVIOUS
    <2>2. c[n + 1] = IF n = 0 THEN f[1] ELSE c[n] \o f[n + 1]
        BY <1>5, <2>1
    <2>3. g[n + 1] = g[n] \o f[n + 1] /\ g[0] = <<>>
        BY <1>3, <2>1 DEF Joins
    <2>4. CASE n = 0
        <3>1. f[1] \in Seq(R)
            BY <2>1, <2>4
        <3>2. g[1] = <<>> \o f[1] /\ c[1] = f[1]
            <4> HIDE DEF Fits
            <4>1. n + 1 = 1
                BY <2>4
            <4> QED
                BY <2>2, <2>3, <2>4, <4>1
        <3>3. g[1] = c[1]
            BY <3>1, <3>2
        <3> HIDE DEF Fits
        <3> QED
            BY <2>1, <2>4, <3>3
    <2>5. CASE n # 0
        <3> HIDE DEF Fits
        <3> QED
            BY <1>7, <2>1, <2>2, <2>3, <2>5
    <2> QED
        BY <2>4, <2>5
<1>8. \A n \in 0..N : n \in S
    <2> HIDE DEF S
    <2> QED
        BY <1>6, <1>7, Upwards
<1>9. c[N] = g[N]
    <2>1. N \in S
        <3> HIDE DEF S
        <3> QED
            BY <1>8
    <2> HIDE DEF Fits
    <2> QED
        BY <1>1, <2>1
<1> QED
    BY <1>2, <1>3, <1>9

(* There is one way to put sequences together.                             *)
LEMMA JoinsAgree ==
    ASSUME NEW R, NEW N \in Nat, NEW f, NEW g, Joins(R, N, f, g), NEW h, Joins(R, N, f, h)
    PROVE  g[N] = h[N]
<1> DEFINE S == {n \in 0..N : g[n] = h[n]}
<1>1. 0 \in S
    BY DEF Joins
<1>2. ASSUME NEW n \in 0..(N - 1), n \in S PROVE n + 1 \in S
    <2>1. n + 1 \in 1..N /\ n + 1 \in 0..N /\ (n + 1) - 1 = n
        OBVIOUS
    <2>2. g[n + 1] = g[n] \o f[n + 1] /\ h[n + 1] = h[n] \o f[n + 1]
        BY <2>1 DEF Joins
    <2> QED
        BY <1>2, <2>1, <2>2
<1>3. \A n \in 0..N : n \in S
    <2> HIDE DEF S
    <2> QED
        BY <1>1, <1>2, Upwards
<1>4. N \in S
    <2> HIDE DEF S
    <2> QED
        BY <1>3
<1> QED
    BY <1>4

(* What is put together of empty sequences is empty, and of sequences over *)
(* R is one over R.                                                        *)
LEMMA FlattenIsSequence ==
    ASSUME NEW R, NEW N \in Nat \ {0}, NEW f \in [1..N -> Seq(R)]
    PROVE  /\ FlattenSeq(f) \in Seq(R)
           /\ (\A i \in 1..N : f[i] = <<>>) => FlattenSeq(f) = <<>>
<1>1. PICK g : Joins(R, N, f, g) /\ FlattenSeq(f) = g[N]
    BY FlattenJoins
<1>2. g[N] \in Seq(R)
    BY <1>1 DEF Joins
<1>3. ASSUME \A i \in 1..N : f[i] = <<>> PROVE g[N] = <<>>
    <2> DEFINE h == [n \in 0..N |-> <<>>]
    <2>1. <<>> \in Seq(R) /\ <<>> \o <<>> = <<>>
        OBVIOUS
    <2>2. \A n \in 1..N : n \in 0..N /\ n - 1 \in 0..N
        OBVIOUS
    <2>3. \A n \in 1..N : h[n] = h[n - 1] \o f[n]
        BY <1>3, <2>1, <2>2
    <2>5. h \in [0..N -> Seq(R)] /\ h[0] = <<>> /\ h[N] = <<>>
        BY <2>1
    <2>4. Joins(R, N, f, h) /\ h[N] = <<>>
        <3> HIDE DEF h
        <3> QED
            BY <2>3, <2>5 DEF Joins
    <2> HIDE DEF h
    <2> QED
        BY <1>1, <2>4, JoinsAgree
<1> QED
    BY <1>1, <1>2, <1>3

(* A function of sequences that goes through concatenation.                *)
Distributes(R, h) ==
    /\ h \in [Seq(R) -> Seq(R)] /\ h[<<>>] = <<>>
    /\ \A a, b \in Seq(R) : h[a \o b] = h[a] \o h[b]

(* It goes through FlattenSeq.                                             *)
Through(N, f, h, e) == e = [i \in 1..N |-> h[f[i]]]

(* A function that distributes may be applied to each sequence of a        *)
(* sequence of them.                                                       *)
LEMMA FlattenThrough ==
    ASSUME NEW R, NEW N \in Nat \ {0}, NEW f \in [1..N -> Seq(R)], NEW h, Distributes(R, h),
           NEW e, Through(N, f, h, e)
    PROVE  FlattenSeq(e) = h[FlattenSeq(f)]
<1>1. e \in [1..N -> Seq(R)] /\ \A i \in 1..N : e[i] = h[f[i]]
    BY DEF Distributes, Through
<1>2. PICK g : Joins(R, N, f, g) /\ FlattenSeq(f) = g[N]
    BY FlattenJoins
<1>3. PICK k : Joins(R, N, e, k) /\ FlattenSeq(e) = k[N]
    BY <1>1, FlattenJoins
<1> DEFINE m == [n \in 0..N |-> h[g[n]]]
<1>4. \A n \in 0..N : g[n] \in Seq(R) /\ m[n] = h[g[n]]
    BY <1>2 DEF Joins
<1>5. m \in [0..N -> Seq(R)] /\ m[0] = <<>>
    BY <1>2, <1>4 DEF Distributes, Joins
<1>6. ASSUME NEW n \in 1..N PROVE m[n] = m[n - 1] \o e[n]
    <2> HIDE DEF m
    <2>1. n \in 0..N /\ n - 1 \in 0..N /\ g[n] = g[n - 1] \o f[n] /\ f[n] \in Seq(R)
        <3>1. n \in 0..N /\ n - 1 \in 0..N /\ f[n] \in Seq(R)
            OBVIOUS
        <3> QED
            BY <1>2, <3>1 DEF Joins
    <2>2. g[n - 1] \in Seq(R) /\ m[n - 1] = h[g[n - 1]] /\ m[n] = h[g[n]]
        BY <1>4, <2>1
    <2> HIDE DEF m
    <2> QED
        BY <1>1, <2>1, <2>2 DEF Distributes
<1>7. Joins(R, N, e, m) /\ m[N] = h[g[N]]
    <2>1. N \in 0..N
        OBVIOUS
    <2>2. m[N] = h[g[N]]
        BY <1>4, <2>1
    <2> HIDE DEF m
    <2> QED
        BY <1>1, <1>5, <1>6, <2>2 DEF Joins
<1> HIDE DEF m
<1>8. k[N] = m[N]
    BY <1>3, <1>7, JoinsAgree
<1> QED
    BY <1>2, <1>3, <1>7, <1>8

(* One of the sequences becomes longer and nothing comes after it.         *)
Longer(R, N, f, p, q, e) ==
    /\ N \in Nat \ {0} /\ f \in [1..N -> Seq(R)] /\ e \in [1..N -> Seq(R)]
    /\ p \in 1..N /\ q \in Seq(R)
    /\ \A i \in 1..N : i > p => f[i] = <<>>
    /\ e[p] = f[p] \o q /\ \A i \in 1..N \ {p} : e[i] = f[i]

(* When one of the sequences gets more behind it and those after it are    *)
(* empty, so does the whole.                                               *)
LEMMA FlattenLonger ==
    ASSUME NEW R, NEW N, NEW f, NEW p, NEW q, NEW e, Longer(R, N, f, p, q, e)
    PROVE  FlattenSeq(e) = FlattenSeq(f) \o q
<1> USE DEF Longer
<1>0. ASSUME NEW a \in Seq(R), NEW b \in Seq(R), NEW c \in Seq(R)
      PROVE  (a \o b) \o c = a \o (b \o c)
    BY ONLY a \in Seq(R), b \in Seq(R), c \in Seq(R)
<1>1. PICK g : Joins(R, N, f, g) /\ FlattenSeq(f) = g[N]
    BY FlattenJoins
<1>2. PICK k : Joins(R, N, e, k) /\ FlattenSeq(e) = k[N]
    BY FlattenJoins
<1> DEFINE m == [n \in 0..N |-> IF n < p THEN g[n] ELSE g[n] \o q]
<1>3. \A n \in 0..N : g[n] \in Seq(R) /\ m[n] = IF n < p THEN g[n] ELSE g[n] \o q
    BY <1>1 DEF Joins
<1>4. m \in [0..N -> Seq(R)]
    BY <1>3
<1>5. m[0] = <<>>
    <2>1. 0 \in 0..N /\ 0 < p
        OBVIOUS
    <2> QED
        BY <1>1, <1>3, <2>1 DEF Joins
<1>6. ASSUME NEW n \in 1..N PROVE m[n] = m[n - 1] \o e[n]
    <2> HIDE DEF m
    <2>1. n \in 0..N /\ n - 1 \in 0..N /\ g[n] = g[n - 1] \o f[n] /\ f[n] \in Seq(R)
        <3>1. n \in 0..N /\ n - 1 \in 0..N /\ f[n] \in Seq(R)
            OBVIOUS
        <3> QED
            BY <1>1, <3>1 DEF Joins
    <2>2. /\ g[n - 1] \in Seq(R) /\ m[n - 1] = IF n - 1 < p THEN g[n - 1] ELSE g[n - 1] \o q
          /\ m[n] = IF n < p THEN g[n] ELSE g[n] \o q
        BY <1>3, <2>1
    <2> HIDE DEF m
    <2>3. CASE n < p
        <3>1. n - 1 < p /\ n # p
            BY <2>3
        <3> QED
            BY <2>1, <2>2, <2>3, <3>1
    <2>4. CASE n = p
        <3>1. n - 1 < p /\ ~(n < p)
            BY <2>4
        <3>2. m[n] = (g[n - 1] \o f[n]) \o q /\ m[n - 1] = g[n - 1] /\ e[n] = f[n] \o q
            BY <2>1, <2>2, <2>4, <3>1
        <3>3. (g[n - 1] \o f[n]) \o q = g[n - 1] \o (f[n] \o q)
            BY <1>0, <2>1, <2>2
        <3> QED
            BY <3>2, <3>3
    <2>5. CASE n > p
        <3>1. ~(n - 1 < p) /\ ~(n < p) /\ n # p
            BY <2>5
        <3>2. e[n] = <<>> /\ f[n] = <<>>
            BY <2>5, <3>1
        <3>3. g[n] = g[n - 1]
            BY <2>1, <2>2, <3>2
        <3>4. m[n] = g[n - 1] \o q /\ m[n - 1] = g[n - 1] \o q
            BY <2>2, <3>1, <3>3
        <3>5. (g[n - 1] \o q) \o <<>> = g[n - 1] \o q
            BY <2>2
        <3> QED
            BY <3>2, <3>4, <3>5
    <2>6. n < p \/ n = p \/ n > p
        OBVIOUS
    <2> QED
        BY <2>3, <2>4, <2>5, <2>6
<1>7. Joins(R, N, e, m) /\ m[N] = g[N] \o q
    <2>1. N \in 0..N /\ ~(N < p)
        OBVIOUS
    <2>2. m[N] = g[N] \o q
        BY <1>3, <2>1
    <2> HIDE DEF m
    <2> QED
        BY <1>4, <1>5, <1>6, <2>2 DEF Joins
<1> HIDE DEF m
<1>8. k[N] = m[N]
    <2>1. N \in Nat
        OBVIOUS
    <2> QED
        BY ONLY <1>2, <1>7, <2>1, JoinsAgree
<1> QED
    BY <1>1, <1>2, <1>7, <1>8

(* Induction over the length of a sequence.                                *)
LEMMA SequenceInduct ==
    ASSUME NEW R, NEW S \in SUBSET Seq(R), <<>> \in S,
           \A s \in S : \A r \in R : Append(s, r) \in S
    PROVE  \A s \in Seq(R) : s \in S
<1> DEFINE T == {n \in Nat : \A s \in Seq(R) : Len(s) = n => s \in S}
<1>1. 0 \in T
    <2>1. \A s \in Seq(R) : Len(s) = 0 => s = <<>>
        OBVIOUS
    <2> QED
        BY <2>1
<1>2. ASSUME NEW n \in T PROVE n + 1 \in T
    <2>1. n \in Nat /\ n + 1 \in Nat
        OBVIOUS
    <2>2. ASSUME NEW s \in Seq(R), Len(s) = n + 1 PROVE s \in S
        <3> DEFINE front == [i \in 1..n |-> s[i]]
        <3>1. front \in Seq(R) /\ Len(front) = n /\ s[n + 1] \in R
            BY <2>1, <2>2
        <3>2. s = Append(front, s[n + 1])
            BY <2>1, <2>2
        <3>3. front \in S
            BY <3>1
        <3> QED
            BY <3>1, <3>2, <3>3
    <2> QED
        BY <2>1, <2>2
<1>3. \A n \in Nat : n \in T
    <2> HIDE DEF T
    <2> QED
        BY <1>1, <1>2, NatInduct
<1>4. ASSUME NEW s \in Seq(R) PROVE s \in S
    <2>1. Len(s) \in Nat
        OBVIOUS
    <2> QED
        BY <1>3, <2>1
<1> QED
    BY <1>4

(* A function that is applied element by element goes through              *)
(* concatenation.                                                          *)
LEMMA DistributesWhen ==
    ASSUME NEW R, NEW h \in [Seq(R) -> Seq(R)], h[<<>>] = <<>>, NEW g \in [R -> Seq(R)],
           \A s \in Seq(R) : \A r \in R : h[Append(s, r)] = h[s] \o g[r]
    PROVE  Distributes(R, h)
<1>0. ASSUME NEW a \in Seq(R), NEW b \in Seq(R), NEW c \in Seq(R)
      PROVE  (a \o b) \o c = a \o (b \o c)
    BY ONLY a \in Seq(R), b \in Seq(R), c \in Seq(R)
<1>1. ASSUME NEW a \in Seq(R), NEW b \in Seq(R), NEW r \in R
      PROVE  /\ a \o Append(b, r) = Append(a \o b, r)
             /\ Append(b, r) \in Seq(R) /\ a \o b \in Seq(R)
    BY ONLY a \in Seq(R), b \in Seq(R), r \in R
<1>2. ASSUME NEW a \in Seq(R)
      PROVE  \A b \in Seq(R) : h[a \o b] = h[a] \o h[b]
    <2> DEFINE S == {b \in Seq(R) : h[a \o b] = h[a] \o h[b]}
    <2>1. <<>> \in S
        <3>1. <<>> \in Seq(R) /\ a \o <<>> = a /\ h[a] \in Seq(R)
            OBVIOUS
        <3>2. h[a] \o <<>> = h[a]
            BY <3>1
        <3> QED
            BY <3>1, <3>2
    <2>2. ASSUME NEW b \in S, NEW r \in R PROVE Append(b, r) \in S
        <3>1. b \in Seq(R) /\ h[a \o b] = h[a] \o h[b]
            OBVIOUS
        <3>2. /\ a \o Append(b, r) = Append(a \o b, r)
              /\ Append(b, r) \in Seq(R) /\ a \o b \in Seq(R)
            BY <1>1, <3>1
        <3>3. h[Append(a \o b, r)] = (h[a] \o h[b]) \o g[r]
            BY <3>1, <3>2
        <3>4. h[a] \in Seq(R) /\ h[b] \in Seq(R) /\ g[r] \in Seq(R)
            BY <3>1
        <3>5. (h[a] \o h[b]) \o g[r] = h[a] \o (h[b] \o g[r])
            BY <1>0, <3>4
        <3>6. h[Append(b, r)] = h[b] \o g[r]
            BY <3>1
        <3> QED
            BY <3>2, <3>3, <3>5, <3>6
    <2>3. S \in SUBSET Seq(R)
        OBVIOUS
    <2> HIDE DEF S
    <2>4. \A b \in Seq(R) : b \in S
        BY <2>1, <2>2, <2>3, SequenceInduct
    <2> QED
        BY <2>4 DEF S
<1> QED
    BY <1>2 DEF Distributes

(* Empty sequences at the end do not count.                                *)
Padded(R, N, f, g) ==
    /\ N \in Nat \ {0} /\ f \in Seq(Seq(R)) /\ Len(f) <= N
    /\ g = [i \in 1..N |-> IF i <= Len(f) THEN f[i] ELSE <<>>]

(* Empty sequences at the end change nothing.                              *)
LEMMA FlattenPadded ==
    ASSUME NEW R, NEW N, NEW f, NEW g, Padded(R, N, f, g)
    PROVE  FlattenSeq(g) = FlattenSeq(f)
<1> DEFINE L == Len(f)
<1>1. /\ N \in Nat \ {0} /\ L \in 0..N /\ <<>> \in Seq(R) /\ f \in Seq(Seq(R))
      /\ g = [i \in 1..N |-> IF i <= L THEN f[i] ELSE <<>>]
    BY DEF Padded
<1>2. g \in [1..N -> Seq(R)] /\ f \in [1..L -> Seq(R)]
    BY <1>1
<1>3. \A i \in 1..N : g[i] = IF i <= L THEN f[i] ELSE <<>>
    BY <1>1
<1> HIDE DEF L
<1>4. PICK k : Joins(R, N, g, k) /\ FlattenSeq(g) = k[N]
    BY <1>1, <1>2, FlattenJoins
<1>5. ASSUME NEW n \in 0..N, n >= L PROVE k[n] = k[L]
    <2> DEFINE S == {m \in 0..N : m >= L => k[m] = k[L]}
    <2>1. 0 \in S
        BY <1>1
    <2>2. ASSUME NEW m \in 0..(N - 1), m \in S PROVE m + 1 \in S
        <3>1. m + 1 \in 1..N /\ m + 1 \in 0..N /\ (m + 1) - 1 = m /\ m \in 0..N
            BY <1>1
        <3>2. k[m + 1] = k[m] \o g[m + 1] /\ k[m] \in Seq(R)
            BY <1>4, <3>1 DEF Joins
        <3>3. CASE m + 1 > L
            <4>1. g[m + 1] = <<>> /\ m >= L
                BY <1>1, <1>3, <3>1, <3>3
            <4>2. k[m] \o <<>> = k[m]
                BY <3>2
            <4> QED
                BY <2>2, <3>1, <3>2, <4>1, <4>2
        <3>4. CASE m + 1 = L
            BY <3>1, <3>4
        <3>5. CASE m + 1 < L
            BY <1>1, <3>1, <3>5
        <3>6. m + 1 > L \/ m + 1 = L \/ m + 1 < L
            BY <1>1
        <3> QED
            BY <3>3, <3>4, <3>5, <3>6
    <2>3. \A m \in 0..N : m \in S
        <3> HIDE DEF S
        <3> QED
            BY <1>1, <2>1, <2>2, Upwards
    <2> QED
        BY <1>5, <2>3
<1>6. k[N] = k[L]
    BY <1>1, <1>5
<1>7. CASE L = 0
    <2>1. k[L] = <<>>
        BY <1>4, <1>7 DEF Joins
    <2>2. f = <<>>
        BY <1>1, <1>7 DEF L
    <2>3. FlattenSeq(<<>>) = <<>>
        BY DEF FlattenSeq
    <2> QED
        BY <1>4, <1>6, <2>1, <2>2, <2>3
<1>8. CASE L # 0
    <2>1. L \in Nat \ {0}
        BY <1>1, <1>8
    <2>2. PICK h : Joins(R, L, f, h) /\ FlattenSeq(f) = h[L]
        BY <1>2, <2>1, FlattenJoins
    <2> DEFINE c == [n \in 0..L |-> k[n]]
    <2>3. Joins(R, L, f, c)
        <3>1. c \in [0..L -> Seq(R)] /\ c[0] = <<>>
            BY <1>1, <1>4 DEF Joins
        <3>2. ASSUME NEW n \in 1..L PROVE c[n] = c[n - 1] \o f[n]
            <4>1. n \in 1..N /\ n - 1 \in 0..L /\ n \in 0..L /\ n <= L
                BY <1>1
            <4>2. k[n] = k[n - 1] \o g[n] /\ g[n] = f[n]
                BY <1>3, <1>4, <4>1 DEF Joins
            <4> QED
                BY <4>1, <4>2
        <3> HIDE DEF c
        <3> QED
            BY <3>1, <3>2 DEF Joins
    <2>4. c[L] = k[L]
        BY <2>1
    <2> HIDE DEF c
    <2>5. h[L] = c[L]
        BY <2>1, <2>2, <2>3, JoinsAgree
    <2> QED
        BY <1>4, <1>6, <2>2, <2>4, <2>5
<1> QED
    BY <1>7, <1>8

=============================================================================

-------------------------- MODULE MCStorageEngine --------------------------
(* StorageEngine with a table of two pages and one of a page.              *)
EXTENDS StorageEngine, TLC

CONSTANTS t1, t2, s1, s2, s3

(* A page holds two narrow rows or a wide one.                             *)
Sizes == [r \in Rows |-> IF r = "wide" THEN 2 ELSE 1]

ThreePages == t1 :> <<<<"narrow", "narrow">>, <<"narrow">>>> @@ t2 :> <<<<"wide">>>>

(* Pages no statement can make too large with rows of one size.            *)
NarrowPages == t1 :> <<<<"narrow", "narrow">>, <<"narrow">>>> @@ t2 :> <<<<"narrow">>>>

NarrowRows == {{"narrow"}}

Symmetry == Permutations(Sessions)
=============================================================================

-------------------------- MODULE MCFailureRecovery --------------------------
(* FailureRecovery with WHERE clauses of one row, or of all rows.          *)
EXTENDS FailureRecovery, TLC

CONSTANTS v1, v2

SingleRows == {{k} : k \in Keys}
AllRows == {Keys}

Symmetry == Permutations(Values)
=============================================================================

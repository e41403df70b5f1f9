------------------------------ MODULE MCSession ------------------------------
(* Session with clients that send every kind of statement.                 *)
EXTENDS Session, TLC

CONSTANTS a, b

Ask(kind, where) == [kind |-> kind, tables |-> where]

(* One table that comes and goes, and one that a join reads before it.     *)
ClientStatements ==
    {Ask("SELECT", <<b, a>>), Ask("INSERT", <<a>>), Ask("CREATE", <<a>>), Ask("DROP", <<a>>)}

ClientDatabases == {{a, b}}

=============================================================================

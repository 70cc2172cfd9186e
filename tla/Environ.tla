------------------------------ MODULE Environ -------------------------------
(***************************************************************************)
(* An environment: a function from variables to values, <<>> when empty.   *)
(***************************************************************************)

\* The variable is set, whatever it was: Command::env, map.insert, -e.
Put(env, var, val) == [v \in DOMAIN env \cup {var} |-> IF v = var THEN val ELSE env[v]]

\* Every variable of the first is set in the second.
Over(a, b) == [v \in DOMAIN a \cup DOMAIN b |-> IF v \in DOMAIN a THEN a[v] ELSE b[v]]
=============================================================================

------------------------------- MODULE MCApps -------------------------------
(* Small instances of Apps for TLC.                                        *)
EXTENDS Apps, TLC

CONSTANTS c1, c2, l1,           \* workers: of the client, of the CLI
          bound, bond, moved    \* intents

MCAppOf == [w \in Worker |-> IF w = l1 THEN "cli" ELSE "client"]

MCWants == [i \in Intent |-> CASE i = bound -> "bound"
                               [] i = bond  -> "binding"
                               [] i = moved -> "import"]

MCVia == [i \in Intent |-> IF i = bond THEN "cli" ELSE "client"]
=============================================================================

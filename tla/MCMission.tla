----------------------------- MODULE MCMission -----------------------------
(* Small instances of Mission.                                             *)
EXTENDS Mission, TLC

CONSTANTS a, b, c,     \* tasks
          r1, r2,      \* runs
          q1, q2       \* requests

\* b waits for a
MCPair == [t \in {a, b} |-> IF t = b THEN {a} ELSE {}]
\* b waits for a; c is independent
MCDeps == [t \in {a, b, c} |-> IF t = b THEN {a} ELSE {}]

\* Runs are interchangeable, and so are requests (safety runs only).
MCSymmetry == Permutations(Runs) \union Permutations(Calls)
=============================================================================

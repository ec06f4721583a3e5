------------------------------ MODULE MCFleet ------------------------------
(* Small instances of Fleet.                                               *)
EXTENDS Fleet, TLC

CONSTANTS t1, t2,   \* tasks
          n1, n2,   \* nodes
          d1, d2,   \* drivers
          s1,       \* the sweep
          c1, c2    \* requests

\* Nodes, drivers and requests are interchangeable (safety runs only).
MCSymmetry == Permutations(Nodes) \union Permutations(Drivers) \union Permutations(Calls)
=============================================================================

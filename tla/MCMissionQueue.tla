--------------------------- MODULE MCMissionQueue ---------------------------
(* Small instances of MissionQueue.                                        *)
EXTENDS MissionQueue, TLC

CONSTANTS a, b,        \* tasks
          r1, r2, r3,  \* runs: deliveries of the job
          q1, q2,      \* requests to the mission
          c1, c2, c3   \* requests to execute or resume

\* b waits for a
MCPair == [t \in {a, b} |-> IF t = b THEN {a} ELSE {}]

\* A bound: one fault in a behaviour, and the loss of a lock by a live worker
\* not together with requests to the mission.
OneFault == crashes + lost <= 1 /\ (lost = 0 \/ \A q \in Calls : pc[q] = "idle")

\* Deliveries, requests and clients are interchangeable (safety runs only).
MCSymmetry == Permutations(Runs) \union Permutations(Calls) \union Permutations(Clients)
=============================================================================

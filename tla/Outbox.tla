------------------------------- MODULE Outbox -------------------------------
(***************************************************************************)
(* What a buffer in front of an append-only table promises, whatever calls *)
(* of flush() overlap: every row that was accepted waits, is in the hands  *)
(* of one writer, or was settled (written, or given up after a retry); it  *)
(* goes that way once and never back, and a statement settles rows of one  *)
(* tenant.  AppendBuffer.tla implements this specification.                *)
(***************************************************************************)
CONSTANTS Rows,              \* the rows that may come
          Tenants, TenantOf  \* TenantOf[r]: the tenant whose row it is

VARIABLES waiting,   \* rows accepted and not yet taken
          underway,  \* rows a writer has taken
          settled    \* rows written, or given up

vars == <<waiting, underway, settled>>

Init == waiting = {} /\ underway = {} /\ settled = {}

New == Rows \ (waiting \union underway \union settled)

Accept(r) ==
    /\ waiting' = waiting \union {r}
    /\ UNCHANGED <<underway, settled>>

\* All that waits is taken, with the rows of S that have just come.
Take(S) ==
    /\ underway' = underway \union waiting \union S
    /\ waiting' = {}
    /\ UNCHANGED settled

Settle(S) ==
    /\ underway' = underway \ S
    /\ settled' = settled \union S
    /\ UNCHANGED waiting

Next ==
    \/ \E r \in New : Accept(r) \/ Take({r})
    \/ Take({})
    \/ \E o \in Tenants : \E S \in SUBSET {r \in underway : TenantOf[r] = o} : Settle(S)

Spec == Init /\ [][Next]_vars
=============================================================================

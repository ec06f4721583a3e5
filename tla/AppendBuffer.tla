---------------------------- MODULE AppendBuffer ----------------------------
(***************************************************************************)
(* The buffer in front of the event log and the audit trail               *)
(* (AppendBuffer).  Rows are pushed as requests produce them and written  *)
(* in batches, one statement per tenant.  flush() is called by a timer,   *)
(* by the row that fills a batch, by a producer that found the buffer     *)
(* full, by every read of the table and at shutdown; calls that overlap   *)
(* wait for the batch in flight.                                          *)
(*                                                                        *)
(* One action is what runs between two awaits.  When a batch has ended,   *)
(* `inFlight` is cleared first and those who waited for it run a moment   *)
(* later, one directly after the other (their promise reactions are       *)
(* queued together); others may run in between.                           *)
(***************************************************************************)
EXTENDS Naturals, FiniteSets

CONSTANTS
    MaxAdded,     \* bound: rows added; they are numbered as they arrive
    Tenants, TenantOf,
    MaxBatch, Capacity,
    MaxFlushes    \* bound: calls of flush(), numbered as they are made

AbRows  == 1 .. MaxAdded
Flushes == 1 .. MaxFlushes
NoFlush == 0

ASSUME AppendBufferAssumption ==
    /\ MaxAdded \in Nat /\ MaxFlushes \in Nat /\ MaxBatch \in Nat \ {0} /\ Capacity \in Nat \ {0}
    /\ TenantOf \in [AbRows -> Tenants]

VARIABLES
    added,     \* how many rows were added
    buffer,    \* the rows waiting
    armed,     \* the timer is set
    inFlight,  \* the call whose batch the others wait for
    flush,     \* where each call of flush() stands
    settled,   \* the rows written, or given up after a retry
    missed,    \* history: rows a call should have seen written when it returned
    overtaken  \* history: the calls that another batch went past

abVars == <<added, buffer, armed, inFlight, flush, settled, missed, overtaken>>

AbInit ==
    /\ added = 0 /\ buffer = {} /\ armed = FALSE /\ inFlight = NoFlush
    /\ flush = [p \in Flushes |-> [pc |-> "idle", on |-> NoFlush, batch |-> {}, before |-> 0]]
    /\ settled = {}
    /\ missed = [p \in Flushes |-> {}]
    /\ overtaken = {}

AbAt(p, step)  == flush[p].pc = step
WaitingOn(p)   == {q \in Flushes : AbAt(q, "waiting") /\ flush[q].on = p}
\* Batches that nobody can wait for: another one took their place.
Shadowed       == {q \in Flushes : AbAt(q, "writing") /\ q # inFlight}

\* What a call returns past without having waited for it.
Misses(p) == (1 .. flush[p].before) \ settled
-----------------------------------------------------------------------------
(* flush(), up to its first await; the buffer holds `rows`, `n` were added,  *)
(* and the timer is set or not                                              *)

\* (mutant) a call that finds a batch in flight is content with that batch
FlushJoin(p, rows, n, timer) ==
    /\ inFlight # NoFlush
    /\ flush' = [flush EXCEPT ![p] = [@ EXCEPT !.pc = "returned", !.before = n]]
    /\ missed' = [missed EXCEPT ![p] = (1 .. n) \ settled]
    /\ buffer' = rows /\ armed' = timer
    /\ UNCHANGED <<inFlight, overtaken>>

\* A batch is being written: wait for it.
FlushWait(p, rows, n, timer) ==
    /\ inFlight # NoFlush
    /\ flush' = [flush EXCEPT ![p] = [@ EXCEPT !.pc = "waiting", !.on = inFlight,
                                               !.before = n]]
    /\ buffer' = rows /\ armed' = timer
    /\ overtaken' = overtaken \union {q \in {p} : Shadowed # {}}
    /\ UNCHANGED <<inFlight, missed>>

\* (mutant) the batch is not taken out of the buffer
FlushTakeKeeps(p, rows, n) ==
    /\ inFlight = NoFlush /\ rows # {}
    /\ flush' = [flush EXCEPT ![p] = [@ EXCEPT !.pc = "writing", !.batch = rows,
                                               !.before = n]]
    /\ inFlight' = p /\ buffer' = rows /\ armed' = FALSE
    /\ UNCHANGED <<missed, overtaken>>

\* Take what is there and write it; those who wait for an earlier batch that
\* has just ended are overtaken.
FlushTake(p, rows, n) ==
    /\ inFlight = NoFlush /\ rows # {}
    /\ flush' = [flush EXCEPT ![p] = [@ EXCEPT !.pc = "writing", !.batch = rows,
                                               !.before = n]]
    /\ inFlight' = p /\ buffer' = {} /\ armed' = FALSE
    /\ overtaken' = overtaken \union {q \in Flushes : AbAt(q, "waiting")}
                              \union {q \in {p} : Shadowed # {}}
    /\ UNCHANGED missed

FlushNothing(p, rows, n) ==
    /\ inFlight = NoFlush /\ rows = {}
    /\ flush' = [flush EXCEPT ![p] = [@ EXCEPT !.pc = "returned", !.before = n]]
    /\ missed' = [missed EXCEPT ![p] = (1 .. n) \ settled]
    /\ buffer' = {} /\ armed' = FALSE
    /\ overtaken' = overtaken \union {q \in {p} : Shadowed # {}}
    /\ UNCHANGED inFlight

Flush(p, rows, n, timer) ==
    /\ AbAt(p, "idle") /\ \A q \in Flushes : q < p => ~AbAt(q, "idle")
    /\ \/ FlushWait(p, rows, n, timer)
       \/ FlushTake(p, rows, n)
       \/ FlushNothing(p, rows, n)
-----------------------------------------------------------------------------
(* Who calls it                                                             *)

\* (mutant) the timer is only set while no batch is in flight
ArmQuiet == armed' = (armed \/ inFlight = NoFlush)
Arm == armed' = TRUE

\* add(): the buffer is full, where the producer waits for the call, or a batch is
\* complete, where nobody does; otherwise the timer will see to it.
Add ==
    LET rows == buffer \union {added + 1}
        size == Cardinality(rows)
    IN
    /\ added < MaxAdded
    /\ added' = added + 1
    /\ \/ /\ size >= Capacity \/ size >= MaxBatch
          /\ \E p \in Flushes : Flush(p, rows, added + 1, armed)
       \/ /\ size < Capacity /\ size < MaxBatch
          /\ buffer' = rows /\ Arm
          /\ UNCHANGED <<inFlight, flush, missed, overtaken>>
    /\ UNCHANGED settled

\* The timer clears itself and calls flush.
TimerFires ==
    /\ armed
    /\ \E p \in Flushes : Flush(p, buffer, added, FALSE)
    /\ UNCHANGED <<added, settled>>

\* beforeRead() of the event and audit repositories, and their shutdown hook.
ReadDrains ==
    /\ \E p \in Flushes : Flush(p, buffer, added, armed)
    /\ UNCHANGED <<added, settled>>
-----------------------------------------------------------------------------
(* The batch in flight                                                      *)

\* One tenant's rows are written, at the first attempt or the second, or given
\* up.  After the last tenant the promise settles, which clears `inFlight`,
\* whoever's it has become.
WriteTenant(p, o) ==
    LET part == {r \in flush[p].batch : TenantOf[r] = o}
        rest == flush[p].batch \ part
    IN
    /\ AbAt(p, "writing") /\ part # {}
    /\ settled' = settled \union part
    /\ flush' = [flush EXCEPT ![p] = [@ EXCEPT !.batch = rest,
                                               !.pc = IF rest = {} THEN "ended" ELSE "writing"]]
    /\ inFlight' = IF rest = {} THEN NoFlush ELSE inFlight
    /\ UNCHANGED <<added, buffer, armed, missed, overtaken>>

\* Those who waited run: the owner of the batch returns; the first of the
\* others takes the rows that came in meanwhile, the rest find none and return.
WakeTaking(p, w) ==
    /\ AbAt(p, "ended") /\ w \in WaitingOn(p) /\ buffer # {}
    /\ flush' = [q \in Flushes |->
                    IF q = w THEN [flush[q] EXCEPT !.pc = "writing", !.batch = buffer]
                    ELSE IF q \in WaitingOn(p) \union {p} THEN [flush[q] EXCEPT !.pc = "returned"]
                    ELSE flush[q]]
    /\ missed' = [q \in Flushes |-> IF q \in (WaitingOn(p) \union {p}) \ {w} THEN Misses(q) ELSE missed[q]]
    /\ overtaken' = overtaken \union ({q \in Flushes : AbAt(q, "waiting")} \ {w})
    /\ inFlight' = w /\ buffer' = {} /\ armed' = FALSE
    /\ UNCHANGED <<added, settled>>

WakeDone(p) ==
    /\ AbAt(p, "ended") /\ (WaitingOn(p) = {} \/ buffer = {})
    /\ flush' = [q \in Flushes |-> IF q \in WaitingOn(p) \union {p}
                                   THEN [flush[q] EXCEPT !.pc = "returned"] ELSE flush[q]]
    /\ missed' = [q \in Flushes |-> IF q \in WaitingOn(p) \union {p} THEN Misses(q) ELSE missed[q]]
    /\ UNCHANGED <<added, buffer, armed, inFlight, settled, overtaken>>

AbNext ==
    \/ Add \/ TimerFires \/ ReadDrains
    \/ \E p \in Flushes :
          \/ \E o \in Tenants : WriteTenant(p, o)
          \/ \E w \in Flushes : WakeTaking(p, w)
          \/ WakeDone(p)

AbSpec == AbInit /\ [][AbNext]_abVars
-----------------------------------------------------------------------------
\* Rows, calls and the timer are of their types.
AbTypeOK ==
    /\ added \in 0 .. MaxAdded /\ buffer \subseteq AbRows
    /\ armed \in BOOLEAN /\ inFlight \in Flushes \union {NoFlush}
    /\ flush \in [Flushes -> [pc : {"idle", "waiting", "writing", "ended", "returned"},
                              on : Flushes \union {NoFlush}, batch : SUBSET AbRows,
                              before : 0 .. MaxAdded]]
    /\ settled \subseteq AbRows
    /\ missed \in [Flushes -> SUBSET AbRows] /\ overtaken \subseteq Flushes

\* No row is left behind in the buffer: a timer will fire for it, or a call that
\* will take it waits for a batch that is still going (add() relies on one or the
\* other, whatever batch is in flight).
NothingStranded ==
    buffer # {} => \/ armed
                   \/ \E p, q \in Flushes : p \in WaitingOn(q) /\ flush[q].pc \in {"writing", "ended"}

\* Whoever drained the buffer finds every earlier row written or given up,
\* unless another call took rows while it waited: then it returns while those
\* are still being written.
DrainedReads == \A p \in Flushes \ overtaken : missed[p] = {}

BeingWritten == UNION {flush[p].batch : p \in Flushes}
Box == INSTANCE Outbox WITH Rows <- AbRows, waiting <- buffer, underway <- BeingWritten

\* Calls that overlap never write a row twice and never lose one: a read that
\* forces a drain while the timer fires or a batch fills does not give two
\* writers the same rows.
RowsWrittenOnce == Box!Spec
=============================================================================

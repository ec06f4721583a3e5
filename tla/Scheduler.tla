------------------------------ MODULE Scheduler ------------------------------
(***************************************************************************)
(* Scheduled work on several instances: the scheduler lease                *)
(* (InstanceService) and the schedules only its holder may tick            *)
(* (TriggerEngine).  An instance believes in its lease until its next      *)
(* heartbeat says otherwise; a tick awaits every run it starts, to the end *)
(* of the run, before it writes the next due time, and the timer starts    *)
(* further ticks meanwhile.                                                *)
(***************************************************************************)
EXTENDS Naturals, FiniteSets

CONSTANTS
    Instances,    \* the processes of the deployment
    Schedules,    \* the enabled triggers of type SCHEDULE
    Ticks,        \* executions of tickSchedules
    MaxDue        \* bound: how often a schedule becomes due

ASSUME SchedulerAssumption == MaxDue \in Nat /\ Instances # {}

VARIABLES
    lease,      \* lease[i]: leaderUntil of i's row lies ahead
    leader,     \* what each instance believes
    state,      \* "up", "draining", "gone"
    beat,       \* the heartbeat of each instance: "idle", "won" or "lost" (evaluated, not yet written)
    due,        \* the schedules whose nextRunAt has passed
    tick,       \* where each tick is and what it has read
    started,    \* history: runs started since the schedule was last due
    dues,       \* how often each schedule became due
    disturbed   \* history: what happened of "race", "overlap", "failure"

ssVars == <<lease, leader, state, beat, due, tick, started, dues, disturbed>>
leaseVars == <<lease, leader, state, beat>>
tickVars == <<due, tick, started, dues>>

TickRow(step) == [pc |-> step, inst |-> CHOOSE i \in Instances : TRUE, left |-> {}]

SsInit ==
    /\ lease = [i \in Instances |-> FALSE]
    /\ leader = [i \in Instances |-> FALSE]
    /\ state = [i \in Instances |-> "up"]
    /\ beat = [i \in Instances |-> "idle"]
    /\ due = Schedules
    /\ tick = [k \in Ticks |-> TickRow("idle")]
    /\ started = [s \in Schedules |-> 0]
    /\ dues = [s \in Schedules |-> 1]
    /\ disturbed = {}

Ticking(k) == tick[k].pc \notin {"idle", "done"}
IsLeader(i) == leader[i] /\ state[i] = "up"
Note(what) == disturbed' = disturbed \union {what}
-----------------------------------------------------------------------------
(* The lease                                                                *)

\* (mutant) only the claimant's own row is looked at
UnheldByMe(i) == TRUE
\* NOT EXISTS (another row whose leaderUntil lies ahead), in the snapshot of the
\* statement.
Unheld(i) == \A j \in Instances \ {i} : ~lease[j]

\* claimLeadership updates the claimant's own row.  Two such updates write
\* different rows, so neither waits for the other, and each judges by the state
\* before both.
ClaimSees(i) ==
    /\ state[i] = "up" /\ beat[i] = "idle"
    /\ beat' = [beat EXCEPT ![i] = IF Unheld(i) THEN "won" ELSE "lost"]
    /\ disturbed' = IF \E j \in Instances \ {i} : beat[j] = "won" THEN disturbed \union {"race"}
                                                               ELSE disturbed
    /\ UNCHANGED <<lease, leader, state, tickVars>>

ClaimWrites(i) ==
    /\ beat[i] # "idle"
    /\ lease' = [lease EXCEPT ![i] = @ \/ beat[i] = "won"]
    /\ leader' = [leader EXCEPT ![i] = beat[i] = "won"]
    /\ beat' = [beat EXCEPT ![i] = "idle"]
    /\ UNCHANGED <<state, tickVars, disturbed>>

\* The heartbeat fails: the instance stops believing.
BeatFails(i) ==
    /\ state[i] = "up" /\ leader[i]
    /\ leader' = [leader EXCEPT ![i] = FALSE]
    /\ beat' = [beat EXCEPT ![i] = "idle"]
    /\ UNCHANGED <<lease, state, tickVars, disturbed>>

\* onApplicationShutdown: no new work, then the lease is given up.
Drain(i) ==
    /\ state[i] = "up"
    /\ state' = [state EXCEPT ![i] = "draining"]
    /\ UNCHANGED <<lease, leader, beat, tickVars, disturbed>>

\* The rest of a tick that was under way is lost; an update that is on its way
\* to the database is not.
Stop(i) ==
    /\ state' = [state EXCEPT ![i] = "gone"]
    /\ leader' = [leader EXCEPT ![i] = FALSE]
    /\ tick' = [k \in Ticks |-> IF tick[k].inst = i /\ Ticking(k) THEN TickRow("done") ELSE tick[k]]
    /\ disturbed' = IF \E k \in Ticks : tick[k].inst = i /\ Ticking(k)
                    THEN disturbed \union {"failure"} ELSE disturbed
    /\ UNCHANGED <<beat, due, started, dues>>

\* releaseLeadership and markStopped.
ShutDown(i) == state[i] = "draining" /\ Stop(i) /\ lease' = [lease EXCEPT ![i] = FALSE]
\* The process dies: the row keeps its lease.
Die(i) == state[i] # "gone" /\ Stop(i) /\ UNCHANGED lease

\* The lease of an instance that does not renew it runs out; one that is up and
\* believes in it renews it in time.
LeaseEnds(i) ==
    /\ lease[i] /\ ~IsLeader(i) /\ beat[i] # "won"
    /\ lease' = [lease EXCEPT ![i] = FALSE]
    /\ UNCHANGED <<leader, state, beat, tickVars, disturbed>>
-----------------------------------------------------------------------------
(* The schedules                                                            *)

TickAt(k, step) == tick[k].pc = step /\ state[tick[k].inst] # "gone"

\* The guard the production module installs.
MayTick(i) == IsLeader(i)

\* The timer of an instance; it does not wait for the tick before.
TickBegin(k) ==
    /\ tick[k].pc = "idle"
    /\ \E i \in Instances :
          /\ MayTick(i)
          /\ tick' = [tick EXCEPT ![k] = [pc |-> "next", inst |-> i, left |-> due]]
          /\ disturbed' = IF \E j \in Ticks : Ticking(j) THEN disturbed \union {"overlap"} ELSE disturbed
    /\ UNCHANGED <<leaseVars, due, started, dues>>

\* One schedule of the list after the other, in an order.
Turn(k) == CHOOSE s \in tick[k].left : TRUE

\* fire(): the condition holds or not, the run is started or is refused.  A run
\* that was started is awaited to its end.
TickFire(k) ==
    /\ TickAt(k, "next") /\ tick[k].left # {}
    /\ \/ started' = [started EXCEPT ![Turn(k)] = @ + 1]
       \/ UNCHANGED started
    /\ tick' = [tick EXCEPT ![k].pc = "renew"]
    /\ UNCHANGED <<leaseVars, due, dues, disturbed>>

\* (mutant) the next time is computed from the last one and lies behind
RenewedBehind(s) == due
Renewed(s) == due \ {s}

\* nextRunAt is written, or the update fails and the error is logged.
TickRenew(k) ==
    /\ TickAt(k, "renew")
    /\ \/ due' = Renewed(Turn(k)) /\ UNCHANGED disturbed
       \/ Note("failure") /\ UNCHANGED due
    /\ tick' = [tick EXCEPT ![k].pc = "next", ![k].left = @ \ {Turn(k)}]
    /\ UNCHANGED <<leaseVars, started, dues>>

TickEnd(k) ==
    /\ TickAt(k, "next") /\ tick[k].left = {}
    /\ tick' = [tick EXCEPT ![k] = TickRow("done")]
    /\ UNCHANGED <<leaseVars, due, started, dues, disturbed>>

BecomesDue(s) ==
    /\ s \notin due /\ dues[s] < MaxDue
    /\ due' = due \union {s}
    /\ dues' = [dues EXCEPT ![s] = @ + 1]
    /\ started' = [started EXCEPT ![s] = 0]
    /\ UNCHANGED <<leaseVars, tick, disturbed>>

SsNext ==
    \/ \E i \in Instances :
          ClaimSees(i) \/ ClaimWrites(i) \/ BeatFails(i) \/ Drain(i) \/ ShutDown(i) \/ Die(i) \/ LeaseEnds(i)
    \/ \E k \in Ticks : TickBegin(k) \/ TickFire(k) \/ TickRenew(k) \/ TickEnd(k)
    \/ \E s \in Schedules : BecomesDue(s)

SsSpec == SsInit /\ [][SsNext]_ssVars
-----------------------------------------------------------------------------
(* Properties.                                                              *)

Disturbances == {"race", "overlap", "failure"}

\* Types of the rows, the instances and the ticks.
SsTypeOK ==
    /\ lease \in [Instances -> BOOLEAN] /\ leader \in [Instances -> BOOLEAN]
    /\ state \in [Instances -> {"up", "draining", "gone"}]
    /\ beat \in [Instances -> {"idle", "won", "lost"}]
    /\ due \subseteq Schedules
    /\ tick \in [Ticks -> [pc : {"idle", "next", "renew", "done"}, inst : Instances,
                           left : SUBSET Schedules]]
    /\ disturbed \subseteq Disturbances

Leaders == {i \in Instances : IsLeader(i)}

\* One instance at most believes it holds the scheduler lease (the comment of
\* InstanceService: two instances racing produce one winner).
OneLeader == Cardinality(Leaders) <= 1

\* Unless two claims were evaluated side by side, one instance at most believes
\* it holds the lease, and it does, through missed heartbeats, crashes, drains
\* and leases that run out.
LeaderHoldsLease ==
    "race" \notin disturbed => OneLeader /\ \A i \in Leaders : lease[i]

\* A schedule that became due starts one run, unless a tick began while another
\* was still awaiting its runs, or a tick was cut short or could not write: the
\* hand-over of the lease alone starts nothing twice.
OncePerDue == disturbed \intersect {"overlap", "failure"} = {} => \A s \in Schedules : started[s] <= 1
=============================================================================

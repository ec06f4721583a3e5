------------------------------- MODULE Fleet -------------------------------
(***************************************************************************)
(* Distributed tasks and the nodes that run them (DistributedExecution-    *)
(* Service, QueueCoordinator, FailoverService, the counters of NodeService).*)
(* A task is a row the organization owns; a driver (an HTTP request that   *)
(* waits, or a tick) places it on a node, dispatches it and settles the    *)
(* outcome; the failover sweep takes work away from nodes that fell silent *)
(* and from leases that ran out; operators migrate, cancel, requeue.       *)
(* Every handler is asynchronous: one action is one database statement     *)
(* with the code up to the next await, and no statement is conditional on  *)
(* what the row has become since it was read.                              *)
(***************************************************************************)
EXTENDS Integers, FiniteSets

CONSTANTS
    Tasks, Nodes,
    Drivers,          \* calls of drive: POST /tasks with wait, or a tick
    Sweepers,         \* the failover timer, or POST /sweep
    Calls,            \* requests of operators and node agents, each served once
    Ops,              \* what those requests may be
    Keyed,            \* TRUE: tasks are submitted with an idempotency key
    SilentNodes,      \* nodes whose heartbeats may stop
    MaxAttempts,      \* task.maxAttempts
    MaxConcurrency,   \* node.maxConcurrency
    QuarantineAfter,  \* QUARANTINE_AFTER_FAILURES (3)
    DriversTimely,    \* TRUE: a lease outlives a driver that is still alive
    MaxCrashes,       \* bound: handlers that die (or throw) half way
    NoTask, NoNode

AllOps == {"migrate", "requeue", "cancel", "recover", "rebalance", "heartbeat",
           "drain", "resume", "decommission"}

ASSUME FleetAssumption ==
    /\ IsFiniteSet(Drivers)
    /\ Drivers \intersect (Sweepers \union Calls) = {} /\ Sweepers \intersect Calls = {}
    /\ Ops \subseteq AllOps
    /\ SilentNodes \subseteq Nodes
    /\ Keyed \in BOOLEAN /\ DriversTimely \in BOOLEAN
    /\ MaxAttempts \in Nat \ {0} /\ MaxConcurrency \in Nat \ {0}
    /\ QuarantineAfter \in Nat \ {0} /\ MaxCrashes \in Nat
    /\ NoTask \notin Tasks /\ NoNode \notin Nodes

VARIABLES
    task,    \* distributed_tasks rows ("NONE": not submitted yet)
    node,    \* nodes rows
    me,      \* the local state of each handler
    crashes

vars == <<task, node, me, crashes>>

Procs == Drivers \union Sweepers \union Calls

\* DistributedTaskStatus, NodeStatus
TaskStatus == {"QUEUED", "ASSIGNED", "RUNNING", "SUCCEEDED", "FAILED", "DEAD_LETTERED",
               "CANCELLED", "MIGRATING"}
NodeStatus == {"PENDING", "ONLINE", "DEGRADED", "OFFLINE", "DRAINING", "QUARANTINED",
               "DECOMMISSIONED"}

NewTask == [status |-> "NONE", attempts |-> 0, node |-> NoNode, lease |-> "none",
            pin |-> NoNode, ready |-> TRUE]
\* A node that was registered, trusted and has sent its first heartbeat.
NewNode == [status |-> "ONLINE", load |-> 0, failures |-> 0, bench |-> "none", remote |-> TRUE]

\* pc: the statement about to be issued.  cur, at: the task and the node worked
\* on.  copy: the task rows as read.  list, nlist: tasks and nodes yet to walk
\* through.  aim, back: where a migration is meant to go, where it returns to.
\* tried, result: of a drive.  room: of a rebalance.  moved: of a sweep.  seen:
\* the node row as read.
Blank == [pc |-> "idle", cur |-> NoTask, copy |-> [t \in Tasks |-> NewTask], list |-> {},
          at |-> NoNode, nlist |-> {}, aim |-> NoNode, back |-> "end", tried |-> {},
          room |-> {}, moved |-> {}, result |-> "ok", seen |-> NewNode]

Init ==
    /\ task = [t \in Tasks |-> NewTask]
    /\ node = [n \in Nodes |-> NewNode]
    /\ me = [p \in Procs |-> Blank]
    /\ crashes = 0

At(p, step)   == me[p].pc = step
Cur(p)        == me[p].cur
Mine(p)       == me[p].copy[me[p].cur]
Become(p, m)  == me' = [me EXCEPT ![p] = m]
Goto(p, step) == Become(p, [me[p] EXCEPT !.pc = step])
\* Drivers and sweepers are called again, a request is served once.
End(p)        == Become(p, [Blank EXCEPT !.pc = IF p \in Calls THEN "done" ELSE "idle"])

SetTask(t, r) == task' = [task EXCEPT ![t] = r]
SetNode(n, r) == node' = [node EXCEPT ![n] = r]
\* The part of a row that its reader looks at again, and the rows of S read so.
Copy(r)       == [NewTask EXCEPT !.attempts = r.attempts, !.node = r.node, !.pin = r.pin]
Copied(S)     == [t \in Tasks |-> IF t \in S THEN Copy(task[t]) ELSE NewTask]
\* A handler is done with its task.
Dropped(p)    == [me[p].copy EXCEPT ![me[p].cur] = NewTask]
\* NodeRepository.adjustLoad: a relative delta inside the database.
AdjustLoad(n, delta) == SetNode(n, [node[n] EXCEPT !.load = @ + delta])

-----------------------------------------------------------------------------
(* Submission and ticks.                                                    *)

InFlight(t) == task[t].status \in {"ASSIGNED", "RUNNING"}
Claimable == {t \in Tasks : task[t].status = "QUEUED" /\ task[t].ready}

\* submit: look the key up.  A caller that waits drives whatever it found.
Lookup(d) ==
    /\ At(d, "idle")
    /\ \E t \in Tasks :
          \/ /\ task[t].status = "NONE"
             /\ Keyed \/ \A e \in Drivers : ~(At(e, "create") /\ Cur(e) = t)
             /\ Become(d, [Blank EXCEPT !.pc = "create", !.cur = t])
          \/ /\ task[t].status # "NONE" /\ Keyed
             /\ Become(d, [Blank EXCEPT !.pc = "place", !.cur = t, !.copy = Copied({t})])
    /\ UNCHANGED <<task, node, crashes>>

\* The row is created, unless the unique key was taken meanwhile.
Create(d) ==
    /\ At(d, "create")
    /\ LET new == [NewTask EXCEPT !.status = "QUEUED"] IN
       \/ task[Cur(d)].status # "NONE" /\ End(d) /\ UNCHANGED task
       \/ /\ task[Cur(d)].status = "NONE"
          /\ SetTask(Cur(d), new)
          /\ \/ End(d)
             \/ Become(d, [me[d] EXCEPT !.pc = "place", !.copy[Cur(d)] = Copy(new)])
    /\ UNCHANGED <<node, crashes>>

\* QueueCoordinator.tick reads what is waiting and drives it task by task,
\* from the rows it read.
Tick(d) ==
    /\ At(d, "idle") /\ Claimable # {}
    /\ Become(d, [Blank EXCEPT !.pc = "next", !.list = Claimable, !.copy = Copied(Claimable)])
    /\ UNCHANGED <<task, node, crashes>>

\* drive returns.
Return(d) == Become(d, [Blank EXCEPT !.pc = "next", !.list = me[d].list, !.copy = Dropped(d)])

NextTask(d) ==
    /\ At(d, "next")
    /\ \/ me[d].list = {} /\ End(d)
       \/ \E t \in me[d].list :
             Become(d, [Blank EXCEPT !.pc = "place", !.cur = t, !.copy = me[d].copy,
                                     !.list = me[d].list \ {t}])
    /\ UNCHANGED <<task, node, crashes>>

-----------------------------------------------------------------------------
(* DistributedExecutionService.drive, assign, dispatch, settle              *)

\* NodeScheduler.ineligibleReason; trust and requirements other than the pin
\* are met.
Eligible(r, n, excluded) ==
    /\ n \notin excluded
    /\ r.pin \in {NoNode, n}
    /\ node[n].status \in {"ONLINE", "DEGRADED"}
    /\ node[n].bench # "held" /\ node[n].remote
    /\ node[n].load < MaxConcurrency

\* (mutant) one attempt too many
AttemptLeftTooMany(r) == r.attempts <= MaxAttempts
AttemptLeft(r) == r.attempts < MaxAttempts

\* The loop's condition, and the scheduler's choice (by score: any eligible node).
Place(d) ==
    /\ At(d, "place")
    /\ LET chosen == {n \in Nodes : Eligible(Mine(d), n, me[d].tried)} IN
       \/ ~AttemptLeft(Mine(d)) /\ Return(d)
       \/ AttemptLeft(Mine(d)) /\ chosen = {} /\ Goto(d, "defer")
       \/ /\ AttemptLeft(Mine(d))
          /\ \E n \in chosen : Become(d, [me[d] EXCEPT !.pc = "assign", !.at = n])
    /\ UNCHANGED <<task, node, crashes>>

\* No node can take it now: it stays queued and the call returns.
Defer(d) ==
    /\ At(d, "defer")
    /\ SetTask(Cur(d), [task[Cur(d)] EXCEPT !.status = "QUEUED", !.ready = FALSE])
    /\ Return(d)
    /\ UNCHANGED <<node, crashes>>

Bound(r, n, attempts) ==
    [r EXCEPT !.node = n, !.status = "ASSIGNED", !.attempts = attempts, !.lease = "live"]

Assign(d) ==
    /\ At(d, "assign")
    /\ SetTask(Cur(d), Bound(task[Cur(d)], me[d].at, Mine(d).attempts + 1))
    /\ Become(d, [me[d] EXCEPT !.pc = "assigned", !.tried = @ \union {me[d].at}])
    /\ UNCHANGED <<node, crashes>>

\* BaseRepository.update reads the row back: the driver goes on with that.
Assigned(d) ==
    /\ At(d, "assigned")
    /\ Become(d, [me[d] EXCEPT !.pc = "load", !.copy[Cur(d)] = Copy(task[Cur(d)])])
    /\ UNCHANGED <<task, node, crashes>>

Load(d) ==
    /\ At(d, "load")
    /\ AdjustLoad(me[d].at, 1) /\ Goto(d, "dispatch")
    /\ UNCHANGED <<task, crashes>>

Dispatch(d) ==
    /\ At(d, "dispatch")
    /\ SetTask(Cur(d), [task[Cur(d)] EXCEPT !.status = "RUNNING"]) /\ Goto(d, "waiting")
    /\ UNCHANGED <<node, crashes>>

\* The transport answers: done, a failure of the node, or a failure of the work.
Verdict(d) ==
    /\ At(d, "waiting")
    /\ \E v \in {"ok", "retry", "fatal"} :
          Become(d, [me[d] EXCEPT !.pc = "unload", !.result = v])
    /\ UNCHANGED <<task, node, crashes>>

\* (mutant) a failed attempt keeps its reservation
ReleasedOnSuccess(v) == IF v = "ok" THEN -1 ELSE 0
Released(v) == -1

Unload(d) ==
    /\ At(d, "unload")
    /\ AdjustLoad(me[d].at, Released(me[d].result))
    /\ Goto(d, IF me[d].result = "ok" THEN "credit" ELSE "blame")
    /\ UNCHANGED <<task, crashes>>

\* NodeService.recordSuccess and recordFailure: read, then write.
CountRead(d) ==
    /\ \/ /\ At(d, "credit") /\ node[me[d].at].failures = 0
          /\ Goto(d, "settle")
       \/ /\ At(d, "credit") /\ node[me[d].at].failures > 0
          /\ Goto(d, "creditWrite")
       \/ /\ At(d, "blame")
          /\ Become(d, [me[d] EXCEPT !.pc = "blameWrite", !.seen = node[me[d].at]])
    /\ UNCHANGED <<task, node, crashes>>

\* (mutant) a success pays one failure back
CreditedOne(r) == [r EXCEPT !.failures = @ - 1]
Credited(r)    == [r EXCEPT !.failures = 0]

CreditWrite(d) ==
    /\ At(d, "creditWrite")
    /\ SetNode(me[d].at, Credited(node[me[d].at])) /\ Goto(d, "settle")
    /\ UNCHANGED <<task, crashes>>

Blamed(r, failures) ==
    IF failures >= QuarantineAfter
    THEN [r EXCEPT !.failures = failures, !.status = "QUARANTINED", !.bench = "held"]
    ELSE [r EXCEPT !.failures = failures]

BlameWrite(d) ==
    /\ At(d, "blameWrite")
    /\ SetNode(me[d].at, Blamed(node[me[d].at], me[d].seen.failures + 1))
    /\ Become(d, [me[d] EXCEPT !.pc = "settle", !.seen = NewNode])
    /\ UNCHANGED <<task, crashes>>

\* attempts was incremented by assign already
Exhausted(r) == r.attempts + 1 >= MaxAttempts

Requeued(r) == [r EXCEPT !.status = "QUEUED", !.node = NoNode, !.lease = "none", !.ready = FALSE]

\* (mutant) a failure of the work itself is not written to the row
SettledRowUnlessFatal(r, v, exhausted) ==
    IF v = "retry" /\ ~exhausted THEN Requeued(r)
    ELSE [r EXCEPT !.lease = "none",
                   !.status = IF v = "ok" THEN "SUCCEEDED"
                              ELSE IF v = "fatal" THEN r.status ELSE "DEAD_LETTERED"]
SettledRow(r, v, exhausted) ==
    IF v = "retry" /\ ~exhausted THEN Requeued(r)
    ELSE [r EXCEPT !.lease = "none",
                   !.status = IF v = "ok" THEN "SUCCEEDED"
                              ELSE IF v = "fatal" THEN "FAILED" ELSE "DEAD_LETTERED"]

Settle(d) ==
    /\ At(d, "settle")
    /\ SetTask(Cur(d), SettledRow(task[Cur(d)], me[d].result, Exhausted(Mine(d))))
    /\ Goto(d, "settled")
    /\ UNCHANGED <<node, crashes>>

\* The row is read back and decides whether the loop goes on.
Settled(d) ==
    /\ At(d, "settled")
    /\ IF task[Cur(d)].status \in {"SUCCEEDED", "DEAD_LETTERED", "FAILED"} \/ me[d].result = "fatal"
       THEN Return(d)
       ELSE Become(d, [me[d] EXCEPT !.pc = "place", !.copy[Cur(d)] = Copy(task[Cur(d)]),
                                    !.at = NoNode, !.result = "ok"])
    /\ UNCHANGED <<task, node, crashes>>

Driver(d) ==
    \/ Create(d) \/ NextTask(d) \/ Place(d) \/ Defer(d) \/ Assign(d) \/ Assigned(d)
    \/ Load(d) \/ Dispatch(d) \/ Verdict(d) \/ Unload(d) \/ CountRead(d)
    \/ CreditWrite(d) \/ BlameWrite(d) \/ Settle(d) \/ Settled(d)

-----------------------------------------------------------------------------
(* QueueCoordinator.migrate, from a request, the sweep or a rebalance.      *)

MigrateRead(p) ==
    /\ At(p, "migrate")
    /\ \/ task[Cur(p)].status = "SUCCEEDED" /\ End(p)
       \/ /\ task[Cur(p)].status # "SUCCEEDED"
          /\ Become(p, [me[p] EXCEPT !.copy[Cur(p)] = Copy(task[Cur(p)]),
                                     !.pc = IF task[Cur(p)].node = NoNode THEN "mark" ELSE "release"])
    /\ UNCHANGED <<task, node, crashes>>

\* The old node loses the reservation at once.
MigrateRelease(p) ==
    /\ At(p, "release")
    /\ AdjustLoad(Mine(p).node, -1) /\ Goto(p, "mark")
    /\ UNCHANGED <<task, crashes>>

MigrateMark(p) ==
    /\ At(p, "mark")
    /\ SetTask(Cur(p), [task[Cur(p)] EXCEPT !.status = "MIGRATING", !.node = NoNode, !.lease = "none"])
    /\ Goto(p, "unmark")
    /\ UNCHANGED <<node, crashes>>

MigrateQueue(p) ==
    /\ At(p, "unmark")
    /\ SetTask(Cur(p), [task[Cur(p)] EXCEPT !.status = "QUEUED", !.ready = TRUE,
                           !.pin = IF me[p].aim # NoNode THEN me[p].aim ELSE Mine(p).pin])
    /\ IF me[p].back = "end" THEN End(p)
       ELSE Become(p, [me[p] EXCEPT !.pc = me[p].back, !.cur = NoTask, !.copy = Dropped(p),
                                    !.aim = NoNode, !.back = "end"])
    /\ UNCHANGED <<node, crashes>>

Migration(p) == MigrateRead(p) \/ MigrateRelease(p) \/ MigrateMark(p) \/ MigrateQueue(p)

\* A walk reads its list in one statement, then migrates task after task.
ListTasks(p, here, S, after) ==
    /\ At(p, here)
    /\ Become(p, [me[p] EXCEPT !.pc = after, !.list = S])
    /\ UNCHANGED <<task, node, crashes>>

WalkTasks(p, here, after) ==
    /\ At(p, here)
    /\ \/ me[p].list = {} /\ Goto(p, after)
       \/ \E t \in me[p].list :
             Become(p, [me[p] EXCEPT !.pc = "migrate", !.cur = t, !.list = @ \ {t}, !.back = here,
                                     !.moved = @ \union {t}])
    /\ UNCHANGED <<task, node, crashes>>

-----------------------------------------------------------------------------
(* FailoverService.sweep                                                    *)

\* Nodes without a heartbeat for HEARTBEAT_TIMEOUT_MS.
SweepBegin(s) ==
    /\ At(s, "idle")
    /\ \E S \in SUBSET {n \in SilentNodes : node[n].status \in {"ONLINE", "DEGRADED"}} :
          Become(s, [Blank EXCEPT !.pc = "nodes", !.nlist = S])
    /\ UNCHANGED <<task, node, crashes>>

\* NodeService.markOffline
SweepOffline(s) ==
    /\ At(s, "nodes")
    /\ \/ me[s].nlist = {} /\ Become(s, [Blank EXCEPT !.pc = "leases", !.moved = me[s].moved])
          /\ UNCHANGED node
       \/ \E n \in me[s].nlist :
             /\ SetNode(n, [node[n] EXCEPT !.status = "OFFLINE"])
             /\ Become(s, [Blank EXCEPT !.pc = "orphans", !.at = n, !.nlist = me[s].nlist \ {n},
                                        !.moved = me[s].moved])
    /\ UNCHANGED <<task, crashes>>

Orphaned(n) == {t \in Tasks : InFlight(t) /\ task[t].node = n}
\* (mutant) only tasks that were already dispatched
OverdueRunning == {t \in Tasks : task[t].status = "RUNNING" /\ task[t].lease = "expired"}
Overdue == {t \in Tasks : InFlight(t) /\ task[t].lease = "expired"}

SweepTasks(s) ==
    \/ ListTasks(s, "orphans", Orphaned(me[s].at), "orphan")
    \/ WalkTasks(s, "orphan", "nodes")
    \/ ListTasks(s, "leases", Overdue \ me[s].moved, "lease")
    \/ WalkTasks(s, "lease", "lift")

\* liftExpiredQuarantines
SweepLift(s) ==
    /\ At(s, "lift")
    /\ Become(s, [Blank EXCEPT !.pc = "lifting",
                     !.nlist = {n \in Nodes : node[n].status = "QUARANTINED" /\ node[n].bench = "over"}])
    /\ UNCHANGED <<task, node, crashes>>

SweepLifting(s) ==
    /\ At(s, "lifting")
    /\ \/ me[s].nlist = {} /\ End(s) /\ UNCHANGED node
       \/ \E n \in me[s].nlist :
             /\ SetNode(n, [node[n] EXCEPT !.status = "DEGRADED", !.bench = "none", !.failures = 0])
             /\ Become(s, [me[s] EXCEPT !.nlist = @ \ {n}])
    /\ UNCHANGED <<task, crashes>>

Sweep(s) == SweepOffline(s) \/ SweepTasks(s) \/ Migration(s) \/ SweepLift(s) \/ SweepLifting(s)

-----------------------------------------------------------------------------
(* Requests.                                                                *)

CallBegin(c, request) ==
    /\ At(c, "idle") /\ request \in Ops
    /\ \/ /\ request \in {"migrate", "requeue", "cancel"}
          /\ \E t \in Tasks, m \in IF request = "migrate" THEN Nodes \union {NoNode} ELSE {NoNode} :
                /\ task[t].status # "NONE"
                /\ Become(c, [Blank EXCEPT !.pc = request, !.cur = t, !.aim = m])
       \/ /\ request \in {"recover", "heartbeat", "drain", "resume", "decommission"}
          /\ \E n \in Nodes : Become(c, [Blank EXCEPT !.pc = request, !.at = n])
       \/ request = "rebalance" /\ Goto(c, request)
    /\ UNCHANGED <<task, node, crashes>>

\* QueueCoordinator.requeue: a human decided, the retry budget starts again.
RequeueRead(c) ==
    /\ At(c, "requeue")
    /\ IF task[Cur(c)].status = "SUCCEEDED" THEN End(c) ELSE Goto(c, "requeueWrite")
    /\ UNCHANGED <<task, node, crashes>>

RequeueWrite(c) ==
    /\ At(c, "requeueWrite")
    /\ SetTask(Cur(c), [task[Cur(c)] EXCEPT !.status = "QUEUED", !.node = NoNode, !.attempts = 0,
                                            !.ready = TRUE, !.lease = "none"])
    /\ End(c)
    /\ UNCHANGED <<node, crashes>>

\* DistributedExecutionService.cancel; telling the node is advisory.
CancelRead(c) ==
    /\ At(c, "cancel")
    /\ \/ task[Cur(c)].status = "SUCCEEDED" /\ End(c)
       \/ /\ task[Cur(c)].status # "SUCCEEDED"
          /\ Become(c, [me[c] EXCEPT !.copy[Cur(c)] = Copy(task[Cur(c)]),
                !.pc = IF task[Cur(c)].node = NoNode THEN "cancelWrite" ELSE "cancelRelease"])
    /\ UNCHANGED <<task, node, crashes>>

CancelRelease(c) ==
    /\ At(c, "cancelRelease")
    /\ AdjustLoad(Mine(c).node, -1) /\ Goto(c, "cancelWrite")
    /\ UNCHANGED <<task, crashes>>

CancelWrite(c) ==
    /\ At(c, "cancelWrite")
    /\ SetTask(Cur(c), [task[Cur(c)] EXCEPT !.status = "CANCELLED", !.lease = "none"])
    /\ End(c)
    /\ UNCHANGED <<node, crashes>>

\* FailoverService.recoverNode: give back what it held, then start it empty.
RecoverTask(c) ==
    /\ At(c, "recovering")
    /\ \/ me[c].list = {} /\ Goto(c, "recoverNode") /\ UNCHANGED task
       \/ \E t \in me[c].list :
             /\ SetTask(t, [task[t] EXCEPT !.status = "QUEUED", !.node = NoNode, !.ready = TRUE,
                                           !.lease = "none"])
             /\ Become(c, [me[c] EXCEPT !.list = @ \ {t}])
    /\ UNCHANGED <<node, crashes>>

RecoverNode(c) ==
    /\ At(c, "recoverNode")
    /\ SetNode(me[c].at, [NewNode EXCEPT !.remote = node[me[c].at].remote]) /\ End(c)
    /\ UNCHANGED <<task, crashes>>

Recover(c) == \/ ListTasks(c, "recover", Orphaned(me[c].at), "recovering")
              \/ RecoverTask(c) \/ RecoverNode(c)

\* QueueCoordinator.rebalance: hot at 80 % of a node's concurrency, cold at 40 %.
Schedulable(n) ==
    node[n].status \in {"ONLINE", "DEGRADED"} /\ node[n].bench # "held" /\ node[n].remote
Hot  == {n \in Nodes : Schedulable(n) /\ 10 * node[n].load >= 8 * MaxConcurrency}
Cold == {n \in Nodes : Schedulable(n) /\ 10 * node[n].load <= 4 * MaxConcurrency}

\* The nodes as read at the start decide to the end.
RebalanceRead(c) ==
    /\ At(c, "rebalance")
    /\ \/ (Hot = {} \/ Cold = {}) /\ End(c)
       \/ /\ Hot # {} /\ Cold # {}
          /\ Become(c, [me[c] EXCEPT !.pc = "hot", !.room = Cold, !.nlist = Hot])
    /\ UNCHANGED <<task, node, crashes>>

RebalanceNode(c) ==
    /\ At(c, "hot")
    /\ \/ me[c].nlist = {} /\ End(c)
       \/ \E n \in me[c].nlist :
             LET pinned == {t \in Tasks : task[t].status = "ASSIGNED" /\ task[t].node = n} IN
             Become(c, [me[c] EXCEPT !.pc = "shift", !.nlist = @ \ {n}, !.list = pinned,
                                     !.copy = Copied(pinned)])
    /\ UNCHANGED <<task, node, crashes>>

\* A pinned task stays; another goes to a cold node with room, which has less
\* room then.
RebalanceTask(c) ==
    /\ At(c, "shift")
    /\ \/ (me[c].list = {} \/ me[c].room = {}) /\ Goto(c, "hot")
       \/ \E t \in me[c].list :
             /\ me[c].room # {} /\ me[c].copy[t].pin # NoNode
             /\ Become(c, [me[c] EXCEPT !.list = @ \ {t}])
       \/ \E t \in me[c].list, m \in me[c].room, full \in {{}, me[c].room} :
             /\ me[c].copy[t].pin = NoNode
             /\ Become(c, [me[c] EXCEPT !.pc = "migrate", !.cur = t, !.list = @ \ {t},
                              !.aim = m, !.room = @ \ (full \intersect {m}), !.back = "shift"])
    /\ UNCHANGED <<task, node, crashes>>

Rebalance(c) == RebalanceRead(c) \/ RebalanceNode(c) \/ RebalanceTask(c)

\* NodeService.heartbeat: the row is read, and later written whole: the
\* status derived from what was read, the load as reported or as read.
DerivedStatus(r) ==
    IF r.status \in {"DRAINING", "DECOMMISSIONED"} \/ (r.status = "QUARANTINED" /\ r.bench = "held")
    THEN {r.status} ELSE {"ONLINE", "DEGRADED"}
Executing(n) == Cardinality({d \in Drivers : me[d].at = n /\ At(d, "waiting")})

HeartbeatRead(c) ==
    /\ At(c, "heartbeat")
    /\ Become(c, [me[c] EXCEPT !.pc = "beat", !.seen = node[me[c].at]])
    /\ UNCHANGED <<task, node, crashes>>

HeartbeatWrite(c) ==
    /\ At(c, "beat")
    /\ \E s \in DerivedStatus(me[c].seen), load \in {me[c].seen.load, Executing(me[c].at)} :
          /\ SetNode(me[c].at, [node[me[c].at] EXCEPT !.status = s, !.load = load])
          /\ IF me[c].seen.status \in {"OFFLINE", "PENDING"} /\ s = "ONLINE"
             THEN Goto(c, "beatClear") ELSE End(c)
    /\ UNCHANGED <<task, crashes>>

HeartbeatClear(c) ==
    /\ At(c, "beatClear")
    /\ SetNode(me[c].at, [node[me[c].at] EXCEPT !.failures = 0, !.bench = "none"]) /\ End(c)
    /\ UNCHANGED <<task, crashes>>

\* NodeService.drain, resume, decommission: one write whatever the status.
Written(r, request) ==
    CASE request = "drain"  -> [r EXCEPT !.status = "DRAINING"]
      [] request = "resume" -> [r EXCEPT !.status = "ONLINE", !.failures = 0, !.bench = "none"]
      [] request = "decommission" -> [r EXCEPT !.status = "DECOMMISSIONED", !.remote = FALSE]
NodeWrite(c) ==
    /\ me[c].pc \in {"drain", "resume", "decommission"}
    /\ SetNode(me[c].at, Written(node[me[c].at], me[c].pc)) /\ End(c)
    /\ UNCHANGED <<task, crashes>>

Request(c) ==
    \/ Migration(c) \/ RequeueRead(c) \/ RequeueWrite(c)
    \/ CancelRead(c) \/ CancelRelease(c) \/ CancelWrite(c)
    \/ Recover(c) \/ Rebalance(c)
    \/ HeartbeatRead(c) \/ HeartbeatWrite(c) \/ HeartbeatClear(c) \/ NodeWrite(c)

-----------------------------------------------------------------------------
(* Time and failure.                                                        *)

\* A driver between its assignment and the write that settles it.
OnTask(d, t) == /\ Cur(d) = t
                /\ me[d].pc \in {"assigned", "load", "dispatch", "waiting", "unload", "credit",
                                 "creditWrite", "blame", "blameWrite", "settle"}

\* The lease is the task's timeout and LEASE_GRACE_MS; every transport gives
\* up before that.
LeaseExpires(t) ==
    /\ task[t].lease = "live"
    /\ DriversTimely => \A d \in Drivers : ~OnTask(d, t)
    /\ SetTask(t, [task[t] EXCEPT !.lease = "expired"])
    /\ UNCHANGED <<node, me, crashes>>

\* availableAt is reached.
BackoffPasses(t) ==
    /\ task[t].status = "QUEUED" /\ ~task[t].ready
    /\ SetTask(t, [task[t] EXCEPT !.ready = TRUE])
    /\ UNCHANGED <<node, me, crashes>>

\* quarantinedUntil is reached.
BenchPasses(n) ==
    /\ node[n].bench = "held"
    /\ SetNode(n, [node[n] EXCEPT !.bench = "over"])
    /\ UNCHANGED <<task, me, crashes>>

\* The handler's process dies, or one of its statements throws.
Crash(p) ==
    /\ crashes < MaxCrashes
    /\ me[p].pc \notin {"idle", "done"}
    /\ crashes' = crashes + 1
    /\ End(p)
    /\ UNCHANGED <<task, node>>

Next ==
    \/ \E d \in Drivers : Lookup(d) \/ Tick(d) \/ Driver(d)
    \/ \E s \in Sweepers : SweepBegin(s) \/ Sweep(s)
    \/ \E c \in Calls : Request(c) \/ \E request \in Ops : CallBegin(c, request)
    \/ \E t \in Tasks : LeaseExpires(t) \/ BackoffPasses(t)
    \/ \E n \in Nodes : BenchPasses(n)
    \/ \E p \in Procs : Crash(p)

Spec == Init /\ [][Next]_vars

-----------------------------------------------------------------------------
(* Properties.                                                              *)

Steps == AllOps \union
    {"idle", "done", "create", "next", "place", "defer", "assign", "assigned", "load", "dispatch",
     "waiting", "unload", "credit", "creditWrite", "blame", "blameWrite", "settle", "settled",
     "release", "mark", "unmark", "nodes", "orphans", "orphan", "leases", "lease", "lift",
     "lifting", "requeueWrite", "cancelRelease", "cancelWrite", "recovering", "recoverNode",
     "hot", "shift", "beat", "beatClear"}
TaskRow == [status : TaskStatus \union {"NONE"}, attempts : Nat, node : Nodes \union {NoNode},
            lease : {"none", "live", "expired"}, pin : Nodes \union {NoNode}, ready : BOOLEAN]
NodeRow == [status : NodeStatus, load : Int, failures : Nat, bench : {"none", "held", "over"}, remote : BOOLEAN]
Handler == [pc : Steps, cur : Tasks \union {NoTask}, copy : [Tasks -> TaskRow], list : SUBSET Tasks,
            at : Nodes \union {NoNode}, nlist : SUBSET Nodes, aim : Nodes \union {NoNode},
            back : {"end", "orphan", "lease", "shift"}, tried : SUBSET Nodes,
            room : SUBSET Nodes, moved : SUBSET Tasks, result : {"ok", "retry", "fatal"}, seen : NodeRow]

\* From the choice of a node to the settlement, and while a heartbeat is written.
NodeSteps == {"assign", "assigned", "load", "dispatch", "waiting", "unload", "credit",
              "creditWrite", "blame", "blameWrite", "settle", "heartbeat", "beat", "beatClear"}

\* Every row and every handler's local state has its shape, and a handler that
\* works on a node knows which.
HandlersOK ==
    /\ me \in [Procs -> Handler]
    /\ \A p \in Procs : me[p].pc \in NodeSteps => me[p].at \in Nodes
TypeOK ==
    /\ task \in [Tasks -> TaskRow]
    /\ node \in [Nodes -> NodeRow]
    /\ HandlersOK
    /\ crashes \in Nat

\* However many drivers, sweeps and requests hold the same row, a task is
\* never attempted more often than maxAttempts since it was last requeued.
AttemptsBounded == \A t \in Tasks : task[t].attempts <= MaxAttempts

\* The handler that will take the task out of the status it is in.
Owes(p, t) ==
    /\ Cur(p) = t
    /\ IF p \in Drivers THEN OnTask(p, t) ELSE At(p, "unmark")

\* While no handler dies, a task that is ASSIGNED, RUNNING or MIGRATING has a
\* handler that is about to settle or requeue it, whatever else happened to
\* the row: no interleaving of drives, sweeps, migrations, cancellations,
\* requeues and recoveries leaves it behind.
NobodyForgotten ==
    crashes = 0 =>
        \A t \in Tasks :
            InFlight(t) \/ task[t].status = "MIGRATING" => \E p \in Procs : Owes(p, t)

\* While operators only drain, resume and decommission nodes and requeue tasks, and
\* no node falls silent: a node's load is the number of attempts it was given and
\* has not released, whichever drivers race for the tasks.
Reserving(n) == {d \in Drivers : me[d].at = n /\ me[d].pc \in {"dispatch", "waiting", "unload"}}
LoadExact == crashes = 0 => \A n \in Nodes : node[n].load = Cardinality(Reserving(n))

\* Drivers run on, the sweep's timer fires and walks its lists, time passes.
\* Nothing obliges anyone to tick.
Fairness ==
    /\ \A d \in Drivers : WF_vars(Driver(d))
    /\ \A s \in Sweepers : WF_vars(SweepBegin(s)) /\ WF_vars(Sweep(s))
    /\ \A t \in Tasks : WF_vars(LeaseExpires(t))

FairSpec == Spec /\ Fairness

\* A task in flight is settled or given back although its driver may die:
\* the lease runs out and the sweep requeues it.
InFlightIsResolved == \A t \in Tasks : InFlight(t) ~> ~InFlight(t)

\* FailoverService.holdsValidLease
HoldsValidLease(t, n) == task[t].node = n /\ task[t].lease = "live"

\* A result is only recorded by a driver whose node still holds the lease.
StaleResultRefused ==
    [][\A d \in Drivers :
          At(d, "settle") /\ me'[d].pc = "settled" => HoldsValidLease(Cur(d), me[d].at)]_vars
=============================================================================

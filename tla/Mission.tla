------------------------------ MODULE Mission ------------------------------
(***************************************************************************)
(* One mission: its row, its task rows, the orchestrator runs that walk    *)
(* the task graph (MissionOrchestrator.run) and the API requests that      *)
(* change the mission while it is being walked (MissionsService and the    *)
(* orchestrator's control operations).                                     *)
(*                                                                         *)
(* Every database statement is a step.  The code has no transaction and no *)
(* conditional update on these rows: a handler reads a row, decides, and   *)
(* later writes unconditionally, so the steps of several handlers          *)
(* interleave freely.  A handler's position is pc[p]; what it has read and *)
(* will still use is in held, count, verdict, exec and snap.               *)
(***************************************************************************)
EXTENDS Naturals, FiniteSets

CONSTANTS
    Tasks,             \* every task the mission may ever have
    Deps,              \* Deps[t]: ids in t.dependsOn
    InitialTasks,      \* tasks created with the mission (createTaskGraph)
    Runs,              \* invocations of MissionOrchestrator.run
    Calls,             \* API requests
    Requests,          \* the operations clients request
    Overrides,         \* statuses an operator sets through PATCH task
    MaxWaves,          \* MissionOrchestrator.MAX_WAVES (50)
    WaveConcurrency,   \* MissionOrchestrator.WAVE_CONCURRENCY (4)
    TaskMaxRetries,    \* task.maxRetries (2 by default)
    MissionMaxRetries, \* mission.maxRetries (2 by default)
    WorkersReliable    \* TRUE: an ACTIVE worker exists and none is archived
                       \*   between planning and execution

MissionStatus == {"DRAFT", "QUEUED", "PLANNING", "RUNNING", "WAITING", "PAUSED",
                  "COMPLETED", "FAILED", "CANCELLED", "ARCHIVED"}
TaskStatus == {"PENDING", "QUEUED", "RUNNING", "COMPLETED", "FAILED", "SKIPPED"}

\* The legal transitions of a mission.
MISSION_TRANSITIONS ==
    [s \in MissionStatus |->
        CASE s = "DRAFT"     -> {"QUEUED", "CANCELLED"}
          [] s = "QUEUED"    -> {"PLANNING", "RUNNING", "CANCELLED"}
          [] s = "PLANNING"  -> {"RUNNING", "FAILED", "CANCELLED"}
          [] s = "RUNNING"   -> {"WAITING", "PAUSED", "COMPLETED", "FAILED", "CANCELLED"}
          [] s = "WAITING"   -> {"RUNNING", "PAUSED", "FAILED", "CANCELLED"}
          [] s = "PAUSED"    -> {"RUNNING", "CANCELLED"}
          [] s = "COMPLETED" -> {"ARCHIVED"}
          [] s = "FAILED"    -> {"QUEUED", "ARCHIVED"}
          [] s = "CANCELLED" -> {"ARCHIVED"}
          [] OTHER           -> {}]

AllRequests == {"plan", "start", "pause", "cancel", "cancelAndSkip", "retry",
                "archive", "remove", "addTask", "updateTask"}

ASSUME MissionAssumption ==
    /\ Deps \in [Tasks -> SUBSET Tasks]
    /\ InitialTasks \subseteq Tasks
    /\ Runs \intersect Calls = {}
    /\ Requests \subseteq AllRequests
    /\ Overrides \subseteq TaskStatus
    /\ MaxWaves \in Nat
    /\ WaveConcurrency \in Nat \ {0}
    /\ TaskMaxRetries \in Nat
    /\ MissionMaxRetries \in Nat
    /\ WorkersReliable \in BOOLEAN

Procs == Runs \union Calls

VARIABLES
    mission,    \* the mission row: status, retryCount, deleted
    created,    \* the tasks that exist
    task,       \* the task rows: status, attempts, assigned (workerId is set)
    pc,         \* where each run and each request is
    op,         \* the operation of a request; for a run, which reconcile it is in
    held,       \* task ids a handler has read and will still act on
    count,      \* a number read earlier: retryCount, attempts; for a run, its waves
    verdict,    \* the mission status a handler has decided to write
    exec,       \* exec[r][t]: where executeTask(t) of run r is
    snap,       \* snap[r]: the task rows run r selected its wave from
    begun, produced, overridden   \* history, see TaskGraph

rows    == <<mission, created, task>>
local   == <<op, held, count, verdict>>
waves   == <<exec, snap>>
history == <<begun, produced, overridden>>
vars    == <<mission, created, task, pc, op, held, count, verdict, exec, snap,
             begun, produced, overridden>>

-----------------------------------------------------------------------------
Init ==
    /\ mission = [status |-> "DRAFT", retryCount |-> 0, deleted |-> FALSE]
    /\ created = InitialTasks
    /\ task = [t \in Tasks |-> [status |-> "PENDING", attempts |-> 0, assigned |-> FALSE]]
    /\ pc = [p \in Procs |-> "idle"]
    /\ op = [p \in Procs |-> "none"]
    /\ held = [p \in Procs |-> {}]
    /\ count = [p \in Procs |-> 0]
    /\ verdict = [p \in Procs |-> "NONE"]
    /\ exec = [r \in Runs |-> [t \in Tasks |-> "none"]]
    /\ snap = [r \in Runs |-> task]
    /\ begun = {} /\ produced = {} /\ overridden = {}

Goto(p, step) == pc' = [pc EXCEPT ![p] = step]
SetStatus(s)  == mission' = [mission EXCEPT !.status = s]
Allowed(s)    == s \in MISSION_TRANSITIONS[mission.status]
Present       == ~mission.deleted

WithStatus(S) == {t \in created : task[t].status \in S}
Done          == WithStatus({"COMPLETED", "SKIPPED"})
Failed        == WithStatus({"FAILED"})
Pending       == WithStatus({"PENDING", "QUEUED"})

\* (mutant) a finished dependency is taken for a completed one
RunnableOnFinished ==
    {t \in WithStatus({"PENDING"}) : Deps[t] \subseteq Done \union Failed}

\* TaskRepository.findRunnable
Runnable ==
    {t \in WithStatus({"PENDING"}) : Deps[t] \subseteq WithStatus({"COMPLETED"})}

\* Steps of a handler that read or write the mission row: once it is soft
\* deleted, findByIdOrFail and update both throw NotFound.
MissionSteps ==
    {"read", "queue", "activate", "planRead", "planQueue", "planMark", "planFail",
     "planDone", "loop", "recRead", "recWrite", "totals", "write", "retryWrite",
     "recalcMission", "recalcWrite"}

MissionGone(p) ==
    /\ mission.deleted
    /\ pc[p] \in MissionSteps
    /\ Goto(p, "thrown")
    /\ UNCHANGED <<rows, local, waves, history>>

-----------------------------------------------------------------------------
(* plan(), called by a run that found the mission DRAFT or QUEUED and by    *)
(* POST /missions/:id/plan.                                                 *)

PlanRead(p) ==
    /\ pc[p] = "planRead" /\ Present
    /\ \/ mission.status = "DRAFT" /\ Goto(p, "planQueue")
       \/ mission.status # "DRAFT" /\ Allowed("PLANNING") /\ Goto(p, "planMark")
       \/ mission.status # "DRAFT" /\ ~Allowed("PLANNING") /\ Goto(p, "thrown")
    /\ UNCHANGED <<rows, local, waves, history>>

PlanWrite(p, from, status, to) ==
    /\ pc[p] = from /\ Present
    /\ SetStatus(status)
    /\ Goto(p, to)
    /\ UNCHANGED <<created, task, local, waves, history>>

PlanQueue(p) == PlanWrite(p, "planQueue", "QUEUED", "planMark")
PlanMark(p)  == PlanWrite(p, "planMark", "PLANNING", "planCheck")
PlanFail(p)  == PlanWrite(p, "planFail", "FAILED", "thrown")

\* No task, or no ACTIVE worker: planning fails.
PlanCheck(p) ==
    /\ pc[p] = "planCheck"
    /\ \/ /\ created = {} \/ ~WorkersReliable
          /\ Goto(p, "planFail")
          /\ UNCHANGED held
       \/ /\ created # {}
          /\ Goto(p, "planAssign")
          /\ held' = [held EXCEPT ![p] = {t \in created : ~task[t].assigned}]
    /\ UNCHANGED <<rows, op, count, verdict, waves, history>>

PlanAssign(p) ==
    /\ pc[p] = "planAssign"
    /\ \/ \E t \in held[p] :
            /\ task' = [task EXCEPT ![t].assigned = TRUE]
            /\ held' = [held EXCEPT ![p] = @ \ {t}]
            /\ UNCHANGED pc
       \/ held[p] = {} /\ Goto(p, "planDone") /\ UNCHANGED <<task, held>>
    /\ UNCHANGED <<mission, created, op, count, verdict, waves, history>>

\* The plan is saved and the mission row read back: a run goes on from the
\* status it reads, a request returns it.
PlanDone(p) ==
    /\ pc[p] = "planDone" /\ Present
    /\ \/ p \in Calls /\ Goto(p, "done")
       \/ p \in Runs /\ mission.status \in {"PLANNING", "WAITING", "PAUSED"} /\ Goto(p, "activate")
       \/ p \in Runs /\ mission.status = "RUNNING" /\ Goto(p, "loop")
       \/ /\ p \in Runs
          /\ mission.status \notin {"PLANNING", "WAITING", "PAUSED", "RUNNING"}
          /\ Goto(p, "thrown")
    /\ UNCHANGED <<rows, local, waves, history>>

Plan(p) == PlanRead(p) \/ PlanQueue(p) \/ PlanMark(p) \/ PlanFail(p)
           \/ PlanCheck(p) \/ PlanAssign(p) \/ PlanDone(p)
-----------------------------------------------------------------------------
(* run(): walks the graph wave by wave.                                     *)

\* The queue hands the job to a worker; resume() checks the status first.
RunBegin(r, intent) ==
    /\ pc[r] = "idle"
    /\ \/ intent = "run" /\ Goto(r, "read")
       \/ /\ intent = "resume"
          /\ Goto(r, IF Present /\ mission.status \in {"PAUSED", "WAITING"}
                     THEN "read" ELSE "thrown")
    /\ UNCHANGED <<rows, local, waves, history>>

RunRead(r) ==
    /\ pc[r] = "read" /\ r \in Runs /\ Present
    /\ \/ mission.status = "DRAFT" /\ Goto(r, "queue")
       \/ mission.status = "QUEUED" /\ Goto(r, "planRead")
       \/ mission.status \in {"PLANNING", "WAITING", "PAUSED"} /\ Goto(r, "activate")
       \/ mission.status = "RUNNING" /\ Goto(r, "loop")
       \/ mission.status \in {"COMPLETED", "FAILED", "CANCELLED", "ARCHIVED"} /\ Goto(r, "thrown")
    /\ UNCHANGED <<rows, local, waves, history>>

RunQueue(r) == PlanWrite(r, "queue", "QUEUED", "planRead")
Activate(r) == PlanWrite(r, "activate", "RUNNING", "loop")

\* Top of the loop: the wave ceiling, and a cancellation or pause that
\* arrived meanwhile.
Loop(r) ==
    /\ pc[r] = "loop"
    /\ \/ count[r] = MaxWaves /\ Goto(r, "recRead") /\ op' = [op EXCEPT ![r] = "final"]
       \/ /\ count[r] < MaxWaves /\ Present
          /\ mission.status \in {"CANCELLED", "PAUSED"}
          /\ Goto(r, "recRead") /\ op' = [op EXCEPT ![r] = "final"]
       \/ /\ count[r] < MaxWaves /\ Present
          /\ mission.status \notin {"CANCELLED", "PAUSED"}
          /\ Goto(r, "select") /\ UNCHANGED op
    /\ UNCHANGED <<rows, held, count, verdict, waves, history>>

Select(r) ==
    /\ pc[r] = "select"
    /\ \/ /\ Runnable = {}
          /\ Goto(r, "recRead") /\ op' = [op EXCEPT ![r] = "final"]
          /\ UNCHANGED <<count, waves>>
       \/ /\ Runnable # {}
          /\ exec' = [exec EXCEPT ![r] =
                        [t \in Tasks |-> IF t \in Runnable THEN "queued" ELSE "none"]]
          /\ snap' = [snap EXCEPT ![r] = task]
          /\ count' = [count EXCEPT ![r] = @ + 1]
          /\ Goto(r, "wave") /\ UNCHANGED op
    /\ UNCHANGED <<rows, held, verdict, history>>

InPhase(r, S) == {t \in Tasks : exec[r][t] \in S}

\* The next slice of the wave, up to WaveConcurrency tasks, is started
\* together once the previous slice has settled.
Slice(r) ==
    /\ pc[r] = "wave"
    /\ InPhase(r, {"slot", "working"}) = {}
    /\ \E batch \in SUBSET InPhase(r, {"queued"}) :
          /\ batch # {}
          /\ \/ Cardinality(batch) = WaveConcurrency
             \/ Cardinality(batch) < WaveConcurrency /\ batch = InPhase(r, {"queued"})
          /\ exec' = [exec EXCEPT ![r] =
                        [t \in Tasks |-> IF t \in batch THEN "slot" ELSE exec[r][t]]]
    /\ UNCHANGED <<rows, pc, local, snap, history>>

WaveDone(r) ==
    /\ pc[r] = "wave"
    /\ InPhase(r, {"queued", "slot", "working"}) = {}
    /\ Goto(r, "recRead") /\ op' = [op EXCEPT ![r] = "wave"]
    /\ UNCHANGED <<rows, held, count, verdict, waves, history>>

(* executeTask(): the row it works from is the one read by findRunnable.    *)
Phase(r, t, phase) == exec' = [exec EXCEPT ![r][t] = phase]

ExecUnassigned(r, t) ==
    /\ exec[r][t] = "slot" /\ ~snap[r][t].assigned
    /\ task' = [task EXCEPT ![t].status = "FAILED"]
    /\ Phase(r, t, "none")
    /\ UNCHANGED <<mission, created, pc, local, snap, history>>

ExecStart(r, t) ==
    /\ exec[r][t] = "slot" /\ snap[r][t].assigned
    /\ task' = [task EXCEPT ![t].status = "RUNNING"]
    /\ Phase(r, t, "working")
    /\ begun' = begun \union {t}
    /\ UNCHANGED <<mission, created, pc, local, snap, produced, overridden>>

ExecSucceed(r, t) ==
    /\ exec[r][t] = "working"
    /\ task' = [task EXCEPT ![t].status = "COMPLETED"]
    /\ Phase(r, t, "none")
    /\ produced' = produced \union {t}
    /\ UNCHANGED <<mission, created, pc, local, snap, begun, overridden>>

\* (mutant) one retry too many
CanRetryOnceMore(attempts) == attempts <= TaskMaxRetries + 1
CanRetry(attempts) == attempts <= TaskMaxRetries

\* A failed execution: back to PENDING while retries are left.  The back-off
\* time written with it (nextAttemptAt) is read by nothing.
ExecFail(r, t) ==
    /\ exec[r][t] = "working"
    /\ LET attempts == snap[r][t].attempts + 1
       IN task' = [task EXCEPT ![t].status = IF CanRetry(attempts) THEN "PENDING" ELSE "FAILED",
                               ![t].attempts = attempts]
    /\ Phase(r, t, "none")
    /\ UNCHANGED <<mission, created, pc, local, snap, history>>

\* WorkerRuntimeService.execute throws before its own error handling (the
\* worker was archived or deleted): the task row stays RUNNING, Promise.all
\* rejects and the run ends, while the other tasks of the slice carry on.
ExecThrow(r, t) ==
    /\ exec[r][t] = "working" /\ ~WorkersReliable
    /\ exec' = [exec EXCEPT ![r] =
                  [u \in Tasks |-> IF u = t \/ exec[r][u] = "queued" THEN "none" ELSE exec[r][u]]]
    /\ Goto(r, "thrown")
    /\ UNCHANGED <<rows, local, snap, history>>

Execute(r, t) == ExecUnassigned(r, t) \/ ExecStart(r, t) \/ ExecSucceed(r, t)
                 \/ ExecFail(r, t) \/ ExecThrow(r, t)

(* reconcile(): after every wave, and once more at the end of the run.      *)
AfterReconcile(r) == IF op[r] = "final" THEN "totals" ELSE "loop"

ReconcileRead(r) ==
    /\ pc[r] = "recRead" /\ Present
    /\ \/ /\ created = {} \/ mission.status \in {"CANCELLED", "PAUSED", "ARCHIVED"}
          /\ Goto(r, AfterReconcile(r))
       \/ /\ created # {} /\ mission.status \notin {"CANCELLED", "PAUSED", "ARCHIVED"}
          /\ Goto(r, "recDecide")
    /\ UNCHANGED <<rows, local, waves, history>>

\* (mutant) failures counted as done
OutcomeFailedAsDone ==
    IF Done \union Failed = created THEN "COMPLETED" ELSE "NONE"

\* All tasks are over: how the mission ends.
Outcome ==
    IF Done = created THEN "COMPLETED"
    ELSE IF Failed # {} /\ Done \union Failed = created THEN "FAILED"
    ELSE "NONE"

ReconcileDecide(r) ==
    /\ pc[r] = "recDecide"
    /\ \/ /\ Outcome # "NONE"
          /\ verdict' = [verdict EXCEPT ![r] = Outcome]
          /\ Goto(r, "recWrite")
       \/ /\ Outcome = "NONE"
          /\ verdict' = [verdict EXCEPT ![r] = IF Pending = {} THEN "NONE" ELSE "WAITING"]
          /\ Goto(r, "recBlocked")
    /\ UNCHANGED <<rows, op, held, count, waves, history>>

\* (mutant) a failed task is not counted as blocking its dependents
BlockedUnlessFailed == Runnable = {} /\ Failed = {}
Blocked == Runnable = {}

\* Work remains: the mission waits unless some of it, read again, can run.
ReconcileBlocked(r) ==
    /\ pc[r] = "recBlocked"
    /\ verdict' = [verdict EXCEPT ![r] = IF Blocked THEN @ ELSE "NONE"]
    /\ Goto(r, "recWrite")
    /\ UNCHANGED <<rows, op, held, count, waves, history>>

\* With no verdict only the progress figure is written.  (mutant: the status
\* is written whether or not there is one)
WrittenUnchecked(v) == v
Written(v) == IF v = "NONE" THEN mission.status ELSE v

ReconcileWrite(r) ==
    /\ pc[r] = "recWrite" /\ Present
    /\ SetStatus(Written(verdict[r]))
    /\ verdict' = [verdict EXCEPT ![r] = "NONE"]
    /\ Goto(r, AfterReconcile(r))
    /\ UNCHANGED <<created, task, op, held, count, waves, history>>

\* The cost totals are written; the run returns.
Totals(r) ==
    /\ pc[r] = "totals" /\ Present
    /\ Goto(r, "done")
    /\ UNCHANGED <<rows, local, waves, history>>

Run(r) ==
    \/ RunRead(r) \/ RunQueue(r) \/ Plan(r) \/ Activate(r) \/ Loop(r) \/ Select(r)
    \/ Slice(r) \/ WaveDone(r) \/ ReconcileRead(r) \/ ReconcileDecide(r)
    \/ ReconcileBlocked(r) \/ ReconcileWrite(r) \/ Totals(r) \/ MissionGone(r)
    \/ \E t \in Tasks : Execute(r, t)

-----------------------------------------------------------------------------
(* API requests.                                                            *)

CallBegin(c, request) ==
    /\ pc[c] = "idle"
    /\ op' = [op EXCEPT ![c] = request]
    /\ Goto(c, IF request = "plan" THEN "planRead" ELSE "read")
    /\ UNCHANGED <<rows, held, count, verdict, waves, history>>

\* The status a request writes.  start() asserts a move to QUEUED and writes
\* RUNNING.
Target ==
    [q \in {"start", "pause", "cancel", "cancelAndSkip", "archive"} |->
        CASE q = "start" -> "RUNNING" [] q = "pause" -> "PAUSED"
          [] q = "archive" -> "ARCHIVED" [] OTHER -> "CANCELLED"]
Asserted(q) == IF q = "start" THEN "QUEUED" ELSE Target[q]

\* start, pause, cancel (MissionsService), cancel (orchestrator), archive
ControlRead(c) ==
    /\ pc[c] = "read" /\ Present /\ op[c] \in DOMAIN Target
    /\ Goto(c, IF Allowed(Asserted(op[c])) /\ (op[c] = "start" => created # {})
               THEN "write" ELSE "thrown")
    /\ UNCHANGED <<rows, local, waves, history>>

ControlWrite(c) ==
    /\ pc[c] = "write" /\ Present /\ op[c] \in DOMAIN Target
    /\ SetStatus(Target[op[c]])
    /\ Goto(c, IF op[c] = "cancelAndSkip" THEN "skipRead" ELSE "done")
    /\ UNCHANGED <<created, task, local, waves, history>>

\* The orchestrator's cancel() then skips the tasks it reads as PENDING.
SkipRead(c) ==
    /\ pc[c] = "skipRead"
    /\ held' = [held EXCEPT ![c] = WithStatus({"PENDING"})]
    /\ Goto(c, "skip")
    /\ UNCHANGED <<rows, op, count, verdict, waves, history>>

Skip(c) ==
    /\ pc[c] = "skip"
    /\ \/ \E t \in held[c] :
            /\ task' = [task EXCEPT ![t].status = "SKIPPED"]
            /\ held' = [held EXCEPT ![c] = @ \ {t}]
            /\ UNCHANGED pc
       \/ held[c] = {} /\ Goto(c, "done") /\ UNCHANGED <<task, held>>
    /\ UNCHANGED <<mission, created, op, count, verdict, waves, history>>

RetryAllowed == Allowed("QUEUED") /\ mission.retryCount < MissionMaxRetries

RetryRead(c) ==
    /\ pc[c] = "read" /\ Present /\ op[c] = "retry"
    /\ \/ /\ RetryAllowed
          /\ count' = [count EXCEPT ![c] = mission.retryCount]
          /\ Goto(c, "resetRead")
       \/ ~RetryAllowed /\ Goto(c, "thrown") /\ UNCHANGED count
    /\ UNCHANGED <<rows, op, held, verdict, waves, history>>

ResetRead(c) ==
    /\ pc[c] = "resetRead"
    /\ held' = [held EXCEPT ![c] = Failed]
    /\ Goto(c, "reset")
    /\ UNCHANGED <<rows, op, count, verdict, waves, history>>

Reset(c) ==
    /\ pc[c] = "reset"
    /\ \/ \E t \in held[c] :
            /\ task' = [task EXCEPT ![t].status = "PENDING", ![t].attempts = 0]
            /\ held' = [held EXCEPT ![c] = @ \ {t}]
            /\ UNCHANGED pc
       \/ held[c] = {} /\ Goto(c, "retryWrite") /\ UNCHANGED <<task, held>>
    /\ UNCHANGED <<mission, created, op, count, verdict, waves, history>>

RetryWrite(c) ==
    /\ pc[c] = "retryWrite" /\ Present
    /\ mission' = [mission EXCEPT !.status = "QUEUED", !.retryCount = count[c] + 1]
    /\ Goto(c, "done")
    /\ UNCHANGED <<created, task, local, waves, history>>

\* DELETE /missions/:id
RemoveRead(c) ==
    /\ pc[c] = "read" /\ Present /\ op[c] = "remove"
    /\ Goto(c, IF mission.status = "RUNNING" THEN "thrown" ELSE "write")
    /\ UNCHANGED <<rows, local, waves, history>>

RemoveWrite(c) ==
    /\ pc[c] = "write" /\ Present /\ op[c] = "remove"
    /\ mission' = [mission EXCEPT !.deleted = TRUE]
    /\ Goto(c, "done")
    /\ UNCHANGED <<created, task, local, waves, history>>

\* POST /missions/:id/tasks: dependencies must be tasks of this mission.
AddTask(c) ==
    /\ pc[c] = "read" /\ Present /\ op[c] = "addTask"
    /\ \E t \in Tasks \ created :
          \/ Deps[t] \subseteq created /\ created' = created \union {t} /\ Goto(c, "done")
          \/ ~(Deps[t] \subseteq created) /\ Goto(c, "thrown") /\ UNCHANGED created
    /\ UNCHANGED <<mission, task, local, waves, history>>

\* PATCH /missions/:id/tasks/:taskId with a status.  The attempts figure is
\* the one read before the write.
UpdateRead(c) ==
    /\ pc[c] = "read" /\ Present /\ op[c] = "updateTask"
    /\ \E t \in created :
          /\ held' = [held EXCEPT ![c] = {t}]
          /\ count' = [count EXCEPT ![c] = task[t].attempts]
    /\ Goto(c, "update")
    /\ UNCHANGED <<rows, op, verdict, waves, history>>

UpdateWrite(c) ==
    /\ pc[c] = "update"
    /\ \E t \in held[c], s \in Overrides :
          /\ task' = [task EXCEPT ![t].status = s,
                                  ![t].attempts = IF s = "FAILED" THEN count[c] + 1 ELSE @]
          /\ overridden' = IF s = "COMPLETED" THEN overridden \union {t} ELSE overridden
    /\ held' = [held EXCEPT ![c] = {}]
    /\ Goto(c, "recalcTasks")
    /\ UNCHANGED <<mission, created, op, count, verdict, waves, begun, produced>>

\* recalculateProgress(): the tasks first, then the mission, then the write.
RecalcTasks(c) ==
    /\ pc[c] = "recalcTasks"
    /\ verdict' = [verdict EXCEPT ![c] = Outcome]
    /\ Goto(c, "recalcMission")
    /\ UNCHANGED <<rows, op, held, count, waves, history>>

RecalcMission(c) ==
    /\ pc[c] = "recalcMission" /\ Present
    /\ Goto(c, IF mission.status = "RUNNING" /\ verdict[c] # "NONE" THEN "recalcWrite" ELSE "done")
    /\ UNCHANGED <<rows, local, waves, history>>

RecalcWrite(c) ==
    /\ pc[c] = "recalcWrite" /\ Present
    /\ SetStatus(verdict[c])
    /\ Goto(c, "done")
    /\ UNCHANGED <<created, task, local, waves, history>>

Call(c) ==
    \/ Plan(c) \/ ControlRead(c) \/ ControlWrite(c) \/ SkipRead(c) \/ Skip(c)
    \/ RetryRead(c) \/ ResetRead(c) \/ Reset(c) \/ RetryWrite(c)
    \/ RemoveRead(c) \/ RemoveWrite(c) \/ AddTask(c)
    \/ UpdateRead(c) \/ UpdateWrite(c) \/ RecalcTasks(c) \/ RecalcMission(c) \/ RecalcWrite(c)
    \/ MissionGone(c)

-----------------------------------------------------------------------------
Next ==
    \/ \E r \in Runs : Run(r) \/ \E intent \in {"run", "resume"} : RunBegin(r, intent)
    \/ \E c \in Calls : Call(c) \/ \E request \in Requests : CallBegin(c, request)

Spec == Init /\ [][Next]_vars
-----------------------------------------------------------------------------
(* Properties.                                                              *)

Steps == MissionSteps \union
    {"idle", "done", "thrown", "planCheck", "planAssign", "select", "wave", "recDecide",
     "recBlocked", "skipRead", "skip", "resetRead", "reset", "update", "recalcTasks"}
TaskRow == [status : TaskStatus, attempts : Nat, assigned : BOOLEAN]

RowsOK ==
    /\ mission \in [status : MissionStatus, retryCount : Nat, deleted : BOOLEAN]
    /\ created \subseteq Tasks
    /\ task \in [Tasks -> TaskRow]
PcOK == pc \in [Procs -> Steps]
LocalOK ==
    /\ op \in [Procs -> AllRequests \union {"none", "wave", "final"}]
    /\ held \in [Procs -> SUBSET Tasks]
    /\ count \in [Procs -> Nat]
    /\ verdict \in [Procs -> MissionStatus \union {"NONE"}]
WavesOK ==
    /\ exec \in [Runs -> [Tasks -> {"none", "queued", "slot", "working"}]]
    /\ snap \in [Runs -> [Tasks -> TaskRow]]
HistoryOK == begun \subseteq Tasks /\ produced \subseteq Tasks /\ overridden \subseteq Tasks

\* Every row and every handler's local state has its shape: statuses come
\* from the two Prisma enums, counters are natural numbers.
TypeOK == RowsOK /\ PcOK /\ LocalOK /\ WavesOK /\ HistoryOK

\* A task never starts before the work it depends on has produced output (or
\* an operator declared it complete), however many orchestrators walk the
\* graph and whatever requests race them (findRunnable, executeTask).
DependenciesFirst ==
    \A t \in begun : Deps[t] \subseteq produced \union overridden

\* The invariant behind it: a dependency found COMPLETED once produced a result,
\* and that stays true for the tasks already chosen and not yet begun, although
\* the row findRunnable read may have changed since.
Settled == produced \union overridden
GraphInv ==
    /\ \A t \in Tasks : task[t].status = "COMPLETED" => t \in Settled
    /\ \A r \in Runs, t \in Tasks :
          /\ exec[r][t] \in {"queued", "slot"} => Deps[t] \subseteq Settled
          /\ exec[r][t] = "working" => t \in begun
    /\ DependenciesFirst

\* The same promise as a specification of its own, with the converse: a task
\* is completed by an orchestrator only after that orchestrator began it.
Graph == INSTANCE TaskGraph
             WITH Tasks <- Tasks, Deps <- Deps,
                  begun <- begun, produced <- produced, overridden <- overridden
ImplementsTaskGraph == Graph!Spec

\* No task is attempted more than maxRetries + 1 times per mission retry,
\* although executeTask counts from the row it read when the wave was chosen
\* and two runs may hold the same row (no operator edits the task).
AttemptsBounded ==
    \A t \in Tasks :
        /\ task[t].attempts <= TaskMaxRetries + 1
        /\ task[t].status = "PENDING" => task[t].attempts <= TaskMaxRetries

\* mission.retryCount never passes mission.maxRetries, although retry() checks
\* it two writes before it increments it.
RetriesBounded == mission.retryCount <= MissionMaxRetries

Live(r)  == pc[r] \notin {"idle", "done", "thrown"} \/ InPhase(r, {"slot", "working"}) # {}
Quiet    == \A r \in Runs : ~Live(r)

Asked(S) == \E c \in Calls : op[c] \in S

\* With one orchestrator on the graph, a mission is marked COMPLETED only when
\* every task is COMPLETED or SKIPPED, and it stays so whatever requests race
\* the run, except those that add or reopen tasks.
CompletedMeansDone ==
    mission.status = "COMPLETED" /\ ~Asked({"addTask", "updateTask", "retry"})
        => Done = created

\* With one orchestrator a mission is never left RUNNING by a run that has
\* ended, where nobody would pick it up again, unless a request set it going
\* or gave it new work (start writes RUNNING without a run).
NotStranded ==
    Quiet /\ (\E r \in Runs : pc[r] = "done") /\ ~Asked({"start", "retry", "addTask", "updateTask"})
        => mission.status # "RUNNING"

\* A status only changes along MISSION_TRANSITIONS.
LegalTransition ==
    [][mission'.status # mission.status =>
          mission'.status \in MISSION_TRANSITIONS[mission.status]]_vars
=============================================================================

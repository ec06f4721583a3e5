---------------------------- MODULE MissionQueue ----------------------------
(***************************************************************************)
(* The queue in front of Mission: requests to execute or resume a mission  *)
(* become a BullMQ job, workers take the job and run the orchestrator, and *)
(* processes die (MissionQueueService, QueueService).  BullMQ and Redis    *)
(* are external: what is modelled is what the code relies on, that an add  *)
(* under an existing id is ignored, that a job is given to one worker at a *)
(* time as long as its lock is renewed, that a job whose lock expires is   *)
(* given away once more, and that a failed job is attempted again.         *)
(***************************************************************************)
EXTENDS Mission

CONSTANTS
    Clients,       \* requests to execute or resume the mission
    Intents,       \* what they ask for
    JobAttempts,   \* defaultJobOptions.attempts (3)
    MaxStalls,     \* BullMQ's maxStalledCount (1)
    MaxCrashes,    \* bound: processes that die
    MaxLost,       \* bound: live workers that lose their lock
    NoRun          \* the worker of a job nobody works on

ASSUME QueueAssumption ==
    /\ Intents \subseteq {"run", "resume"}
    /\ JobAttempts \in Nat \ {0} /\ MaxStalls \in Nat /\ MaxCrashes \in Nat
    /\ MaxLost \in Nat
    /\ NoRun \notin Runs

VARIABLES
    client,    \* where each request is
    intent,    \* what it asks for
    job,       \* the jobs in Redis, by id
    crashes,   \* how many processes died
    lost       \* how many live workers lost their lock

queue == <<client, intent, job, crashes, lost>>
qvars == <<vars, client, intent, job, crashes, lost>>

JobIds == {"mission", "mission-run", "mission-resume"}

\* (mutant) running and resuming are different jobs
JobIdPerIntent(i) == IF i = "run" THEN "mission-run" ELSE "mission-resume"
\* The id is that of the mission, whatever the intent.
JobId(i) == "mission"

NoJob == [state |-> "none", intent |-> "run", made |-> 0, stalls |-> 0, run |-> NoRun]

QueueInit ==
    /\ Init
    /\ client = [c \in Clients |-> "idle"]
    /\ intent = [c \in Clients |-> "run"]
    /\ job = [k \in JobIds |-> NoJob]
    /\ crashes = 0 /\ lost = 0

Pick(c, step)  == client' = [client EXCEPT ![c] = step]
SetJob(k, j)   == job' = [job EXCEPT ![k] = j]
-----------------------------------------------------------------------------
(* MissionQueueService.enqueue                                              *)

Runnables  == {"DRAFT", "QUEUED", "PLANNING", "RUNNING", "WAITING", "PAUSED"}
Resumables == {"PAUSED", "WAITING"}
Executable(i) == mission.status \in (IF i = "resume" THEN Resumables ELSE Runnables)

\* The mission is read first, so that a refusal reaches the caller.
EnqueueCheck(c) ==
    /\ client[c] = "idle"
    /\ \E i \in Intents :
          /\ intent' = [intent EXCEPT ![c] = i]
          /\ Pick(c, IF Present /\ Executable(i) THEN "checked" ELSE "refused")
    /\ UNCHANGED <<vars, job, crashes, lost>>

\* QueueService.enqueueMission: Redis is down, or the id exists and BullMQ
\* ignores the add, or there is a new job.
EnqueueAdd(c) ==
    /\ client[c] = "checked"
    /\ LET k == JobId(intent[c]) IN
       \/ Pick(c, "refused") /\ UNCHANGED job
       \/ job[k].state # "none" /\ Pick(c, "accepted") /\ UNCHANGED job
       \/ /\ job[k].state = "none" /\ Pick(c, "accepted")
          /\ SetJob(k, [NoJob EXCEPT !.state = "waiting", !.intent = intent[c]])
    /\ UNCHANGED <<vars, intent, crashes, lost>>

-----------------------------------------------------------------------------
(* The worker side: registerMissionProcessor and MissionQueueService.process *)

Deliver(r, k) ==
    /\ job[k].state = "waiting"
    /\ RunBegin(r, job[k].intent)
    /\ SetJob(k, [job[k] EXCEPT !.state = "active", !.run = r])
    /\ UNCHANGED <<client, intent, crashes, lost>>

Held(r, k) == job[k].state = "active" /\ job[k].run = r

\* The run returned.
Complete(r, k) ==
    /\ Held(r, k) /\ pc[r] = "done"
    /\ SetJob(k, [job[k] EXCEPT !.state = "completed", !.run = NoRun])
    /\ UNCHANGED <<vars, client, intent, crashes, lost>>

\* The run threw: process() rethrows, so the job waits for its next attempt
\* unless that was the last.
Rethrow(r, k) ==
    /\ Held(r, k) /\ pc[r] = "thrown"
    /\ SetJob(k, [job[k] EXCEPT !.state = IF job[k].made + 1 < JobAttempts THEN "waiting" ELSE "failed",
                                !.made = @ + 1, !.run = NoRun])
    /\ UNCHANGED <<vars, client, intent, crashes, lost>>

\* The process of a run or of a request dies: its next statement never comes.
Crash(p) ==
    /\ crashes < MaxCrashes
    /\ pc[p] \notin {"idle", "done", "thrown"}
    /\ crashes' = crashes + 1
    /\ Goto(p, "thrown")
    /\ exec' = [r \in Runs |-> IF r = p THEN [t \in Tasks |-> "none"] ELSE exec[r]]
    /\ job' = [k \in JobIds |-> IF Held(p, k) THEN [job[k] EXCEPT !.run = NoRun] ELSE job[k]]
    /\ UNCHANGED <<rows, local, snap, history, client, intent, lost>>

\* A live worker fails to renew its lock (a blocked event loop, lost contact
\* with Redis); it carries on and its result will be refused.
LoseLock(r, k) ==
    /\ lost < MaxLost
    /\ lost' = lost + 1
    /\ Held(r, k)
    /\ SetJob(k, [job[k] EXCEPT !.run = NoRun])
    /\ UNCHANGED <<vars, client, intent, crashes>>

\* The stalled check finds an active job without a lock.
Stalled(k) ==
    /\ job[k].state = "active" /\ job[k].run = NoRun
    /\ SetJob(k, [job[k] EXCEPT !.state = IF job[k].stalls < MaxStalls THEN "waiting" ELSE "failed",
                                !.stalls = @ + 1])
    /\ UNCHANGED <<vars, client, intent, crashes, lost>>

\* removeOnComplete after an hour, removeOnFail after a day.
Expire(k) ==
    /\ job[k].state \in {"completed", "failed"}
    /\ SetJob(k, NoJob)
    /\ UNCHANGED <<vars, client, intent, crashes, lost>>

-----------------------------------------------------------------------------
Worker(r, k) == Deliver(r, k) \/ Complete(r, k) \/ Rethrow(r, k)
Client(c)    == EnqueueCheck(c) \/ EnqueueAdd(c)
Engine       == \/ \E r \in Runs : Run(r)
                \/ \E c \in Calls : Call(c) \/ \E request \in Requests : CallBegin(c, request)

QueueNext ==
    \/ \E c \in Clients : Client(c)
    \/ \E r \in Runs, k \in JobIds : Worker(r, k) \/ LoseLock(r, k)
    \/ \E k \in JobIds : Stalled(k) \/ Expire(k)
    \/ \E p \in Procs : Crash(p)
    \/ Engine /\ UNCHANGED queue

QueueSpec == QueueInit /\ [][QueueNext]_qvars
-----------------------------------------------------------------------------
(* Properties.                                                              *)

JobState == {"none", "waiting", "active", "completed", "failed"}
JobRow == [state : JobState, intent : {"run", "resume"}, made : Nat, stalls : Nat,
           run : Runs \union {NoRun}]
QueueTypeOK ==
    /\ TypeOK
    /\ client \in [Clients -> {"idle", "checked", "accepted", "refused"}]
    /\ intent \in [Clients -> {"run", "resume"}]
    /\ job \in [JobIds -> JobRow]
    /\ crashes \in Nat /\ lost \in Nat

\* Two orchestrators never walk one task graph (as long as only a dead
\* worker loses its lock): enqueueMission keys the job on the mission alone.
Walking(r) == pc[r] \notin {"idle", "done", "thrown"}
OneOrchestrator == lost = 0 => \A r, s \in Runs : Walking(r) /\ Walking(s) => r = s

\* The task graph keeps its promise although processes die in the middle of
\* a task and the job is given to a second worker while the first carries on.
GraphSurvives == Graph!Spec

Working == \/ \E k \in JobIds : job[k].state \in {"waiting", "active"}
           \/ \E p \in Procs : pc[p] \notin {"idle", "done", "thrown"}

\* Once no job is left and no handler is under way, a mission that was run is
\* not left RUNNING or PLANNING, where nobody would pick it up.
NeverStuckRunning ==
    ~Working /\ (\E r \in Runs : pc[r] # "idle")
        => mission.status \notin {"RUNNING", "PLANNING"}

\* It happens only to a mission one of whose processes died or lost its job: no
\* sequence of requests to execute, resume, pause and retry brings it about.
StuckOnlyByCrash == crashes = 0 /\ lost = 0 => NeverStuckRunning

\* When a request to execute is accepted there is a job that will be run.
AcceptedIsQueued ==
    [][\A c \in Clients : client[c] = "checked" /\ client'[c] = "accepted"
          => job'[JobId(intent[c])].state \in {"waiting", "active"}]_qvars

\* Workers take waiting jobs, report how their run ended and keep running;
\* stalled jobs are noticed.  Nothing obliges a client to ask.
QueueFairness ==
    /\ \A r \in Runs, k \in JobIds : WF_qvars(Complete(r, k) \/ Rethrow(r, k))
    /\ \A r \in Runs : WF_qvars(Run(r) /\ UNCHANGED queue)
    /\ WF_qvars(\E r \in Runs, k \in JobIds : Deliver(r, k))
    /\ \A k \in JobIds : WF_qvars(Stalled(k))

FairQueueSpec == QueueSpec /\ QueueFairness

\* An accepted mission is brought to COMPLETED, FAILED or WAITING without
\* anyone asking again (processes live, workers are reliable, and no other
\* request intervenes).
AcceptedIsDecided ==
    \A c \in Clients :
        client[c] = "accepted" ~> mission.status \in {"COMPLETED", "FAILED", "WAITING"}
=============================================================================

--------------------------- MODULE MissionProofs ---------------------------
(***************************************************************************)
(* Type correctness of Mission, the promise that a task never starts       *)
(* before its dependencies, the bounds on retries and attempts, and the    *)
(* refinement of TaskGraph, for any task graph, any number of overlapping  *)
(* runs and any requests.                                                  *)
(*                                                                         *)
(* For one run: that a COMPLETED mission has its work done, and that a     *)
(* RUNNING one is not left without anybody to run it.                      *)
(*                                                                         *)
(* Of Mission and MissionQueue together, what survives crashes, stalled    *)
(* jobs and repeated requests: the types, the order of the task graph, the *)
(* bound on attempts, a single orchestrator per mission as long as live    *)
(* workers keep their locks, and that only a crash leaves a mission        *)
(* RUNNING with nobody to run it.                                          *)
(***************************************************************************)
EXTENDS MissionQueue, TLAPS

(* TypeOK is inductive once it is known that recalculateProgress reaches its *)
(* write only with a status in hand.                                         *)
WriteDecided == \A c \in Calls : pc[c] = "recalcWrite" => verdict[c] # "NONE"
TypeInv == TypeOK /\ WriteDecided

(* Frame lemmas: a step that leaves a group of variables alone keeps its type. *)

\* The rows keep their type while no statement writes them.
LEMMA FrameRows == RowsOK /\ UNCHANGED rows => RowsOK'
BY DEF RowsOK, rows

\* Handlers' local values keep their type while they are not assigned.
LEMMA FrameLocal == LocalOK /\ UNCHANGED local => LocalOK'
BY DEF LocalOK, local

\* The wave in progress keeps its type while it does not advance.
LEMMA FrameWaves == WavesOK /\ UNCHANGED waves => WavesOK'
BY DEF WavesOK, waves

\* The history keeps its type while it is not extended.
LEMMA FrameHistory == HistoryOK /\ UNCHANGED history => HistoryOK'
BY DEF HistoryOK, history

\* Nobody comes to the progress write when nobody moves.
LEMMA FrameDecided == WriteDecided /\ UNCHANGED pc /\ UNCHANGED verdict => WriteDecided'
BY DEF WriteDecided

\* A handler that moves to a known step is at a known step.
LEMMA Move == ASSUME NEW p \in Procs, NEW s \in Steps, PcOK, Goto(p, s) PROVE PcOK'
BY DEF Goto, PcOK

\* A handler that moves anywhere else than to the progress write does not
\* disturb the fact that those who are there have decided.
LEMMA MoveDecided ==
    ASSUME NEW p \in Procs, NEW s \in Steps, PcOK, Goto(p, s), s # "recalcWrite",
           WriteDecided, \A c \in Calls : c # p => verdict'[c] = verdict[c]
    PROVE  WriteDecided'
BY DEF Goto, PcOK, WriteDecided, Procs

\* The steps written out.
LEMMA StepNames == MissionSteps \union
    {"idle", "done", "thrown", "planCheck", "planAssign", "select", "wave", "recDecide",
     "recBlocked", "skipRead", "skip", "resetRead", "reset", "update", "recalcTasks"} \subseteq Steps
BY DEF Steps

\* A reconciliation decides on a status of the enumeration, or on none.
LEMMA OutcomeType == Outcome \in MissionStatus \union {"NONE"}
BY DEF Outcome, MissionStatus

\* The status a control request writes is one of the enumeration.
LEMMA TargetType ==
    \A q \in {"start", "pause", "cancel", "cancelAndSkip", "archive"} :
        Target[q] \in MissionStatus
BY DEF Target, MissionStatus

\* Initially every row and every handler has its type.
LEMMA TypeInit == Init => TypeInv
BY MissionAssumption
   DEF Init, TypeInv, WriteDecided, TypeOK, RowsOK, PcOK, LocalOK, WavesOK, HistoryOK,
       TaskRow, MissionStatus, TaskStatus, Steps, Procs

-----------------------------------------------------------------------------
(* One lemma per group of actions.                                          *)

\* Steps that only move a handler keep the types.
LEMMA TypeMoves ==
    ASSUME TypeInv, NEW p \in Procs,
           \/ MissionGone(p) \/ PlanRead(p) \/ PlanDone(p)
           \/ p \in Runs /\ (RunRead(p) \/ ReconcileRead(p) \/ Totals(p))
           \/ p \in Runs /\ \E entry \in {"run", "resume"} : RunBegin(p, entry)
           \/ p \in Calls /\ (ControlRead(p) \/ RemoveRead(p))
    PROVE  TypeInv'
<1> USE FrameRows, FrameLocal, FrameWaves, FrameHistory, Move, MoveDecided, StepNames
    DEF TypeInv, TypeOK, MissionSteps, local
<1>1. CASE MissionGone(p) BY <1>1 DEF MissionGone
<1>2. CASE PlanRead(p) BY <1>2 DEF PlanRead
<1>3. CASE PlanDone(p) BY <1>3 DEF PlanDone
<1>4. CASE p \in Runs /\ RunRead(p) BY <1>4 DEF RunRead
<1>5. CASE p \in Runs /\ ReconcileRead(p) BY <1>5 DEF ReconcileRead, AfterReconcile
<1>6. CASE p \in Runs /\ Totals(p) BY <1>6 DEF Totals
<1>7. CASE p \in Runs /\ \E entry \in {"run", "resume"} : RunBegin(p, entry)
    BY <1>7 DEF RunBegin
<1>8. CASE p \in Calls /\ ControlRead(p) BY <1>8 DEF ControlRead
<1>9. CASE p \in Calls /\ RemoveRead(p) BY <1>9 DEF RemoveRead
<1> QED BY <1>1, <1>2, <1>3, <1>4, <1>5, <1>6, <1>7, <1>8, <1>9

\* Steps that write the mission row keep the types.
LEMMA TypeMissionWrites ==
    ASSUME TypeInv, NEW p \in Procs,
           \/ PlanQueue(p) \/ PlanMark(p) \/ PlanFail(p)
           \/ p \in Runs /\ (RunQueue(p) \/ Activate(p))
           \/ p \in Calls /\ (ControlWrite(p) \/ RetryWrite(p) \/ RemoveWrite(p)
                              \/ RecalcWrite(p))
    PROVE  TypeInv'
<1> USE FrameLocal, FrameWaves, FrameHistory, Move, MoveDecided, StepNames
    DEF TypeInv, TypeOK, MissionSteps, local
<1>1. ASSUME NEW from, NEW s \in MissionStatus, NEW to \in Steps \ {"recalcWrite"},
             PlanWrite(p, from, s, to)
      PROVE  TypeInv'
  <2>1. RowsOK' BY <1>1 DEF PlanWrite, SetStatus, RowsOK
  <2> QED BY <1>1, <2>1 DEF PlanWrite
<1>2. {"QUEUED", "PLANNING", "FAILED", "RUNNING"} \subseteq MissionStatus
    BY DEF MissionStatus
<1>3. CASE PlanQueue(p) \/ PlanMark(p) \/ PlanFail(p)
    BY <1>1, <1>2, <1>3 DEF PlanQueue, PlanMark, PlanFail
<1>4. CASE p \in Runs /\ (RunQueue(p) \/ Activate(p))
    BY <1>1, <1>2, <1>4 DEF RunQueue, Activate
<1>5. CASE p \in Calls /\ ControlWrite(p)
  <2>1. RowsOK' BY <1>5, TargetType DEF ControlWrite, SetStatus, RowsOK, Target
  <2> QED BY <1>5, <2>1 DEF ControlWrite
<1>6. CASE p \in Calls /\ RetryWrite(p)
  <2>1. count[p] + 1 \in Nat BY DEF LocalOK
  <2>2. RowsOK' BY <1>2, <1>6, <2>1 DEF RetryWrite, RowsOK
  <2> QED BY <1>6, <2>2 DEF RetryWrite
<1>7. CASE p \in Calls /\ RemoveWrite(p)
  <2>1. RowsOK' BY <1>7 DEF RemoveWrite, RowsOK
  <2> QED BY <1>7, <2>1 DEF RemoveWrite
<1>8. CASE p \in Calls /\ RecalcWrite(p)
  <2>1. RowsOK' BY <1>8 DEF RecalcWrite, SetStatus, RowsOK, LocalOK, WriteDecided
  <2> QED BY <1>8, <2>1 DEF RecalcWrite
<1> QED BY <1>3, <1>4, <1>5, <1>6, <1>7, <1>8

\* Steps that write task rows keep the types.
LEMMA TypeTaskWrites ==
    ASSUME TypeInv, NEW p \in Procs,
           \/ PlanAssign(p)
           \/ p \in Calls /\ (Skip(p) \/ Reset(p) \/ UpdateWrite(p) \/ AddTask(p))
    PROVE  TypeInv'
<1> USE FrameWaves, FrameHistory, Move, MoveDecided, StepNames
    DEF TypeInv, TypeOK, MissionSteps, local
<1>a. RowsOK /\ LocalOK /\ PcOK /\ held[p] \subseteq Tasks /\ count[p] + 1 \in Nat
    BY DEF LocalOK
<1>b. {"PENDING", "SKIPPED"} \subseteq TaskStatus /\ Overrides \subseteq TaskStatus
    BY MissionAssumption DEF TaskStatus
<1>1. CASE PlanAssign(p)
  <2>1. ASSUME NEW t \in held[p], task' = [task EXCEPT ![t].assigned = TRUE],
               held' = [held EXCEPT ![p] = @ \ {t}], UNCHANGED pc
        PROVE  TypeInv'
    <3>1. RowsOK' BY ZenonT(60), <1>1, <2>1, <1>a, <1>b DEF PlanAssign, RowsOK, TaskRow
    <3>2. LocalOK' BY <1>1, <2>1, <1>a DEF PlanAssign, LocalOK
    <3> QED BY <1>1, <2>1, <3>1, <3>2, FrameDecided DEF PlanAssign, PcOK
  <2>2. CASE held[p] = {} /\ Goto(p, "planDone") /\ UNCHANGED <<task, held>>
    <3>1. UNCHANGED local BY <1>1, <2>2 DEF PlanAssign
    <3>2. UNCHANGED rows BY <1>1, <2>2 DEF PlanAssign, rows
    <3> QED BY <1>1, <2>2, <3>1, <3>2, FrameRows, FrameLocal DEF PlanAssign
  <2> QED BY <1>1, <2>1, <2>2 DEF PlanAssign
<1>2. CASE p \in Calls /\ Skip(p)
  <2>1. ASSUME NEW t \in held[p], task' = [task EXCEPT ![t].status = "SKIPPED"],
               held' = [held EXCEPT ![p] = @ \ {t}], UNCHANGED pc
        PROVE  TypeInv'
    <3>1. RowsOK' BY <1>2, <2>1, <1>a, <1>b DEF Skip, RowsOK, TaskRow
    <3>2. LocalOK' BY <1>2, <2>1, <1>a DEF Skip, LocalOK
    <3> QED BY <1>2, <2>1, <3>1, <3>2, FrameDecided DEF Skip, PcOK
  <2>2. CASE held[p] = {} /\ Goto(p, "done") /\ UNCHANGED <<task, held>>
    <3>1. UNCHANGED local BY <1>2, <2>2 DEF Skip
    <3>2. UNCHANGED rows BY <1>2, <2>2 DEF Skip, rows
    <3> QED BY <1>2, <2>2, <3>1, <3>2, FrameRows, FrameLocal DEF Skip
  <2> QED BY <1>2, <2>1, <2>2 DEF Skip
<1>3. CASE p \in Calls /\ Reset(p)
  <2>1. ASSUME NEW t \in held[p], task' = [task EXCEPT ![t].status = "PENDING", ![t].attempts = 0],
               held' = [held EXCEPT ![p] = @ \ {t}], UNCHANGED pc
        PROVE  TypeInv'
    <3>1. RowsOK' BY <1>3, <2>1, <1>a, <1>b DEF Reset, RowsOK, TaskRow
    <3>2. LocalOK' BY <1>3, <2>1, <1>a DEF Reset, LocalOK
    <3> QED BY <1>3, <2>1, <3>1, <3>2, FrameDecided DEF Reset, PcOK
  <2>2. CASE held[p] = {} /\ Goto(p, "retryWrite") /\ UNCHANGED <<task, held>>
    <3>1. UNCHANGED local BY <1>3, <2>2 DEF Reset
    <3>2. UNCHANGED rows BY <1>3, <2>2 DEF Reset, rows
    <3> QED BY <1>3, <2>2, <3>1, <3>2, FrameRows, FrameLocal DEF Reset
  <2> QED BY <1>3, <2>1, <2>2 DEF Reset
<1>4. CASE p \in Calls /\ UpdateWrite(p)
  <2> PICK t \in held[p], s \in Overrides :
        /\ task' = [task EXCEPT ![t].status = s,
                                ![t].attempts = IF s = "FAILED" THEN count[p] + 1 ELSE @]
        /\ overridden' = IF s = "COMPLETED" THEN overridden \union {t} ELSE overridden
      BY <1>4 DEF UpdateWrite
  <2>1. RowsOK' BY <1>4, <1>a, <1>b DEF UpdateWrite, RowsOK, TaskRow
  <2>2. LocalOK' BY <1>4, <1>a DEF UpdateWrite, LocalOK
  <2>3. HistoryOK' BY <1>4, <1>a DEF UpdateWrite, HistoryOK
  <2> QED BY <1>4, <2>1, <2>2, <2>3 DEF UpdateWrite
<1>5. CASE p \in Calls /\ AddTask(p)
  <2>1. RowsOK' BY <1>5 DEF AddTask, RowsOK
  <2> QED BY <1>5, <2>1, FrameLocal DEF AddTask
<1> QED BY <1>1, <1>2, <1>3, <1>4, <1>5

\* Steps that read rows into a handler's local values keep the types.
LEMMA TypeReads ==
    ASSUME TypeInv, NEW p \in Procs,
           \/ PlanCheck(p)
           \/ p \in Runs /\ (Loop(p) \/ WaveDone(p) \/ ReconcileDecide(p)
                             \/ ReconcileBlocked(p))
           \/ p \in Calls /\ (SkipRead(p) \/ ResetRead(p) \/ RetryRead(p) \/ UpdateRead(p)
                              \/ RecalcTasks(p) \/ RecalcMission(p))
           \/ p \in Calls /\ \E request \in Requests : CallBegin(p, request)
    PROVE  TypeInv'
<1> USE FrameRows, FrameWaves, FrameHistory, Move, MoveDecided, StepNames
    DEF TypeInv, TypeOK, MissionSteps
<1>1. CASE PlanCheck(p)
  <2>1. LocalOK' BY <1>1 DEF PlanCheck, LocalOK, RowsOK
  <2> QED BY <1>1, <2>1 DEF PlanCheck
<1>2. CASE p \in Runs /\ Loop(p)
  <2>1. LocalOK' BY <1>2 DEF Loop, LocalOK
  <2> QED BY <1>2, <2>1 DEF Loop
<1>3. CASE p \in Runs /\ WaveDone(p)
  <2>1. LocalOK' BY <1>3 DEF WaveDone, LocalOK
  <2> QED BY <1>3, <2>1 DEF WaveDone
<1>4. CASE p \in Runs /\ ReconcileDecide(p)
  <2>1. LocalOK' BY <1>4, OutcomeType DEF ReconcileDecide, LocalOK, MissionStatus
  <2>2. \A c \in Calls : c # p => verdict'[c] = verdict[c]
      BY <1>4 DEF ReconcileDecide, LocalOK, Procs
  <2> QED BY <1>4, <2>1, <2>2 DEF ReconcileDecide
<1>11. CASE p \in Runs /\ ReconcileBlocked(p)
  <2>1. LocalOK' BY <1>11 DEF ReconcileBlocked, LocalOK, Procs
  <2>2. \A c \in Calls : c # p => verdict'[c] = verdict[c]
      BY <1>11 DEF ReconcileBlocked, LocalOK, Procs
  <2> QED BY <1>11, <2>1, <2>2 DEF ReconcileBlocked
<1>5. CASE p \in Calls /\ (SkipRead(p) \/ ResetRead(p))
  <2>1. LocalOK' BY <1>5 DEF SkipRead, ResetRead, LocalOK, WithStatus, Failed, RowsOK
  <2> QED BY <1>5, <2>1 DEF SkipRead, ResetRead
<1>6. CASE p \in Calls /\ RetryRead(p)
  <2>1. LocalOK' BY <1>6 DEF RetryRead, LocalOK, RowsOK
  <2> QED BY <1>6, <2>1 DEF RetryRead
<1>7. CASE p \in Calls /\ UpdateRead(p)
  <2>1. LocalOK' BY <1>7 DEF UpdateRead, LocalOK, RowsOK, TaskRow
  <2> QED BY <1>7, <2>1 DEF UpdateRead
<1>8. CASE p \in Calls /\ RecalcTasks(p)
  <2>1. LocalOK' BY <1>8, OutcomeType DEF RecalcTasks, LocalOK
  <2>2. \A c \in Calls : c # p => verdict'[c] = verdict[c]
      BY <1>8 DEF RecalcTasks, LocalOK, Procs
  <2> QED BY <1>8, <2>1, <2>2 DEF RecalcTasks
<1>9. CASE p \in Calls /\ RecalcMission(p)
  <2>1. LocalOK' BY <1>9, FrameLocal DEF RecalcMission
  <2>2. PcOK' BY <1>9 DEF RecalcMission
  <2>3. WriteDecided' BY <1>9 DEF RecalcMission, WriteDecided, Goto, PcOK, Procs, local
  <2> QED BY <1>9, <2>1, <2>2, <2>3 DEF RecalcMission
<1>10. CASE p \in Calls /\ \E request \in Requests : CallBegin(p, request)
  <2>1. LocalOK' BY <1>10, MissionAssumption DEF CallBegin, LocalOK
  <2> QED BY <1>10, <2>1 DEF CallBegin
<1> QED BY <1>1, <1>2, <1>3, <1>4, <1>5, <1>6, <1>7, <1>8, <1>9, <1>10, <1>11

\* Steps of a wave, and the reconciliation's write, keep the types.
LEMMA TypeWaves ==
    ASSUME TypeInv, NEW r \in Runs,
           \/ Select(r) \/ Slice(r) \/ ReconcileWrite(r)
           \/ \E t \in Tasks : Execute(r, t)
    PROVE  TypeInv'
<1> USE FrameHistory, Move, MoveDecided, StepNames DEF TypeInv, TypeOK, MissionSteps, Procs
<1>1. CASE Select(r)
  <2>1. LocalOK' BY <1>1 DEF Select, LocalOK
  <2>2. WavesOK'
    <3>1. CASE UNCHANGED waves BY <3>1, FrameWaves
    <3>2. ASSUME exec' = [exec EXCEPT ![r] =
                            [t \in Tasks |-> IF t \in Runnable THEN "queued" ELSE "none"]],
                 snap' = [snap EXCEPT ![r] = task]
          PROVE  WavesOK'
        BY <3>2 DEF WavesOK, RowsOK
    <3> QED BY <1>1, <3>1, <3>2 DEF Select
  <2> QED BY <1>1, <2>1, <2>2, FrameRows DEF Select
<1>2. CASE Slice(r)
  <2>1. WavesOK' BY <1>2 DEF Slice, WavesOK
  <2> QED BY <1>2, <2>1, FrameRows, FrameLocal, FrameDecided DEF Slice, local, PcOK
<1>3. CASE ReconcileWrite(r)
  <2>1. RowsOK' BY <1>3 DEF ReconcileWrite, SetStatus, Written, RowsOK, LocalOK
  <2>2. LocalOK' BY <1>3 DEF ReconcileWrite, LocalOK
  <2>3. \A c \in Calls : c # r => verdict'[c] = verdict[c]
      BY <1>3 DEF ReconcileWrite, LocalOK
  <2> QED BY <1>3, <2>1, <2>2, <2>3, FrameWaves DEF ReconcileWrite, AfterReconcile
<1>4. ASSUME NEW t \in Tasks, Execute(r, t) PROVE TypeInv'
  <2>a. {"RUNNING", "COMPLETED", "FAILED", "PENDING"} \subseteq TaskStatus BY DEF TaskStatus
  <2>1. CASE ExecUnassigned(r, t)
    <3>1. RowsOK' BY <2>1, <2>a DEF ExecUnassigned, RowsOK, TaskRow
    <3>2. WavesOK' BY <2>1 DEF ExecUnassigned, Phase, WavesOK
    <3> QED BY <2>1, <3>1, <3>2, FrameLocal, FrameDecided DEF ExecUnassigned, local, PcOK
  <2>2. CASE ExecStart(r, t)
    <3>1. RowsOK' BY <2>2, <2>a DEF ExecStart, RowsOK, TaskRow
    <3>2. WavesOK' BY <2>2 DEF ExecStart, Phase, WavesOK
    <3>3. HistoryOK' BY <2>2 DEF ExecStart, HistoryOK
    <3> QED BY <2>2, <3>1, <3>2, <3>3, FrameLocal, FrameDecided DEF ExecStart, local, PcOK
  <2>3. CASE ExecSucceed(r, t)
    <3>1. RowsOK' BY <2>3, <2>a DEF ExecSucceed, RowsOK, TaskRow
    <3>2. WavesOK' BY <2>3 DEF ExecSucceed, Phase, WavesOK
    <3>3. HistoryOK' BY <2>3 DEF ExecSucceed, HistoryOK
    <3> QED BY <2>3, <3>1, <3>2, <3>3, FrameLocal, FrameDecided DEF ExecSucceed, local, PcOK
  <2>4. CASE ExecFail(r, t)
    <3>1. snap[r][t].attempts + 1 \in Nat BY DEF WavesOK, TaskRow
    <3>2. RowsOK' BY ZenonT(60), <2>4, <2>a, <3>1 DEF ExecFail, RowsOK, TaskRow
    <3>3. WavesOK' BY <2>4 DEF ExecFail, Phase, WavesOK
    <3> QED BY <2>4, <3>2, <3>3, FrameLocal, FrameDecided DEF ExecFail, local, PcOK
  <2>5. CASE ExecThrow(r, t)
    <3>1. WavesOK' BY <2>5 DEF ExecThrow, WavesOK
    <3> QED BY <2>5, <3>1, FrameRows, FrameLocal DEF ExecThrow, local
  <2> QED BY <1>4, <2>1, <2>2, <2>3, <2>4, <2>5 DEF Execute
<1> QED BY <1>1, <1>2, <1>3, <1>4

\* Every step keeps the types.
LEMMA TypeNext == TypeInv /\ [Next]_vars => TypeInv'
<1> SUFFICES ASSUME TypeInv, [Next]_vars PROVE TypeInv'
    OBVIOUS
<1>1. ASSUME NEW p \in Procs, Plan(p) PROVE TypeInv'
    BY <1>1, TypeMoves, TypeMissionWrites, TypeTaskWrites, TypeReads DEF Plan
<1>2. ASSUME NEW r \in Runs, Run(r) PROVE TypeInv'
    BY <1>1, <1>2, TypeMoves, TypeMissionWrites, TypeReads, TypeWaves DEF Run, Procs
<1>3. ASSUME NEW c \in Calls, Call(c) PROVE TypeInv'
    BY <1>1, <1>3, TypeMoves, TypeMissionWrites, TypeTaskWrites, TypeReads DEF Call, Procs
<1>4. ASSUME NEW r \in Runs, NEW entry \in {"run", "resume"}, RunBegin(r, entry)
      PROVE  TypeInv'
    BY <1>4, TypeMoves DEF Procs
<1>5. ASSUME NEW c \in Calls, NEW request \in Requests, CallBegin(c, request)
      PROVE  TypeInv'
    BY <1>5, TypeReads DEF Procs
<1>6. CASE UNCHANGED vars
    BY <1>6, FrameRows, FrameLocal, FrameWaves, FrameHistory, FrameDecided
    DEF vars, rows, local, waves, history, TypeInv, TypeOK, PcOK
<1> QED BY <1>2, <1>3, <1>4, <1>5, <1>6 DEF Next

\* Type correctness of the mission engine: statuses stay in the Prisma
\* enumerations and every handler holds values of the expected kind.
THEOREM TypeCorrect == Spec => []TypeOK
<1>1. TypeInv => TypeOK BY DEF TypeInv
<1> QED BY <1>1, TypeInit, TypeNext, PTL DEF Spec
-----------------------------------------------------------------------------
(* Dependencies first.  GraphInv is inductive: what was produced stays       *)
(* produced, so what findRunnable saw is good for as long as a run holds it. *)

\* Initially nothing is completed, chosen or begun.
LEMMA GraphInit == Init => GraphInv /\ Graph!Init
BY DEF Init, GraphInv, DependenciesFirst, Settled, Graph!Init

\* A step that begins, produces and overrides nothing, completes no task that
\* was not settled and chooses no new task is a stuttering step of the graph.
LEMMA GraphFrame ==
    ASSUME GraphInv, UNCHANGED history,
           \A t \in Tasks : task'[t].status = "COMPLETED" =>
                                task[t].status = "COMPLETED" \/ t \in Settled,
           \A r \in Runs, t \in Tasks :
              /\ exec'[r][t] \in {"queued", "slot"} => exec[r][t] \in {"queued", "slot"}
              /\ exec'[r][t] = "working" => exec[r][t] = "working"
    PROVE  GraphInv' /\ UNCHANGED Graph!vars
BY DEF GraphInv, DependenciesFirst, Settled, history, Graph!vars

\* Steps that write neither task rows nor the wave in progress.
LEMMA GraphIdle ==
    ASSUME GraphInv, UNCHANGED history, UNCHANGED task, UNCHANGED exec
    PROVE  GraphInv' /\ UNCHANGED Graph!vars
BY GraphFrame

\* The steps of plan().
LEMMA GraphPlan ==
    ASSUME TypeInv, GraphInv, NEW p \in Procs, Plan(p)
    PROVE  GraphInv' /\ UNCHANGED Graph!vars
<1>1. CASE PlanAssign(p)
  <2>1. UNCHANGED history /\ UNCHANGED exec BY <1>1 DEF PlanAssign, waves
  <2>2. \A t \in Tasks : task'[t].status = task[t].status
      BY <1>1 DEF PlanAssign, TypeInv, TypeOK, RowsOK, TaskRow
  <2> QED BY <2>1, <2>2, GraphFrame
<1>2. CASE ~PlanAssign(p)
    BY <1>2, GraphIdle
    DEF Plan, PlanRead, PlanQueue, PlanMark, PlanFail, PlanCheck, PlanDone, PlanWrite, rows, waves
<1> QED BY <1>1, <1>2

\* The steps of executeTask: starting a task begins it, its success produces it.
LEMMA GraphExecute ==
    ASSUME TypeInv, GraphInv, NEW r \in Runs, NEW t \in Tasks, Execute(r, t)
    PROVE  GraphInv' /\ [Graph!Next]_(Graph!vars)
<1> USE DEF TypeInv, TypeOK, RowsOK, WavesOK, TaskRow
<1>1. CASE ExecUnassigned(r, t)
  <2>1. \A u \in Tasks : task'[u].status = "COMPLETED" => task[u].status = "COMPLETED"
      BY <1>1 DEF ExecUnassigned
  <2>2. \A q \in Runs, u \in Tasks : exec'[q][u] \in {exec[q][u], "none"}
      BY <1>1 DEF ExecUnassigned, Phase
  <2> QED BY <1>1, <2>1, <2>2, GraphFrame DEF ExecUnassigned
<1>2. CASE ExecStart(r, t)
  <2>1. Deps[t] \subseteq Settled BY <1>2 DEF ExecStart, GraphInv
  <2>2. Graph!Begin(t) BY <1>2, <2>1 DEF ExecStart, Graph!Begin, Graph!Settled, Settled
  <2>3. \A u \in Tasks : task'[u].status = "COMPLETED" => task[u].status = "COMPLETED"
      BY <1>2 DEF ExecStart
  <2>4. \A q \in Runs, u \in Tasks :
            exec'[q][u] = exec[q][u] \/ (exec'[q][u] = "working" /\ u = t)
      BY <1>2 DEF ExecStart, Phase
  <2>5. GraphInv'
      BY <1>2, <2>1, <2>3, <2>4 DEF ExecStart, GraphInv, DependenciesFirst, Settled
  <2> QED BY <2>2, <2>5 DEF Graph!Next
<1>3. CASE ExecSucceed(r, t)
  <2>1. Graph!Produce(t) BY <1>3 DEF ExecSucceed, Graph!Produce, GraphInv
  <2>2. \A u \in Tasks : task'[u].status = "COMPLETED" => task[u].status = "COMPLETED" \/ u = t
      BY <1>3 DEF ExecSucceed
  <2>3. \A q \in Runs, u \in Tasks : exec'[q][u] \in {exec[q][u], "none"}
      BY <1>3 DEF ExecSucceed, Phase
  <2>4. GraphInv'
      BY <1>3, <2>2, <2>3 DEF ExecSucceed, GraphInv, DependenciesFirst, Settled
  <2> QED BY <2>1, <2>4 DEF Graph!Next
<1>4. CASE ExecFail(r, t)
  <2>1. \A u \in Tasks : task'[u].status = "COMPLETED" => task[u].status = "COMPLETED"
      BY <1>4 DEF ExecFail
  <2>2. \A q \in Runs, u \in Tasks : exec'[q][u] \in {exec[q][u], "none"}
      BY <1>4 DEF ExecFail, Phase
  <2> QED BY <1>4, <2>1, <2>2, GraphFrame DEF ExecFail
<1>5. CASE ExecThrow(r, t)
  <2>1. \A q \in Runs, u \in Tasks : exec'[q][u] \in {exec[q][u], "none"}
      BY <1>5 DEF ExecThrow
  <2> QED BY <1>5, <2>1, GraphFrame DEF ExecThrow, rows
<1> QED BY <1>1, <1>2, <1>3, <1>4, <1>5 DEF Execute

\* The steps of a run.
LEMMA GraphRun ==
    ASSUME TypeInv, GraphInv, NEW r \in Runs,
           Run(r) \/ \E entry \in {"run", "resume"} : RunBegin(r, entry)
    PROVE  GraphInv' /\ [Graph!Next]_(Graph!vars)
<1>1. CASE Select(r)
  <2>1. CASE UNCHANGED waves BY <1>1, <2>1, GraphIdle DEF Select, rows, waves
  <2>2. CASE exec' = [exec EXCEPT ![r] =
                        [t \in Tasks |-> IF t \in Runnable THEN "queued" ELSE "none"]]
    <3>1. \A t \in Runnable : Deps[t] \subseteq Settled
        BY DEF Runnable, WithStatus, GraphInv, TypeInv, TypeOK, RowsOK
    <3>2. \A q \in Runs, t \in Tasks :
              \/ exec'[q][t] = exec[q][t] \/ exec'[q][t] = "none"
              \/ exec'[q][t] = "queued" /\ t \in Runnable
        BY <2>2 DEF TypeInv, TypeOK, WavesOK
    <3>3. UNCHANGED <<task, begun, produced, overridden>> BY <1>1 DEF Select, rows, history
    <3> QED BY <3>1, <3>2, <3>3 DEF GraphInv, DependenciesFirst, Settled, Graph!vars
  <2> QED BY <1>1, <2>1, <2>2 DEF Select
<1>2. CASE Slice(r)
  <2>1. \A q \in Runs, t \in Tasks :
            \/ exec'[q][t] = exec[q][t]
            \/ exec'[q][t] = "slot" /\ exec[q][t] = "queued"
      BY <1>2 DEF Slice, InPhase, TypeInv, TypeOK, WavesOK
  <2> QED BY <1>2, <2>1, GraphFrame DEF Slice, rows
<1>3. ASSUME NEW t \in Tasks, Execute(r, t) PROVE GraphInv' /\ [Graph!Next]_(Graph!vars)
    BY <1>3, GraphExecute
<1>4. CASE Plan(r) BY <1>4, GraphPlan DEF Procs
<1>5. CASE \/ RunRead(r) \/ RunQueue(r) \/ Activate(r) \/ Loop(r) \/ WaveDone(r)
           \/ ReconcileRead(r) \/ ReconcileDecide(r) \/ ReconcileBlocked(r)
           \/ ReconcileWrite(r) \/ Totals(r)
           \/ MissionGone(r) \/ \E entry \in {"run", "resume"} : RunBegin(r, entry)
    BY <1>5, GraphIdle
    DEF RunRead, RunQueue, Activate, PlanWrite, Loop, WaveDone, ReconcileRead, ReconcileDecide,
        ReconcileBlocked, ReconcileWrite, Totals, MissionGone, RunBegin, rows, waves
<1> QED BY <1>1, <1>2, <1>3, <1>4, <1>5 DEF Run

\* The steps of a request: only an operator's edit reaches the graph.
LEMMA GraphCall ==
    ASSUME TypeInv, GraphInv, NEW c \in Calls,
           Call(c) \/ \E request \in Requests : CallBegin(c, request)
    PROVE  GraphInv' /\ [Graph!Next]_(Graph!vars)
<1> USE DEF TypeInv, TypeOK
<1>1. CASE UpdateWrite(c)
  <2>1. PICK t \in held[c], s \in Overrides :
            /\ task' = [task EXCEPT ![t].status = s,
                                    ![t].attempts = IF s = "FAILED" THEN count[c] + 1 ELSE @]
            /\ overridden' = IF s = "COMPLETED" THEN overridden \union {t} ELSE overridden
      BY <1>1 DEF UpdateWrite
  <2>2. t \in Tasks BY DEF LocalOK, Procs
  <2>3. UNCHANGED <<exec, begun, produced>> BY <1>1 DEF UpdateWrite, waves
  <2>4. \A u \in Tasks : task'[u].status = "COMPLETED" =>
            task[u].status = "COMPLETED" \/ (u = t /\ s = "COMPLETED")
      BY <2>1, <2>2 DEF RowsOK, TaskRow
  <2>5. CASE s = "COMPLETED"
    <3>1. Graph!Override(t) BY <2>1, <2>3, <2>5 DEF Graph!Override
    <3>2. GraphInv' BY <2>1, <2>3, <2>4, <2>5 DEF GraphInv, DependenciesFirst, Settled
    <3> QED BY <2>2, <3>1, <3>2 DEF Graph!Next
  <2>6. CASE s # "COMPLETED"
      BY <2>1, <2>3, <2>4, <2>6, GraphFrame DEF history
  <2> QED BY <2>5, <2>6
<1>2. CASE Skip(c) \/ Reset(c)
  <2>1. \/ UNCHANGED task
        \/ \E t \in held[c] : \/ task' = [task EXCEPT ![t].status = "SKIPPED"]
                             \/ task' = [task EXCEPT ![t].status = "PENDING", ![t].attempts = 0]
      BY <1>2 DEF Skip, Reset
  <2>2. \A t \in Tasks : task'[t].status = "COMPLETED" => task[t].status = "COMPLETED"
    <3>1. CASE UNCHANGED task BY <3>1
    <3>2. ASSUME NEW t \in held[c], task' = [task EXCEPT ![t].status = "SKIPPED"]
          PROVE  \A u \in Tasks : task'[u].status = "COMPLETED" => task[u].status = "COMPLETED"
        BY <3>2 DEF RowsOK, TaskRow
    <3>3. ASSUME NEW t \in held[c],
                 task' = [task EXCEPT ![t].status = "PENDING", ![t].attempts = 0]
          PROVE  \A u \in Tasks : task'[u].status = "COMPLETED" => task[u].status = "COMPLETED"
        BY <3>3 DEF RowsOK, TaskRow
    <3> QED BY <2>1, <3>1, <3>2, <3>3
  <2> QED BY <1>2, <2>2, GraphFrame DEF Skip, Reset, waves
<1>3. CASE Plan(c) BY <1>3, GraphPlan DEF Procs
<1>4. CASE \/ ControlRead(c) \/ ControlWrite(c) \/ SkipRead(c) \/ RetryRead(c) \/ ResetRead(c)
           \/ RetryWrite(c) \/ RemoveRead(c) \/ RemoveWrite(c) \/ AddTask(c) \/ UpdateRead(c)
           \/ RecalcTasks(c) \/ RecalcMission(c) \/ RecalcWrite(c) \/ MissionGone(c)
           \/ \E request \in Requests : CallBegin(c, request)
    BY <1>4, GraphIdle
    DEF ControlRead, ControlWrite, SkipRead, RetryRead, ResetRead, RetryWrite, RemoveRead,
        RemoveWrite, AddTask, UpdateRead, RecalcTasks, RecalcMission, RecalcWrite, MissionGone,
        CallBegin, rows, waves
<1> QED BY <1>1, <1>2, <1>3, <1>4 DEF Call

\* Every step of a mission is a step of its task graph, or none.
LEMMA GraphNext ==
    TypeInv /\ GraphInv /\ [Next]_vars => GraphInv' /\ [Graph!Next]_(Graph!vars)
<1> SUFFICES ASSUME TypeInv, GraphInv, [Next]_vars
             PROVE  GraphInv' /\ [Graph!Next]_(Graph!vars)
    OBVIOUS
<1>1. CASE UNCHANGED vars BY <1>1, GraphIdle DEF vars, history
<1> QED BY <1>1, GraphRun, GraphCall DEF Next

\* However many orchestrators walk the graph and whatever requests race them,
\* no task begins before everything it depends on has produced a result or was
\* declared complete by an operator (findRunnable, executeTask).
THEOREM DependenciesAlwaysFirst == Spec => []DependenciesFirst
<1>1. GraphInv => DependenciesFirst BY DEF GraphInv
<1> QED BY <1>1, TypeInit, TypeNext, GraphInit, GraphNext, PTL DEF Spec

\* The mission engine implements the abstract execution of a task graph.
THEOREM MissionImplementsTaskGraph == Spec => ImplementsTaskGraph
<1> QED BY TypeInit, TypeNext, GraphInit, GraphNext, PTL
        DEF Spec, ImplementsTaskGraph, Graph!Spec

\* The inductive invariant itself, which the runs check: a COMPLETED task was
\* produced or declared so, and what an orchestrator chose stays ready.
THEOREM GraphInvAlways == Spec => []GraphInv
BY TypeInit, TypeNext, GraphInit, GraphNext, PTL DEF Spec
-----------------------------------------------------------------------------
(* The retries of a mission.  What retry() read below the limit is what it   *)
(* adds one to, two writes later.                                            *)

Retrying == {"resetRead", "reset", "retryWrite"}
RetryInv ==
    /\ RetriesBounded
    /\ \A c \in Calls : pc[c] \in Retrying => count[c] < MissionMaxRetries

\* A step of one handler that neither writes retryCount nor begins a retry.
LEMMA RetryFrame ==
    ASSUME RetryInv, NEW p, mission'.retryCount = mission.retryCount,
           \A c \in Calls \ {p} : pc'[c] = pc[c] /\ count'[c] = count[c],
           p \in Calls => \/ pc'[p] \notin Retrying
                          \/ pc[p] \in Retrying /\ count'[p] = count[p]
    PROVE  RetryInv'
BY DEF RetryInv, RetriesBounded

\* A status that is written leaves the number of retries.
LEMMA StatusOnly == ASSUME RowsOK, NEW s, SetStatus(s) PROVE mission'.retryCount = mission.retryCount
BY DEF RowsOK, SetStatus

\* The steps of plan().
LEMMA RetryPlan == ASSUME TypeInv, RetryInv, NEW p \in Procs, Plan(p) PROVE RetryInv'
<1> USE DEF TypeInv, TypeOK
<1>1. mission'.retryCount = mission.retryCount
    BY StatusOnly DEF Plan, PlanRead, PlanQueue, PlanMark, PlanFail, PlanWrite, PlanCheck, PlanAssign, PlanDone, rows
<1>2. \A c \in Calls : count'[c] = count[c]
    BY DEF Plan, PlanRead, PlanQueue, PlanMark, PlanFail, PlanWrite, PlanCheck, PlanAssign, PlanDone, local
<1>3. \A c \in Calls \ {p} : pc'[c] = pc[c]
    BY DEF Plan, PlanRead, PlanQueue, PlanMark, PlanFail, PlanWrite, PlanCheck, PlanAssign, PlanDone,
           Goto, PcOK, Procs
<1>4. pc'[p] \notin Retrying
    BY DEF Plan, PlanRead, PlanQueue, PlanMark, PlanFail, PlanWrite, PlanCheck, PlanAssign, PlanDone,
           Goto, PcOK, Procs, Retrying
<1> QED BY <1>1, <1>2, <1>3, <1>4, RetryFrame

\* The steps of a run leave the requests alone, and the number of retries.
LEMMA RunKeepsCalls ==
    ASSUME TypeInv, NEW r \in Runs, Run(r) \/ \E entry \in {"run", "resume"} : RunBegin(r, entry)
    PROVE  /\ \A c \in Calls : pc'[c] = pc[c] /\ op'[c] = op[c] /\ count'[c] = count[c]
           /\ mission'.retryCount = mission.retryCount
<1> USE DEF TypeInv, TypeOK, Procs, Goto, PcOK, LocalOK
<1>1. r \notin Calls BY MissionAssumption
<1>2. CASE Plan(r)
  <2>1. UNCHANGED <<op, count>> /\ \A c \in Calls : pc'[c] = pc[c]
      BY <1>1, <1>2
      DEF Plan, PlanRead, PlanQueue, PlanMark, PlanFail, PlanWrite, PlanCheck, PlanAssign, PlanDone, local
  <2>2. mission'.retryCount = mission.retryCount
      BY <1>2, StatusOnly
      DEF Plan, PlanRead, PlanQueue, PlanMark, PlanFail, PlanWrite, PlanCheck, PlanAssign, PlanDone, rows
  <2> QED BY <2>1, <2>2
<1>3. ASSUME NEW t \in Tasks, Execute(r, t)
      PROVE  UNCHANGED <<mission, op, count>> /\ \A c \in Calls : pc'[c] = pc[c]
    BY <1>1, <1>3 DEF Execute, ExecUnassigned, ExecStart, ExecSucceed, ExecFail, ExecThrow, rows, local
<1>4. CASE \/ RunRead(r) \/ RunQueue(r) \/ Activate(r) \/ Loop(r) \/ Select(r) \/ Slice(r) \/ WaveDone(r)
           \/ ReconcileRead(r) \/ ReconcileDecide(r) \/ ReconcileBlocked(r)
           \/ ReconcileWrite(r) \/ Totals(r) \/ MissionGone(r)
           \/ \E entry \in {"run", "resume"} : RunBegin(r, entry)
  <2>1. mission'.retryCount = mission.retryCount
      BY <1>4, StatusOnly
      DEF RunRead, RunQueue, Activate, PlanWrite, Loop, Select, Slice, WaveDone, ReconcileRead,
          ReconcileDecide, ReconcileBlocked, ReconcileWrite, Totals, MissionGone, RunBegin, rows
  <2>2. \A c \in Calls : pc'[c] = pc[c]
      BY <1>1, <1>4
      DEF RunRead, RunQueue, Activate, PlanWrite, Loop, Select, Slice, WaveDone, ReconcileRead,
          ReconcileDecide, ReconcileBlocked, ReconcileWrite, Totals, MissionGone, RunBegin
  <2>3. \A c \in Calls : op'[c] = op[c]
      BY <1>1, <1>4
      DEF RunRead, RunQueue, Activate, PlanWrite, Loop, Select, Slice, WaveDone, ReconcileRead,
          ReconcileDecide, ReconcileBlocked, ReconcileWrite, Totals, MissionGone, RunBegin, local
  <2>4. \A c \in Calls : count'[c] = count[c]
      BY <1>1, <1>4
      DEF RunRead, RunQueue, Activate, PlanWrite, Loop, Select, Slice, WaveDone, ReconcileRead,
          ReconcileDecide, ReconcileBlocked, ReconcileWrite, Totals, MissionGone, RunBegin, local
  <2> QED BY <2>1, <2>2, <2>3, <2>4
<1> QED BY <1>2, <1>3, <1>4 DEF Run

\* retry() itself: it reads a figure below the limit, and writes it plus one.
LEMMA RetryItself ==
    ASSUME TypeInv, RetryInv, NEW c \in Calls,
           RetryRead(c) \/ ResetRead(c) \/ Reset(c) \/ RetryWrite(c)
    PROVE  RetryInv'
<1> USE DEF TypeInv, TypeOK, Procs, Retrying
<1>1. mission.retryCount \in Nat /\ count[c] \in Nat BY DEF RowsOK, LocalOK
<1>2. CASE RetryRead(c)
  <2>1. CASE Goto(c, "thrown") /\ UNCHANGED count
    <3>1. UNCHANGED mission BY <1>2 DEF RetryRead, rows
    <3> QED BY <2>1, <3>1, RetryFrame DEF Goto, PcOK
  <2>2. CASE RetryAllowed /\ count' = [count EXCEPT ![c] = mission.retryCount] /\ Goto(c, "resetRead")
    <3>1. count'[c] = mission.retryCount /\ count'[c] < MissionMaxRetries
        BY <2>2 DEF RetryAllowed, LocalOK
    <3>2. \A d \in Calls \ {c} : pc'[d] = pc[d] /\ count'[d] = count[d]
        BY <2>2 DEF Goto, PcOK, LocalOK
    <3>3. UNCHANGED mission BY <1>2 DEF RetryRead, rows
    <3> QED BY <3>1, <3>2, <3>3 DEF RetryInv, RetriesBounded
  <2> QED BY <1>2, <2>1, <2>2 DEF RetryRead
<1>3. CASE ResetRead(c) \/ Reset(c)
  <2>1. UNCHANGED <<mission, count>> BY <1>3 DEF ResetRead, Reset, rows
  <2>2. pc[c] \in Retrying /\ \A d \in Calls \ {c} : pc'[d] = pc[d]
      BY <1>3 DEF ResetRead, Reset, Goto, PcOK
  <2> QED BY <2>1, <2>2, RetryFrame
<1>4. CASE RetryWrite(c)
  <2>1. count[c] < MissionMaxRetries BY <1>4 DEF RetryWrite, RetryInv
  <2>2. mission'.retryCount = count[c] + 1 BY <1>4 DEF RetryWrite, RowsOK
  <2>3. mission'.retryCount <= MissionMaxRetries BY <1>1, <2>1, <2>2, MissionAssumption
  <2>4. pc'[c] = "done" /\ \A d \in Calls \ {c} : pc'[d] = pc[d] BY <1>4 DEF RetryWrite, Goto, PcOK
  <2>5. UNCHANGED count BY <1>4 DEF RetryWrite, local
  <2> QED BY <2>3, <2>4, <2>5 DEF RetryInv, RetriesBounded
<1> QED BY <1>2, <1>3, <1>4

\* The other requests.
LEMMA RetryOthers ==
    ASSUME TypeInv, RetryInv, NEW c \in Calls,
           \/ ControlRead(c) \/ ControlWrite(c) \/ SkipRead(c) \/ Skip(c)
           \/ RemoveRead(c) \/ RemoveWrite(c) \/ AddTask(c) \/ UpdateRead(c) \/ UpdateWrite(c)
           \/ RecalcTasks(c) \/ RecalcMission(c) \/ RecalcWrite(c) \/ MissionGone(c)
           \/ \E request \in Requests : CallBegin(c, request)
    PROVE  RetryInv'
<1> USE DEF TypeInv, TypeOK, Procs
<1>1. mission'.retryCount = mission.retryCount
    BY StatusOnly
    DEF ControlRead, ControlWrite, SkipRead, Skip, RemoveRead, RemoveWrite, AddTask, UpdateRead, UpdateWrite,
        RecalcTasks, RecalcMission, RecalcWrite, MissionGone, CallBegin, rows, RowsOK
<1>2. \A d \in Calls \ {c} : pc'[d] = pc[d]
    BY DEF ControlRead, ControlWrite, SkipRead, Skip, RemoveRead, RemoveWrite, AddTask, UpdateRead, UpdateWrite,
        RecalcTasks, RecalcMission, RecalcWrite, MissionGone, CallBegin, Goto, PcOK
<1>3. \A d \in Calls \ {c} : count'[d] = count[d]
    BY DEF ControlRead, ControlWrite, SkipRead, Skip, RemoveRead, RemoveWrite, AddTask, UpdateRead, UpdateWrite,
        RecalcTasks, RecalcMission, RecalcWrite, MissionGone, CallBegin, local, LocalOK
<1>4. pc'[c] \notin Retrying
    BY DEF ControlRead, ControlWrite, SkipRead, Skip, RemoveRead, RemoveWrite, AddTask, UpdateRead, UpdateWrite,
        RecalcTasks, RecalcMission, RecalcWrite, MissionGone, CallBegin, Goto, PcOK, Retrying
<1>5. \A d \in Calls \ {c} : pc'[d] = pc[d] /\ count'[d] = count[d] BY <1>2, <1>3
<1> QED BY <1>1, <1>4, <1>5 DEF RetryInv, RetriesBounded

LEMMA RetryNext == TypeInv /\ RetryInv /\ [Next]_vars => RetryInv'
<1> SUFFICES ASSUME TypeInv, RetryInv, [Next]_vars PROVE RetryInv' OBVIOUS
<1>1. CASE UNCHANGED vars BY <1>1 DEF vars, RetryInv, RetriesBounded
<1>2. ASSUME NEW r \in Runs, Run(r) \/ \E entry \in {"run", "resume"} : RunBegin(r, entry) PROVE RetryInv'
  <2>1. r \notin Calls BY MissionAssumption
  <2> QED BY <1>2, <2>1, RunKeepsCalls, RetryFrame
<1>3. ASSUME NEW c \in Calls, Call(c) \/ \E request \in Requests : CallBegin(c, request) PROVE RetryInv'
    BY <1>3, RetryPlan, RetryItself, RetryOthers DEF Call, Procs
<1> QED BY <1>1, <1>2, <1>3 DEF Next

\* A mission is retried no more often than its maxRetries allows, however many
\* retry requests, runs and other requests race: each writes the figure it read
\* plus one (MissionsService.retry).
THEOREM RetriesAlwaysBounded == Spec => []RetriesBounded
<1>1. ASSUME Init PROVE RetryInv
  <2>1. \A c \in Calls : pc[c] = "idle" BY <1>1 DEF Init, Procs
  <2>2. mission.retryCount = 0 BY <1>1 DEF Init
  <2> QED BY <2>1, <2>2, MissionAssumption DEF RetryInv, RetriesBounded, Retrying
<1>2. RetryInv => RetriesBounded BY DEF RetryInv
<1> QED BY <1>1, <1>2, TypeInit, TypeNext, RetryNext, PTL DEF Spec
-----------------------------------------------------------------------------
(* The attempts of a task.  What a wave was chosen from was PENDING then, so  *)
(* it had a retry left, whatever was written to the row since.                *)

NoOperatorEdits == "updateTask" \notin Requests

NoEdit == \A c \in Calls : op[c] # "updateTask" /\ pc[c] # "update"
ChosenHasRetry ==
    \A r \in Runs, t \in Tasks : exec[r][t] # "none" => snap[r][t].attempts <= TaskMaxRetries
AttemptsInv == NoEdit /\ ChosenHasRetry /\ AttemptsBounded

\* No request edits a task, and none is about to.
LEMMA NoEditNext == NoOperatorEdits /\ TypeInv /\ NoEdit /\ [Next]_vars => NoEdit'
<1> SUFFICES ASSUME NoOperatorEdits, TypeInv, NoEdit, [Next]_vars PROVE NoEdit' OBVIOUS
<1> USE DEF TypeInv, TypeOK, Procs, Goto, PcOK, LocalOK
<1>1. CASE UNCHANGED vars BY <1>1 DEF vars, NoEdit
<1>2. ASSUME NEW r \in Runs, Run(r) \/ \E entry \in {"run", "resume"} : RunBegin(r, entry) PROVE NoEdit'
    BY <1>2, RunKeepsCalls DEF NoEdit
<1>3. ASSUME NEW c \in Calls, NEW request \in Requests, CallBegin(c, request) PROVE NoEdit'
  <2>1. op'[c] = request /\ pc'[c] # "update" BY <1>3 DEF CallBegin
  <2>2. \A d \in Calls \ {c} : op'[d] = op[d] /\ pc'[d] = pc[d] BY <1>3 DEF CallBegin
  <2>3. request # "updateTask" BY DEF NoOperatorEdits
  <2> QED BY <2>1, <2>2, <2>3 DEF NoEdit
<1>4. ASSUME NEW c \in Calls, Call(c) PROVE NoEdit'
  <2>1. ~UpdateRead(c) /\ ~UpdateWrite(c) BY DEF NoEdit, UpdateRead, UpdateWrite
  <2>2. UNCHANGED op
      BY <1>4, <2>1
      DEF Call, Plan, PlanRead, PlanQueue, PlanMark, PlanFail, PlanWrite, PlanCheck, PlanAssign, PlanDone,
          ControlRead, ControlWrite, SkipRead, Skip, RetryRead, ResetRead, Reset, RetryWrite, RemoveRead,
          RemoveWrite, AddTask, RecalcTasks, RecalcMission, RecalcWrite, MissionGone, local
  <2>3. \A d \in Calls \ {c} : pc'[d] = pc[d]
      BY <1>4, <2>1
      DEF Call, Plan, PlanRead, PlanQueue, PlanMark, PlanFail, PlanWrite, PlanCheck, PlanAssign, PlanDone,
          ControlRead, ControlWrite, SkipRead, Skip, RetryRead, ResetRead, Reset, RetryWrite, RemoveRead,
          RemoveWrite, AddTask, RecalcTasks, RecalcMission, RecalcWrite, MissionGone
  <2>4. pc'[c] # "update"
      BY <1>4, <2>1
      DEF NoEdit, Call, Plan, PlanRead, PlanQueue, PlanMark, PlanFail, PlanWrite, PlanCheck, PlanAssign, PlanDone,
          ControlRead, ControlWrite, SkipRead, Skip, RetryRead, ResetRead, Reset, RetryWrite, RemoveRead,
          RemoveWrite, AddTask, RecalcTasks, RecalcMission, RecalcWrite, MissionGone
  <2> QED BY <2>2, <2>3, <2>4 DEF NoEdit
<1> QED BY <1>1, <1>2, <1>3, <1>4 DEF Next

\* A step that chooses no task, adds no attempt and reopens no task.
LEMMA AttemptsFrame ==
    ASSUME ChosenHasRetry, AttemptsBounded, UNCHANGED snap,
           \A r \in Runs, t \in Tasks : exec'[r][t] # "none" => exec[r][t] # "none",
           \A t \in Tasks : /\ task'[t].attempts = task[t].attempts
                            /\ task'[t].status = "PENDING" => task[t].status = "PENDING"
    PROVE  ChosenHasRetry' /\ AttemptsBounded'
BY DEF ChosenHasRetry, AttemptsBounded

\* executeTask() counts from the row its wave was chosen from.
LEMMA AttemptsExecute ==
    ASSUME TypeInv, ChosenHasRetry, AttemptsBounded, NEW r \in Runs, NEW t \in Tasks, Execute(r, t)
    PROVE  ChosenHasRetry' /\ AttemptsBounded'
<1> USE DEF TypeInv, TypeOK, RowsOK, WavesOK, TaskRow
<1>1. CASE ExecUnassigned(r, t) \/ ExecStart(r, t) \/ ExecSucceed(r, t) \/ ExecThrow(r, t)
  <2>1. \A q \in Runs, u \in Tasks : exec'[q][u] # "none" => exec[q][u] # "none"
    <3>1. CASE ExecThrow(r, t) BY <3>1 DEF ExecThrow
    <3>2. CASE ExecUnassigned(r, t) \/ ExecSucceed(r, t) \/ ExecStart(r, t)
      <4>1. exec[r][t] # "none" BY <3>2 DEF ExecUnassigned, ExecSucceed, ExecStart
      <4>2. PICK w : exec' = [exec EXCEPT ![r][t] = w]
          BY <3>2 DEF ExecUnassigned, ExecSucceed, ExecStart, Phase
      <4>3. \A q \in Runs, u \in Tasks : exec'[q][u] = exec[q][u] \/ (q = r /\ u = t) BY <4>2
      <4> QED BY <4>1, <4>3
    <3> QED BY <1>1, <3>1, <3>2
  <2>2. \A u \in Tasks : /\ task'[u].attempts = task[u].attempts
                         /\ task'[u].status = "PENDING" => task[u].status = "PENDING"
    <3>1. CASE ExecThrow(r, t) BY <3>1 DEF ExecThrow, rows
    <3>2. ASSUME NEW s \in {"FAILED", "RUNNING", "COMPLETED"}, task' = [task EXCEPT ![t].status = s]
          PROVE  \A u \in Tasks : /\ task'[u].attempts = task[u].attempts
                                  /\ task'[u].status = "PENDING" => task[u].status = "PENDING"
        BY <3>2
    <3>3. \/ ExecThrow(r, t)
          \/ \E s \in {"FAILED", "RUNNING", "COMPLETED"} : task' = [task EXCEPT ![t].status = s]
        BY <1>1 DEF ExecUnassigned, ExecStart, ExecSucceed
    <3> QED BY <3>1, <3>2, <3>3
  <2>3. UNCHANGED snap BY <1>1 DEF ExecUnassigned, ExecStart, ExecSucceed, ExecThrow
  <2> QED BY <2>1, <2>2, <2>3, AttemptsFrame
<1>2. CASE ExecFail(r, t)
  <2>1. PICK n : n = snap[r][t].attempts + 1 OBVIOUS
  <2>2. snap[r][t].attempts \in Nat /\ snap[r][t].attempts <= TaskMaxRetries
      BY <1>2 DEF ExecFail, ChosenHasRetry
  <2>3. n <= TaskMaxRetries + 1 BY <2>1, <2>2, MissionAssumption
  <2>4. PICK s : s = IF CanRetry(n) THEN "PENDING" ELSE "FAILED" OBVIOUS
  <2>5. task' = [task EXCEPT ![t].status = s, ![t].attempts = n] BY <1>2, <2>1, <2>4 DEF ExecFail
  <2>6. task'[t].status = s /\ task'[t].attempts = n /\ \A u \in Tasks \ {t} : task'[u] = task[u]
      BY <2>5
  <2>7. s = "PENDING" => n <= TaskMaxRetries BY <2>4 DEF CanRetry
  <2>8. AttemptsBounded' BY <2>3, <2>6, <2>7 DEF AttemptsBounded
  <2>9. ChosenHasRetry' BY <1>2 DEF ExecFail, Phase, ChosenHasRetry
  <2> QED BY <2>8, <2>9
<1> QED BY <1>1, <1>2 DEF Execute

\* A wave is chosen from PENDING rows.
LEMMA AttemptsSelect ==
    ASSUME TypeInv, ChosenHasRetry, AttemptsBounded, NEW r \in Runs, Select(r)
    PROVE  ChosenHasRetry' /\ AttemptsBounded'
<1> USE DEF TypeInv, TypeOK, RowsOK, WavesOK
<1>1. UNCHANGED task BY DEF Select, rows
<1>2. CASE UNCHANGED waves BY <1>1, <1>2, AttemptsFrame DEF waves
<1>3. CASE /\ exec' = [exec EXCEPT ![r] = [t \in Tasks |-> IF t \in Runnable THEN "queued" ELSE "none"]]
           /\ snap' = [snap EXCEPT ![r] = task]
  <2>1. \A t \in Runnable : t \in Tasks /\ task[t].status = "PENDING" BY DEF Runnable, WithStatus
  <2>2. \A t \in Runnable : task[t].attempts <= TaskMaxRetries BY <2>1 DEF AttemptsBounded
  <2>3. \A q \in Runs, t \in Tasks :
            IF q = r THEN (exec'[q][t] # "none" => t \in Runnable) /\ snap'[q][t] = task[t]
                     ELSE exec'[q][t] = exec[q][t] /\ snap'[q][t] = snap[q][t]
      BY <1>3
  <2>4. ChosenHasRetry' BY <2>2, <2>3 DEF ChosenHasRetry
  <2> QED BY <1>1, <2>4 DEF AttemptsBounded
<1> QED BY <1>2, <1>3 DEF Select

\* The steps of plan() set the assignment only.
LEMMA AttemptsPlan ==
    ASSUME TypeInv, ChosenHasRetry, AttemptsBounded, NEW p \in Procs, Plan(p)
    PROVE  ChosenHasRetry' /\ AttemptsBounded'
<1>1. UNCHANGED <<exec, snap>>
    BY DEF Plan, PlanRead, PlanQueue, PlanMark, PlanFail, PlanWrite, PlanCheck, PlanAssign, PlanDone, waves
<1>2. \A t \in Tasks : task'[t].attempts = task[t].attempts /\ task'[t].status = task[t].status
    BY DEF Plan, PlanRead, PlanQueue, PlanMark, PlanFail, PlanWrite, PlanCheck, PlanAssign, PlanDone, rows,
           TypeInv, TypeOK, RowsOK, TaskRow
<1> QED BY <1>1, <1>2, AttemptsFrame

LEMMA AttemptsNext == TypeInv /\ AttemptsInv /\ [Next]_vars => ChosenHasRetry' /\ AttemptsBounded'
<1> SUFFICES ASSUME TypeInv, NoEdit, ChosenHasRetry, AttemptsBounded, [Next]_vars
             PROVE  ChosenHasRetry' /\ AttemptsBounded'
    BY DEF AttemptsInv
<1>1. ASSUME UNCHANGED <<task, exec, snap>> PROVE ChosenHasRetry' /\ AttemptsBounded'
    BY <1>1, AttemptsFrame
<1>2. CASE UNCHANGED vars BY <1>1, <1>2 DEF vars
<1>3. ASSUME NEW r \in Runs, Run(r) \/ \E entry \in {"run", "resume"} : RunBegin(r, entry)
      PROVE  ChosenHasRetry' /\ AttemptsBounded'
  <2>1. CASE Slice(r)
    <3>1. UNCHANGED <<task, snap>> BY <2>1 DEF Slice, rows
    <3>2. \A q \in Runs, t \in Tasks : exec'[q][t] # "none" => exec[q][t] # "none"
        BY <2>1 DEF Slice, InPhase, TypeInv, TypeOK, WavesOK
    <3> QED BY <3>1, <3>2, AttemptsFrame
  <2>2. CASE \/ RunRead(r) \/ RunQueue(r) \/ Activate(r) \/ Loop(r) \/ WaveDone(r)
             \/ ReconcileRead(r) \/ ReconcileDecide(r) \/ ReconcileBlocked(r)
             \/ ReconcileWrite(r) \/ Totals(r)
             \/ MissionGone(r) \/ \E entry \in {"run", "resume"} : RunBegin(r, entry)
    <3>1. UNCHANGED <<task, exec, snap>>
        BY <2>2
        DEF RunRead, RunQueue, Activate, PlanWrite, Loop, WaveDone, ReconcileRead, ReconcileDecide,
            ReconcileBlocked, ReconcileWrite, Totals, MissionGone, RunBegin, rows, waves
    <3> QED BY <1>1, <3>1
  <2>3. CASE Plan(r) BY <2>3, AttemptsPlan DEF Procs
  <2> QED BY <1>3, <2>1, <2>2, <2>3, AttemptsSelect, AttemptsExecute DEF Run
<1>4. ASSUME NEW c \in Calls, Skip(c) \/ Reset(c) PROVE ChosenHasRetry' /\ AttemptsBounded'
  <2>1. UNCHANGED <<exec, snap>> BY <1>4 DEF Skip, Reset, waves
  <2>2. CASE UNCHANGED task BY <1>1, <2>1, <2>2
  <2>3. ASSUME NEW t \in held[c], task' = [task EXCEPT ![t].status = "SKIPPED"]
        PROVE  ChosenHasRetry' /\ AttemptsBounded'
      BY <2>1, <2>3, AttemptsFrame DEF TypeInv, TypeOK, RowsOK, TaskRow
  <2>4. ASSUME NEW t \in held[c], task' = [task EXCEPT ![t].status = "PENDING", ![t].attempts = 0]
        PROVE  ChosenHasRetry' /\ AttemptsBounded'
    <3>1. t \in Tasks BY DEF TypeInv, TypeOK, LocalOK, Procs
    <3>2. task'[t].attempts = 0 /\ \A u \in Tasks \ {t} : task'[u] = task[u]
        BY <2>4, <3>1 DEF TypeInv, TypeOK, RowsOK, TaskRow
    <3>3. AttemptsBounded' BY <3>2, MissionAssumption DEF AttemptsBounded
    <3> QED BY <2>1, <3>3 DEF ChosenHasRetry
  <2> QED BY <1>4, <2>2, <2>3, <2>4 DEF Skip, Reset
<1>5. ASSUME NEW c \in Calls, Call(c) \/ \E request \in Requests : CallBegin(c, request)
      PROVE  ChosenHasRetry' /\ AttemptsBounded'
  <2>1. CASE Plan(c) BY <2>1, AttemptsPlan DEF Procs
  <2>2. CASE \/ ControlRead(c) \/ ControlWrite(c) \/ SkipRead(c) \/ RetryRead(c) \/ ResetRead(c)
             \/ RetryWrite(c) \/ RemoveRead(c) \/ RemoveWrite(c) \/ AddTask(c) \/ UpdateRead(c)
             \/ RecalcTasks(c) \/ RecalcMission(c) \/ RecalcWrite(c) \/ MissionGone(c)
             \/ \E request \in Requests : CallBegin(c, request)
    <3>1. UNCHANGED <<task, exec, snap>>
        BY <2>2
        DEF ControlRead, ControlWrite, SkipRead, RetryRead, ResetRead, RetryWrite, RemoveRead,
            RemoveWrite, AddTask, UpdateRead, RecalcTasks, RecalcMission, RecalcWrite, MissionGone,
            CallBegin, rows, waves
    <3> QED BY <1>1, <3>1
  <2>3. ~UpdateWrite(c) BY DEF NoEdit, UpdateWrite
  <2> QED BY <1>4, <1>5, <2>1, <2>2, <2>3 DEF Call
<1> QED BY <1>2, <1>3, <1>5 DEF Next

LEMMA AttemptsInit == Init => AttemptsInv
<1> SUFFICES ASSUME Init PROVE AttemptsInv OBVIOUS
<1>1. \A c \in Calls : pc[c] = "idle" /\ op[c] = "none" BY DEF Init, Procs
<1>2. \A t \in Tasks : task[t].attempts = 0 BY DEF Init
<1>3. \A r \in Runs, t \in Tasks : exec[r][t] = "none" BY DEF Init
<1> QED BY <1>1, <1>2, <1>3, MissionAssumption DEF AttemptsInv, NoEdit, ChosenHasRetry, AttemptsBounded

\* Where operators edit no task: a task is attempted at most maxRetries + 1 times
\* per mission retry, however many orchestrators hold the same row (executeTask
\* counts from the row its wave was chosen from).
THEOREM MissionAttemptsBounded == NoOperatorEdits /\ Spec => []AttemptsBounded
<1>1. NoOperatorEdits /\ TypeInv /\ AttemptsInv /\ [Next]_vars => NoOperatorEdits' /\ AttemptsInv'
    BY NoEditNext, AttemptsNext DEF AttemptsInv, NoOperatorEdits
<1>2. AttemptsInv => AttemptsBounded BY DEF AttemptsInv
<1> QED BY <1>1, <1>2, TypeInit, TypeNext, AttemptsInit, PTL DEF Spec
-----------------------------------------------------------------------------
(* With one orchestrator.  What a request does follows from what it asks, so  *)
(* where nobody adds, edits or retries, only the orchestrator's wave changes  *)
(* a task's status otherwise than to SKIPPED; and outside a wave it has no     *)
(* task in hand.                                                              *)

OneRunner == \A r, s \in Runs : r = s

CallsInPlace ==
    \A c \in Calls :
        /\ pc[c] = "idle" => op[c] = "none"
        /\ pc[c] \in {"update", "recalcTasks", "recalcMission", "recalcWrite"} => op[c] = "updateTask"
        /\ pc[c] \in {"resetRead", "reset", "retryWrite"} => op[c] = "retry"

Resting(r) == \A t \in Tasks : exec[r][t] = "none"
RestsOutsideWave == \A r \in Runs : pc[r] \notin {"wave", "thrown"} => Resting(r)

\* A request leaves the runs where they are.
LEMMA CallKeepsRuns ==
    ASSUME TypeInv, NEW c \in Calls, Call(c) \/ \E request \in Requests : CallBegin(c, request)
    PROVE  /\ UNCHANGED exec
           /\ \A r \in Runs : pc'[r] = pc[r] /\ op'[r] = op[r] /\ count'[r] = count[r] /\ verdict'[r] = verdict[r]
           /\ \A d \in Calls \ {c} : pc'[d] = pc[d] /\ op'[d] = op[d]
<1> USE DEF TypeInv, TypeOK, Procs, Goto, PcOK, LocalOK
<1>1. \A r \in Runs : r # c BY MissionAssumption
<1>2. CASE Plan(c)
  <2>1. UNCHANGED <<exec, op, count, verdict>>
      BY <1>2 DEF Plan, PlanRead, PlanQueue, PlanMark, PlanFail, PlanWrite, PlanCheck, PlanAssign, PlanDone,
                  local, waves
  <2>2. UNCHANGED pc \/ \E step : pc' = [pc EXCEPT ![c] = step]
      BY <1>2 DEF Plan, PlanRead, PlanQueue, PlanMark, PlanFail, PlanWrite, PlanCheck, PlanAssign, PlanDone
  <2> QED BY <1>1, <2>1, <2>2
<1>3. CASE \/ ControlRead(c) \/ ControlWrite(c) \/ SkipRead(c) \/ Skip(c)
           \/ RetryRead(c) \/ ResetRead(c) \/ Reset(c) \/ RetryWrite(c)
           \/ RemoveRead(c) \/ RemoveWrite(c) \/ AddTask(c)
           \/ UpdateRead(c) \/ UpdateWrite(c) \/ RecalcTasks(c) \/ RecalcMission(c) \/ RecalcWrite(c)
           \/ MissionGone(c) \/ \E request \in Requests : CallBegin(c, request)
  <2>1. UNCHANGED exec
      BY <1>3 DEF CallBegin, ControlRead, ControlWrite, SkipRead, Skip, RetryRead, ResetRead, Reset, RetryWrite,
            RemoveRead, RemoveWrite, AddTask, UpdateRead, UpdateWrite, RecalcTasks, RecalcMission,
            RecalcWrite, MissionGone, waves
  <2>2. UNCHANGED pc \/ \E step : pc' = [pc EXCEPT ![c] = step]
      BY <1>3 DEF CallBegin, ControlRead, ControlWrite, SkipRead, Skip, RetryRead, ResetRead, Reset, RetryWrite,
            RemoveRead, RemoveWrite, AddTask, UpdateRead, UpdateWrite, RecalcTasks, RecalcMission,
            RecalcWrite, MissionGone
  <2>3. UNCHANGED op \/ \E q : op' = [op EXCEPT ![c] = q]
      BY <1>3 DEF CallBegin, ControlRead, ControlWrite, SkipRead, Skip, RetryRead, ResetRead, Reset, RetryWrite,
            RemoveRead, RemoveWrite, AddTask, UpdateRead, UpdateWrite, RecalcTasks, RecalcMission,
            RecalcWrite, MissionGone, local
  <2>4. UNCHANGED count \/ \E n : count' = [count EXCEPT ![c] = n]
      BY <1>3 DEF CallBegin, ControlRead, ControlWrite, SkipRead, Skip, RetryRead, ResetRead, Reset, RetryWrite,
            RemoveRead, RemoveWrite, AddTask, UpdateRead, UpdateWrite, RecalcTasks, RecalcMission,
            RecalcWrite, MissionGone, local
  <2>5. UNCHANGED verdict \/ \E v : verdict' = [verdict EXCEPT ![c] = v]
      BY <1>3 DEF CallBegin, ControlRead, ControlWrite, SkipRead, Skip, RetryRead, ResetRead, Reset, RetryWrite,
            RemoveRead, RemoveWrite, AddTask, UpdateRead, UpdateWrite, RecalcTasks, RecalcMission,
            RecalcWrite, MissionGone, local
  <2> QED BY <1>1, <2>1, <2>2, <2>3, <2>4, <2>5
<1> QED BY <1>2, <1>3 DEF Call

\* A request goes through the steps of what it asks.
LEMMA CallsInPlaceNext ==
    ASSUME TypeInv, CallsInPlace, [Next]_vars
    PROVE  /\ CallsInPlace'
           /\ \A c \in Calls : op'[c] = op[c] \/ op[c] = "none"
<1> USE DEF TypeInv, TypeOK, Procs
<1>1. CASE UNCHANGED vars BY <1>1 DEF vars, CallsInPlace
<1>2. ASSUME NEW r \in Runs, Run(r) \/ \E entry \in {"run", "resume"} : RunBegin(r, entry)
      PROVE  CallsInPlace' /\ \A c \in Calls : op'[c] = op[c]
    BY <1>2, RunKeepsCalls DEF CallsInPlace
<1>3. ASSUME NEW c \in Calls, NEW request \in Requests, CallBegin(c, request)
      PROVE  CallsInPlace' /\ \A d \in Calls : op'[d] = op[d] \/ op[d] = "none"
  <2>1. op[c] = "none" /\ pc'[c] \in {"planRead", "read"} BY <1>3 DEF CallBegin, Goto, PcOK, CallsInPlace
  <2> QED BY <1>3, <2>1, CallKeepsRuns DEF CallsInPlace
<1>4. ASSUME NEW c \in Calls, Call(c)
      PROVE  CallsInPlace' /\ \A d \in Calls : op'[d] = op[d]
  <2>1. UNCHANGED op
      BY <1>4
      DEF Call, Plan, PlanRead, PlanQueue, PlanMark, PlanFail, PlanWrite, PlanCheck, PlanAssign, PlanDone,
          ControlRead, ControlWrite, SkipRead, Skip, RetryRead, ResetRead, Reset, RetryWrite, RemoveRead,
          RemoveWrite, AddTask, UpdateRead, UpdateWrite, RecalcTasks, RecalcMission, RecalcWrite, MissionGone, local
  <2>2. CASE Plan(c)
    <3>1. pc'[c] \in {"thrown", "planQueue", "planMark", "planCheck", "planFail", "planAssign", "planDone", "done",
                      "activate", "loop"}
        BY <2>2
        DEF Plan, PlanRead, PlanQueue, PlanMark, PlanFail, PlanWrite, PlanCheck, PlanAssign, PlanDone, Goto, PcOK
    <3> QED BY <1>4, <2>1, <3>1, CallKeepsRuns DEF CallsInPlace
  <2>3. CASE ~Plan(c)
    <3>1. \/ pc'[c] \in {"thrown", "write", "skipRead", "skip", "done"}
          \/ pc'[c] \in {"resetRead", "reset", "retryWrite"} /\ op[c] = "retry"
          \/ pc'[c] \in {"update", "recalcTasks", "recalcMission", "recalcWrite"} /\ op[c] = "updateTask"
        BY <1>4, <2>3
        DEF Call, ControlRead, ControlWrite, SkipRead, Skip, RetryRead, ResetRead, Reset, RetryWrite, RemoveRead,
            RemoveWrite, AddTask, UpdateRead, UpdateWrite, RecalcTasks, RecalcMission, RecalcWrite, MissionGone,
            Goto, PcOK, CallsInPlace
    <3> QED BY <1>4, <2>1, <3>1, CallKeepsRuns DEF CallsInPlace
  <2> QED BY <2>2, <2>3
<1> QED BY <1>1, <1>2, <1>3, <1>4 DEF Next

\* What was asked stays asked.
LEMMA AskedStays ==
    ASSUME TypeInv, CallsInPlace, [Next]_vars, NEW S, "none" \notin S, ~Asked(S)'
    PROVE  ~Asked(S)
BY CallsInPlaceNext DEF Asked

\* A run that moves leaves the other runs where they are.
LEMMA RunKeepsRuns ==
    ASSUME TypeInv, NEW r \in Runs, Run(r) \/ \E entry \in {"run", "resume"} : RunBegin(r, entry)
    PROVE  \A q \in Runs \ {r} : pc'[q] = pc[q] /\ exec'[q] = exec[q]
<1> USE DEF TypeInv, TypeOK, Procs, Goto, PcOK, WavesOK
<1>1. CASE Plan(r)
    BY <1>1
    DEF Plan, PlanRead, PlanQueue, PlanMark, PlanFail, PlanWrite, PlanCheck, PlanAssign, PlanDone, waves
<1>2. ASSUME NEW t \in Tasks, Execute(r, t)
      PROVE  \A q \in Runs \ {r} : pc'[q] = pc[q] /\ exec'[q] = exec[q]
    BY <1>2 DEF Execute, ExecUnassigned, ExecStart, ExecSucceed, ExecFail, ExecThrow, Phase
<1>3. CASE \/ RunRead(r) \/ RunQueue(r) \/ Activate(r) \/ Loop(r) \/ Select(r) \/ Slice(r) \/ WaveDone(r)
           \/ ReconcileRead(r) \/ ReconcileDecide(r) \/ ReconcileBlocked(r)
           \/ ReconcileWrite(r) \/ Totals(r) \/ MissionGone(r)
           \/ \E entry \in {"run", "resume"} : RunBegin(r, entry)
  <2>1. \A q \in Runs \ {r} : pc'[q] = pc[q]
      BY <1>3
      DEF RunRead, RunQueue, Activate, PlanWrite, Loop, Select, Slice, WaveDone, ReconcileRead,
          ReconcileDecide, ReconcileBlocked, ReconcileWrite, Totals, MissionGone, RunBegin
  <2>2. \A q \in Runs \ {r} : exec'[q] = exec[q]
      BY <1>3
      DEF RunRead, RunQueue, Activate, PlanWrite, Loop, Select, Slice, WaveDone, ReconcileRead,
          ReconcileDecide, ReconcileBlocked, ReconcileWrite, Totals, MissionGone, RunBegin, waves
  <2> QED BY <2>1, <2>2
<1> QED BY <1>1, <1>2, <1>3 DEF Run

\* An orchestrator has tasks in hand only within a wave, or after one of its
\* executions threw.
LEMMA RestsNext == ASSUME TypeInv, RestsOutsideWave, [Next]_vars PROVE RestsOutsideWave'
<1> USE DEF TypeInv, TypeOK, Procs, Goto, PcOK, WavesOK
<1>1. CASE UNCHANGED vars BY <1>1 DEF vars, RestsOutsideWave, Resting
<1>2. ASSUME NEW c \in Calls, Call(c) \/ \E request \in Requests : CallBegin(c, request) PROVE RestsOutsideWave'
    BY <1>2, CallKeepsRuns DEF RestsOutsideWave, Resting
<1>3. ASSUME NEW r \in Runs, Run(r) \/ \E entry \in {"run", "resume"} : RunBegin(r, entry) PROVE RestsOutsideWave'
  <2>1. SUFFICES pc'[r] \notin {"wave", "thrown"} => Resting(r)'
      BY <1>3, RunKeepsRuns DEF RestsOutsideWave, Resting
  <2>2. CASE Plan(r)
      BY <2>2
      DEF Plan, PlanRead, PlanQueue, PlanMark, PlanFail, PlanWrite, PlanCheck, PlanAssign, PlanDone, waves,
          RestsOutsideWave, Resting
  <2>3. ASSUME NEW t \in Tasks, Execute(r, t) PROVE pc'[r] \in {"wave", "thrown"}
    <3>1. exec[r][t] # "none" BY <2>3 DEF Execute, ExecUnassigned, ExecStart, ExecSucceed, ExecFail, ExecThrow
    <3>2. pc[r] \in {"wave", "thrown"} BY <3>1 DEF RestsOutsideWave, Resting
    <3> QED BY <2>3, <3>2 DEF Execute, ExecUnassigned, ExecStart, ExecSucceed, ExecFail, ExecThrow
  <2>4. CASE \/ RunRead(r) \/ RunQueue(r) \/ Activate(r) \/ Loop(r)
             \/ ReconcileRead(r) \/ ReconcileDecide(r) \/ ReconcileBlocked(r)
             \/ ReconcileWrite(r) \/ Totals(r) \/ MissionGone(r)
             \/ \E entry \in {"run", "resume"} : RunBegin(r, entry)
    <3>1. UNCHANGED exec
        BY <2>4
        DEF RunRead, RunQueue, Activate, PlanWrite, Loop, ReconcileRead,
            ReconcileDecide, ReconcileBlocked, ReconcileWrite, Totals, MissionGone, RunBegin, waves
    <3>2. pc[r] \notin {"wave", "thrown"}
        BY <2>4
        DEF RunRead, RunQueue, Activate, PlanWrite, Loop, ReconcileRead,
            ReconcileDecide, ReconcileBlocked, ReconcileWrite, Totals, MissionGone, RunBegin, MissionSteps
    <3> QED BY <3>1, <3>2 DEF RestsOutsideWave, Resting
  <2>5. CASE Select(r) BY <2>5 DEF Select, RestsOutsideWave, Resting, waves
  <2>6. CASE Slice(r) BY <2>6 DEF Slice
  <2>7. CASE WaveDone(r) BY <2>7 DEF WaveDone, InPhase, Resting, waves
  <2> QED BY <1>3, <2>2, <2>3, <2>4, <2>5, <2>6, <2>7 DEF Run
<1> QED BY <1>1, <1>2, <1>3 DEF Next
-----------------------------------------------------------------------------
(* COMPLETED means done.  When the orchestrator has concluded so, every task  *)
(* is over and none is in its hands, so that nothing reopens one.             *)

Reopening == {"addTask", "updateTask", "retry"}
Concluded == mission.status = "COMPLETED" \/ \E r \in Runs : verdict[r] = "COMPLETED"
CompletedInv == ~Asked(Reopening) /\ Concluded => Done = created /\ \A r \in Runs : Resting(r)

\* A step that concludes nothing, adds no task, at most skips tasks and leaves
\* the waves in progress as they are.
LEMMA CompletedFrame ==
    ASSUME TypeInv, CompletedInv, Asked(Reopening) => Asked(Reopening)', Concluded' => Concluded,
           Concluded => /\ UNCHANGED <<created, exec>>
                        /\ \A t \in Tasks : task'[t].status \in {task[t].status, "SKIPPED"}
    PROVE  CompletedInv'
<1> SUFFICES ASSUME ~Asked(Reopening)', Concluded' PROVE Done' = created' /\ \A r \in Runs : Resting(r)'
    BY DEF CompletedInv
<1>1. Done = created /\ \A r \in Runs : Resting(r)
    BY DEF CompletedInv
<1>2. \A t \in created : t \in Tasks /\ task[t].status \in {"COMPLETED", "SKIPPED"}
    BY <1>1 DEF Done, WithStatus, TypeInv, TypeOK, RowsOK
<1> QED BY <1>1, <1>2 DEF Done, WithStatus, Resting

\* A status other than COMPLETED is written, and nothing is decided.
LEMMA NotConcluding ==
    ASSUME TypeInv, UNCHANGED verdict, UNCHANGED mission \/ \E s : s # "COMPLETED" /\ SetStatus(s)
    PROVE  Concluded' => Concluded
BY DEF Concluded, SetStatus, TypeInv, TypeOK, RowsOK

\* The steps of plan() set a status that is not COMPLETED, or assign a worker.
LEMMA PlanLeaves ==
    ASSUME TypeInv, NEW p \in Procs, Plan(p)
    PROVE  /\ UNCHANGED <<created, exec, verdict, op, count>>
           /\ UNCHANGED mission \/ \E s \in {"QUEUED", "PLANNING", "FAILED"} : SetStatus(s)
           /\ \A t \in Tasks : task'[t].status = task[t].status
           /\ p \in Runs => pc'[p] \in {"planQueue", "planMark", "planCheck", "planFail", "planAssign", "planDone",
                                        "activate", "loop", "thrown"}
<1> USE DEF TypeInv, TypeOK
<1>1. UNCHANGED <<created, exec, verdict, op, count>>
    BY DEF Plan, PlanRead, PlanQueue, PlanMark, PlanFail, PlanWrite, PlanCheck, PlanAssign, PlanDone, rows, local, waves
<1>2. UNCHANGED mission \/ \E s \in {"QUEUED", "PLANNING", "FAILED"} : SetStatus(s)
    BY DEF Plan, PlanRead, PlanQueue, PlanMark, PlanFail, PlanWrite, PlanCheck, PlanAssign, PlanDone, rows
<1>3. \A t \in Tasks : task'[t].status = task[t].status
    BY DEF Plan, PlanRead, PlanQueue, PlanMark, PlanFail, PlanWrite, PlanCheck, PlanAssign, PlanDone, rows,
           RowsOK, TaskRow
<1>4. p \in Runs => pc'[p] \in {"planQueue", "planMark", "planCheck", "planFail", "planAssign", "planDone",
                                "activate", "loop", "thrown"}
    BY MissionAssumption
    DEF Plan, PlanRead, PlanQueue, PlanMark, PlanFail, PlanWrite, PlanCheck, PlanAssign, PlanDone, Goto, PcOK, Procs
<1> QED BY <1>1, <1>2, <1>3, <1>4

\* What a request that neither adds, edits nor retries changes: a status that
\* is not COMPLETED (RUNNING if it starts the mission), tasks it skips.
LEMMA CallLeaves ==
    ASSUME TypeInv, CallsInPlace, NEW c \in Calls, op[c] \notin Reopening,
           Call(c) \/ \E request \in Requests : CallBegin(c, request)
    PROVE  /\ UNCHANGED <<created, exec>>
           /\ \/ mission'.status \in {mission.status, "QUEUED", "PLANNING", "FAILED", "PAUSED", "ARCHIVED", "CANCELLED"}
              \/ mission'.status = "RUNNING" /\ op[c] = "start"
           /\ \A t \in Tasks : task'[t].status \in {task[t].status, "SKIPPED"}
<1> USE DEF TypeInv, TypeOK
<1>1. UNCHANGED exec
    BY CallKeepsRuns
<1>2. CASE Plan(c)
    BY <1>2, PlanLeaves DEF Procs, SetStatus, RowsOK
<1>3. CASE Skip(c)
  <2>1. UNCHANGED <<created, mission>> BY <1>3 DEF Skip
  <2>2. UNCHANGED task \/ \E t \in held[c] : task' = [task EXCEPT ![t].status = "SKIPPED"] BY <1>3 DEF Skip
  <2>3. ASSUME NEW t \in held[c], task' = [task EXCEPT ![t].status = "SKIPPED"]
        PROVE  \A u \in Tasks : task'[u].status \in {task[u].status, "SKIPPED"}
      BY <2>3 DEF RowsOK, TaskRow
  <2> QED BY <1>1, <2>1, <2>2, <2>3
<1>4. CASE ControlWrite(c)
    BY <1>1, <1>4 DEF ControlWrite, SetStatus, RowsOK, Target
<1>5. CASE \/ ControlRead(c) \/ SkipRead(c) \/ RetryRead(c) \/ RemoveRead(c) \/ UpdateRead(c)
           \/ MissionGone(c) \/ \E request \in Requests : CallBegin(c, request)
    BY <1>1, <1>5
    DEF ControlRead, SkipRead, RetryRead, RemoveRead, UpdateRead, MissionGone, CallBegin, rows
<1>6. CASE RemoveWrite(c)
    BY <1>1, <1>6 DEF RemoveWrite, RowsOK
<1>7. /\ ~ResetRead(c) /\ ~Reset(c) /\ ~RetryWrite(c) /\ ~AddTask(c)
      /\ ~UpdateWrite(c) /\ ~RecalcTasks(c) /\ ~RecalcMission(c) /\ ~RecalcWrite(c)
    BY DEF ResetRead, Reset, RetryWrite, AddTask, UpdateWrite, RecalcTasks, RecalcMission, RecalcWrite,
           CallsInPlace, Reopening
<1> QED BY <1>2, <1>3, <1>4, <1>5, <1>6, <1>7 DEF Call

\* A wave is chosen, started and executed only where a task is not over.
LEMMA NothingToWalk ==
    ASSUME TypeInv, Done = created, NEW r \in Runs, Resting(r)
    PROVE  /\ Runnable = {} /\ ~Slice(r)
           /\ \A t \in Tasks : ~Execute(r, t)
<1>1. Runnable = {}
    BY DEF Runnable, Done, WithStatus
<1>2. ~Slice(r)
    BY DEF Slice, InPhase, Resting
<1>3. \A t \in Tasks : ~Execute(r, t)
    BY DEF Execute, ExecUnassigned, ExecStart, ExecSucceed, ExecFail, ExecThrow, Resting
<1> QED BY <1>1, <1>2, <1>3

\* The orchestrator concludes only when every task is over.
LEMMA CompletedRun ==
    ASSUME OneRunner, TypeInv, CallsInPlace, RestsOutsideWave, CompletedInv, NEW r \in Runs,
           Run(r) \/ \E entry \in {"run", "resume"} : RunBegin(r, entry)
    PROVE  CompletedInv'
<1> USE DEF TypeInv, TypeOK
<1>1. Asked(Reopening) => Asked(Reopening)'
    BY RunKeepsCalls DEF Asked
<1>2. SUFFICES ASSUME ~Asked(Reopening) PROVE CompletedInv'
    BY <1>1 DEF CompletedInv
<1>3. Concluded => Done = created /\ Resting(r)
    BY <1>2 DEF CompletedInv
<1>4. CASE Plan(r)
  <2>1. Concluded' => Concluded
      BY <1>4, PlanLeaves, NotConcluding DEF Procs
  <2> QED BY <1>1, <1>4, <2>1, PlanLeaves, CompletedFrame DEF Procs
<1>5. CASE RunQueue(r) \/ Activate(r)
  <2>1. UNCHANGED <<created, task, exec, verdict>> /\ \E s : s # "COMPLETED" /\ SetStatus(s)
      BY <1>5 DEF RunQueue, Activate, PlanWrite, local, waves
  <2>2. Concluded' => Concluded
      BY <2>1, NotConcluding
  <2> QED BY <1>1, <2>1, <2>2, CompletedFrame
<1>6. CASE \/ RunRead(r) \/ Loop(r) \/ WaveDone(r) \/ ReconcileRead(r) \/ Totals(r)
           \/ MissionGone(r) \/ \E entry \in {"run", "resume"} : RunBegin(r, entry)
  <2>1. UNCHANGED <<created, task, mission, exec, verdict>>
      BY <1>6 DEF RunRead, Loop, WaveDone, ReconcileRead, Totals, MissionGone, RunBegin, rows, local, waves
  <2> QED BY <1>1, <2>1, CompletedFrame DEF Concluded
<1>7. CASE Select(r) \/ Slice(r) \/ \E t \in Tasks : Execute(r, t)
  <2>1. UNCHANGED <<created, mission, verdict>>
      BY <1>7 DEF Select, Slice, Execute, ExecUnassigned, ExecStart, ExecSucceed, ExecFail, ExecThrow, rows, local
  <2>2. Concluded => UNCHANGED <<task, exec>>
      BY <1>3, <1>7, NothingToWalk DEF Select, rows, waves
  <2> QED BY <1>1, <2>1, <2>2, CompletedFrame DEF Concluded
<1>8. CASE ReconcileDecide(r)
  <2>1. UNCHANGED <<created, task, mission, exec>>
      BY <1>8 DEF ReconcileDecide, rows, waves
  <2>2. \A q \in Runs : q = r /\ Resting(q)
      BY <1>8 DEF OneRunner, ReconcileDecide, RestsOutsideWave
  <2>3. CASE Outcome = "COMPLETED"
    <3>1. Done = created
        BY <2>3 DEF Outcome
    <3> QED BY <2>1, <2>2, <3>1 DEF CompletedInv, Done, WithStatus, Resting
  <2>4. CASE Outcome # "COMPLETED"
    <3>1. verdict'[r] # "COMPLETED"
        BY <1>8, <2>4 DEF ReconcileDecide, LocalOK, Procs
    <3>2. Concluded' => Concluded
        BY <2>1, <2>2, <3>1 DEF Concluded
    <3> QED BY <1>1, <2>1, <3>2, CompletedFrame
  <2> QED BY <2>3, <2>4
<1>9. CASE ReconcileBlocked(r)
  <2>1. UNCHANGED <<created, task, mission, exec>>
      BY <1>9 DEF ReconcileBlocked, rows, waves
  <2>2. \A q \in Runs : verdict'[q] \in {verdict[q], "NONE"}
      BY <1>9 DEF ReconcileBlocked, LocalOK, Procs
  <2> QED BY <1>1, <2>1, <2>2, CompletedFrame DEF Concluded
<1>10. CASE ReconcileWrite(r)
  <2>1. UNCHANGED <<created, task, exec>>
      BY <1>10 DEF ReconcileWrite, waves
  <2>2. \A q \in Runs : verdict'[q] \in {verdict[q], "NONE"}
      BY <1>10 DEF ReconcileWrite, LocalOK, Procs
  <2>3. mission'.status \in {mission.status, verdict[r]}
      BY <1>10 DEF ReconcileWrite, SetStatus, Written, RowsOK
  <2>4. Concluded' => Concluded
      BY <2>2, <2>3 DEF Concluded
  <2> QED BY <1>1, <2>1, <2>4, CompletedFrame
<1> QED BY <1>4, <1>5, <1>6, <1>7, <1>8, <1>9, <1>10 DEF Run

LEMMA CompletedNext ==
    ASSUME OneRunner, TypeInv, CallsInPlace, RestsOutsideWave, CompletedInv, [Next]_vars
    PROVE  CompletedInv'
<1>1. CASE UNCHANGED vars
    BY <1>1 DEF vars, CompletedInv, Concluded, Asked, Done, WithStatus, Resting
<1>2. ASSUME NEW c \in Calls, Call(c) \/ \E request \in Requests : CallBegin(c, request) PROVE CompletedInv'
  <2>1. Asked(Reopening) => Asked(Reopening)'
      BY <1>2, AskedStays DEF Reopening, Next
  <2>2. SUFFICES ASSUME ~Asked(Reopening)' PROVE CompletedInv'
      BY DEF CompletedInv
  <2>3. op[c] \notin Reopening
      BY <2>1, <2>2 DEF Asked
  <2>4. Concluded' => Concluded
      BY <1>2, <2>3, CallLeaves, CallKeepsRuns DEF Concluded
  <2> QED BY <1>2, <2>1, <2>3, <2>4, CallLeaves, CompletedFrame
<1> QED BY <1>1, <1>2, CompletedRun DEF Next

LEMMA OneRunInit == Init => CallsInPlace /\ RestsOutsideWave /\ CompletedInv
<1> SUFFICES ASSUME Init PROVE CallsInPlace /\ RestsOutsideWave /\ CompletedInv OBVIOUS
<1>1. \A p \in Procs : pc[p] = "idle" /\ op[p] = "none" /\ verdict[p] = "NONE"
    BY DEF Init
<1>2. \A r \in Runs : Resting(r)
    BY DEF Init, Resting
<1>3. mission.status = "DRAFT"
    BY DEF Init
<1> QED BY <1>1, <1>2, <1>3 DEF CallsInPlace, RestsOutsideWave, CompletedInv, Concluded, Procs

\* With one orchestrator on the mission, and any requests racing it but those
\* that add, edit or reopen tasks, COMPLETED is written only when every task is
\* over, and stays true (reconcile(), and executeTask() of waves it has settled).
THEOREM CompletedIsDone == OneRunner /\ Spec => []CompletedMeansDone
<1> DEFINE Inv == TypeInv /\ CallsInPlace /\ RestsOutsideWave /\ CompletedInv
<1>1. OneRunner /\ Inv /\ [Next]_vars => Inv' /\ OneRunner'
    BY TypeNext, CallsInPlaceNext, RestsNext, CompletedNext DEF OneRunner
<1>2. Init => Inv
    BY TypeInit, OneRunInit
<1>3. Inv => CompletedMeansDone
    BY DEF CompletedInv, CompletedMeansDone, Concluded, Reopening
<1> HIDE DEF Inv
<1> QED BY <1>1, <1>2, <1>3, PTL DEF Spec
-----------------------------------------------------------------------------
(* Not left RUNNING.  A run that is ending below the ceiling of waves found   *)
(* nothing to run; no task is RUNNING then but those it works on itself, so    *)
(* what it decides is COMPLETED, FAILED or WAITING, and that is what it writes *)
(* over RUNNING, which nobody but itself writes.                              *)

Restarting == {"start", "retry", "addTask", "updateTask"}
RunningIsWorked(r) == \A t \in created : task[t].status = "RUNNING" => exec[r][t] = "working" \/ pc[r] = "thrown"
EndsDecided(r) ==
    /\ pc[r] \in {"totals", "done"} => op[r] = "final"
    /\ verdict[r] \in {"NONE", "WAITING", "COMPLETED", "FAILED"}
    /\ op[r] = "final" /\ mission.status = "RUNNING" =>
          /\ pc[r] \in {"recRead", "recDecide", "recBlocked"} => Runnable = {}
          /\ pc[r] \in {"recBlocked", "recWrite"} => verdict[r] # "NONE"
          /\ pc[r] \notin {"totals", "done"}
StrandedInv ==
    /\ InitialTasks \subseteq created
    /\ ~Asked(Restarting) =>
          \A r \in Runs : RunningIsWorked(r) /\ (count[r] < MaxWaves => EndsDecided(r))

\* What is not to be run is not to be run when tasks are only skipped.
LEMMA RunnableShrinks ==
    ASSUME TypeInv, UNCHANGED created, \A t \in Tasks : task'[t].status \in {task[t].status, "SKIPPED"}
    PROVE  Runnable' \subseteq Runnable
<1>1. \A t \in created : t \in Tasks
    BY DEF TypeInv, TypeOK, RowsOK
<1> QED BY <1>1 DEF Runnable, WithStatus

\* With a task in the mission and none of them RUNNING, a mission that is not
\* over has work pending.
LEMMA WorkRemains ==
    ASSUME TypeInv, created # {}, Outcome = "NONE", \A t \in created : task[t].status # "RUNNING"
    PROVE  Pending # {}
<1>1. SUFFICES ASSUME Pending = {} PROVE FALSE
    OBVIOUS
<1>2. \A t \in created : task[t].status \in TaskStatus
    BY DEF TypeInv, TypeOK, RowsOK, TaskRow
<1>3. Done \union Failed = created
    BY <1>1, <1>2 DEF Done, Failed, Pending, WithStatus, TaskStatus
<1>4. Failed = {} => Done = created
    BY <1>3
<1> QED BY <1>3, <1>4 DEF Outcome

\* Requests neither put a task to work nor set the mission going.
LEMMA StrandedCall ==
    ASSUME OneRunner, TypeInv, CallsInPlace, StrandedInv, NEW c \in Calls,
           Call(c) \/ \E request \in Requests : CallBegin(c, request)
    PROVE  StrandedInv'
<1>1. [Next]_vars
    BY DEF Next
<1>2. Asked(Restarting) => Asked(Restarting)'
    BY <1>1, AskedStays DEF Restarting
<1>3. InitialTasks \subseteq created'
  <2>1. created \subseteq created'
    <3>1. CASE AddTask(c) BY <3>1 DEF AddTask
    <3>2. CASE Plan(c) BY <3>2, PlanLeaves DEF Procs
    <3>3. CASE ~AddTask(c) /\ ~Plan(c)
        BY <3>3
        DEF Call, CallBegin, ControlRead, ControlWrite, SkipRead, Skip, RetryRead, ResetRead, Reset, RetryWrite, RemoveRead,
            RemoveWrite, UpdateRead, UpdateWrite, RecalcTasks, RecalcMission, RecalcWrite, MissionGone, rows
    <3> QED BY <3>1, <3>2, <3>3
  <2> QED BY <2>1 DEF StrandedInv
<1>4. SUFFICES ASSUME ~Asked(Restarting)', NEW r \in Runs
               PROVE  RunningIsWorked(r)' /\ (count'[r] < MaxWaves => EndsDecided(r)')
    BY <1>3 DEF StrandedInv
<1>5. op[c] \notin Restarting /\ op[c] \notin Reopening
    BY <1>2, <1>4 DEF Asked, Restarting, Reopening
<1>6. /\ UNCHANGED <<created, exec>> /\ \A t \in Tasks : task'[t].status \in {task[t].status, "SKIPPED"}
      /\ mission'.status = "RUNNING" => mission.status = "RUNNING"
    BY <1>5, CallLeaves DEF Restarting
<1>7. pc'[r] = pc[r] /\ op'[r] = op[r] /\ count'[r] = count[r] /\ verdict'[r] = verdict[r]
    BY CallKeepsRuns
<1>8. RunningIsWorked(r) /\ (count[r] < MaxWaves => EndsDecided(r))
    BY <1>2, <1>4 DEF StrandedInv
<1>9. RunningIsWorked(r)'
  <2>1. \A t \in created : t \in Tasks
      BY DEF TypeInv, TypeOK, RowsOK
  <2> QED BY <1>6, <1>7, <1>8, <2>1 DEF RunningIsWorked
<1>10. Runnable' \subseteq Runnable
    BY <1>6, RunnableShrinks
<1> QED BY <1>6, <1>7, <1>8, <1>9, <1>10 DEF EndsDecided

\* A run away from its end has nothing to show yet.
LEMMA NotEnding ==
    ASSUME NEW r \in Runs, verdict[r] \in {"NONE", "WAITING", "COMPLETED", "FAILED"}, UNCHANGED verdict,
           \/ pc'[r] \notin {"recRead", "recDecide", "recBlocked", "recWrite", "totals", "done"}
           \/ op'[r] # "final" /\ pc'[r] \notin {"totals", "done"}
    PROVE  EndsDecided(r)'
BY DEF EndsDecided

\* Only the orchestrator puts a task to RUNNING, and it stays with it.
LEMMA WorkedRun ==
    ASSUME TypeInv, RestsOutsideWave, NEW r \in Runs, RunningIsWorked(r),
           Run(r) \/ \E entry \in {"run", "resume"} : RunBegin(r, entry)
    PROVE  RunningIsWorked(r)' /\ UNCHANGED created
<1> USE DEF TypeInv, TypeOK, Procs, Goto, PcOK
<1>1. CASE Plan(r)
  <2>1. pc[r] # "thrown"
      BY <1>1 DEF Plan, PlanRead, PlanQueue, PlanMark, PlanFail, PlanWrite, PlanCheck, PlanAssign, PlanDone
  <2> QED BY <1>1, <2>1, PlanLeaves DEF RunningIsWorked, RowsOK
<1>2. CASE \/ RunRead(r) \/ RunQueue(r) \/ Activate(r) \/ Loop(r) \/ WaveDone(r)
           \/ ReconcileRead(r) \/ ReconcileDecide(r) \/ ReconcileBlocked(r)
           \/ ReconcileWrite(r) \/ Totals(r) \/ MissionGone(r)
           \/ \E entry \in {"run", "resume"} : RunBegin(r, entry)
  <2>1. UNCHANGED <<created, task, exec>>
      BY <1>2
      DEF RunRead, RunQueue, Activate, PlanWrite, Loop, WaveDone, ReconcileRead, ReconcileDecide,
          ReconcileBlocked, ReconcileWrite, Totals, MissionGone, RunBegin, rows, waves
  <2>2. pc[r] # "thrown"
      BY <1>2
      DEF RunRead, RunQueue, Activate, PlanWrite, Loop, WaveDone, ReconcileRead, ReconcileDecide,
          ReconcileBlocked, ReconcileWrite, Totals, MissionGone, RunBegin, MissionSteps
  <2> QED BY <2>1, <2>2 DEF RunningIsWorked
<1>3. CASE Select(r)
  <2>1. \A t \in created : task[t].status # "RUNNING"
    <3>1. Resting(r) /\ pc[r] # "thrown"
        BY <1>3 DEF Select, RestsOutsideWave
    <3> QED BY <3>1 DEF RunningIsWorked, Resting, RowsOK
  <2> QED BY <1>3, <2>1 DEF Select, rows, RunningIsWorked
<1>4. CASE Slice(r)
  <2>1. UNCHANGED <<created, task, pc>>
      BY <1>4 DEF Slice, rows
  <2>2. \A t \in Tasks : exec[r][t] = "working" => exec'[r][t] = "working"
      BY <1>4 DEF Slice, InPhase, WavesOK
  <2> QED BY <2>1, <2>2 DEF RunningIsWorked, RowsOK
<1>5. ASSUME NEW t \in Tasks, Execute(r, t) PROVE RunningIsWorked(r)' /\ UNCHANGED created
  <2>1. CASE ExecThrow(r, t)
      BY <2>1 DEF ExecThrow, rows, RunningIsWorked
  <2>2. CASE ~ExecThrow(r, t)
    <3>1. UNCHANGED <<created, pc>> /\ \A u \in Tasks \ {t} : exec'[r][u] = exec[r][u] /\ task'[u] = task[u]
        BY <1>5, <2>2 DEF Execute, ExecUnassigned, ExecStart, ExecSucceed, ExecFail, Phase, RowsOK, WavesOK
    <3>2. task'[t].status = "RUNNING" => exec'[r][t] = "working"
        BY <1>5, <2>2 DEF Execute, ExecUnassigned, ExecStart, ExecSucceed, ExecFail, Phase, RowsOK, WavesOK, TaskRow
    <3> QED BY <3>1, <3>2 DEF RunningIsWorked, RowsOK
  <2> QED BY <2>1, <2>2
<1> QED BY <1>1, <1>2, <1>3, <1>4, <1>5 DEF Run

\* A run below the ceiling ends with a decision.
LEMMA EndsRun ==
    ASSUME TypeInv, RestsOutsideWave, NEW r \in Runs, RunningIsWorked(r), created # {},
           count[r] < MaxWaves, EndsDecided(r),
           Run(r) \/ \E entry \in {"run", "resume"} : RunBegin(r, entry)
    PROVE  EndsDecided(r)'
<1> USE DEF TypeInv, TypeOK, Procs, Goto, PcOK, LocalOK
<1>1. verdict[r] \in {"NONE", "WAITING", "COMPLETED", "FAILED"}
    BY DEF EndsDecided
<1>2. CASE Plan(r)
    BY <1>1, <1>2, PlanLeaves, NotEnding
<1>3. CASE \/ RunRead(r) \/ RunQueue(r) \/ Activate(r) \/ MissionGone(r)
           \/ \E entry \in {"run", "resume"} : RunBegin(r, entry)
  <2>1. UNCHANGED verdict
      BY <1>3 DEF RunRead, RunQueue, Activate, PlanWrite, MissionGone, RunBegin, local
  <2>2. pc'[r] \in {"read", "thrown", "queue", "planRead", "activate", "loop"}
      BY <1>3 DEF RunRead, RunQueue, Activate, PlanWrite, MissionGone, RunBegin
  <2> QED BY <1>1, <2>1, <2>2, NotEnding
<1>4. CASE Slice(r) \/ \E t \in Tasks : Execute(r, t)
  <2>1. UNCHANGED verdict
      BY <1>4 DEF Slice, Execute, ExecUnassigned, ExecStart, ExecSucceed, ExecFail, ExecThrow, local
  <2>2. pc'[r] \in {"wave", "thrown"}
    <3>1. CASE Slice(r)
        BY <3>1 DEF Slice
    <3>2. ASSUME NEW t \in Tasks, Execute(r, t) PROVE pc'[r] \in {"wave", "thrown"}
      <4>1. exec[r][t] # "none" BY <3>2 DEF Execute, ExecUnassigned, ExecStart, ExecSucceed, ExecFail, ExecThrow
      <4>2. pc[r] \in {"wave", "thrown"} BY <4>1 DEF RestsOutsideWave, Resting
      <4> QED BY <3>2, <4>2 DEF Execute, ExecUnassigned, ExecStart, ExecSucceed, ExecFail, ExecThrow
    <3> QED BY <1>4, <3>1, <3>2
  <2> QED BY <1>1, <2>1, <2>2, NotEnding
<1>5. CASE WaveDone(r)
    BY <1>1, <1>5, NotEnding DEF WaveDone
<1>6. CASE Loop(r)
  <2>1. UNCHANGED <<verdict, mission>>
      BY <1>6 DEF Loop, rows
  <2>2. CASE Goto(r, "select")
      BY <1>1, <2>1, <2>2, NotEnding
  <2>3. CASE mission.status \in {"CANCELLED", "PAUSED"} /\ Goto(r, "recRead")
      BY <1>1, <2>1, <2>3 DEF EndsDecided
  <2> QED BY <1>6, <2>2, <2>3 DEF Loop
<1>7. CASE Select(r)
  <2>1. UNCHANGED <<verdict, created, task>>
      BY <1>7 DEF Select, rows
  <2>2. CASE Goto(r, "wave")
      BY <1>1, <2>1, <2>2, NotEnding
  <2>3. CASE Runnable = {} /\ Goto(r, "recRead")
      BY <1>1, <2>1, <2>3 DEF EndsDecided, Runnable, WithStatus
  <2> QED BY <1>7, <2>2, <2>3 DEF Select
<1>8. CASE ReconcileRead(r)
  <2>1. UNCHANGED <<verdict, created, task, mission, op>> /\ pc[r] = "recRead"
      BY <1>8 DEF ReconcileRead, rows, local
  <2>2. CASE mission.status \in {"CANCELLED", "PAUSED", "ARCHIVED"} /\ Goto(r, AfterReconcile(r))
    <3>1. pc'[r] \in {"totals", "loop"} /\ (pc'[r] = "totals" => op[r] = "final")
        BY <2>2 DEF AfterReconcile
    <3> QED BY <1>1, <2>1, <2>2, <3>1 DEF EndsDecided
  <2>3. CASE Goto(r, "recDecide")
      BY <1>1, <2>1, <2>3 DEF EndsDecided, Runnable, WithStatus
  <2> QED BY <1>8, <2>2, <2>3 DEF ReconcileRead
<1>9. CASE ReconcileDecide(r)
  <2>1. UNCHANGED <<created, task, mission, op>> /\ pc[r] = "recDecide"
      BY <1>9 DEF ReconcileDecide, rows
  <2>2. CASE Outcome # "NONE" /\ verdict' = [verdict EXCEPT ![r] = Outcome] /\ Goto(r, "recWrite")
    <3>1. Outcome \in {"COMPLETED", "FAILED"}
        BY <2>2 DEF Outcome
    <3>2. verdict'[r] = Outcome /\ pc'[r] = "recWrite"
        BY <2>2
    <3> QED BY <2>1, <3>1, <3>2 DEF EndsDecided
  <2>3. CASE Outcome = "NONE" /\ verdict' = [verdict EXCEPT ![r] = IF Pending = {} THEN "NONE" ELSE "WAITING"]
             /\ Goto(r, "recBlocked")
    <3>1. \A t \in created : task[t].status # "RUNNING"
      <4>1. Resting(r) /\ pc[r] # "thrown"
          BY <2>1 DEF RestsOutsideWave
      <4> QED BY <4>1 DEF RunningIsWorked, Resting, RowsOK
    <3>2. Pending # {}
        BY <2>3, <3>1, WorkRemains
    <3>3. verdict'[r] = "WAITING" /\ pc'[r] = "recBlocked"
        BY <2>3, <3>2
    <3> QED BY <2>1, <3>3 DEF EndsDecided, Runnable, WithStatus
  <2> QED BY <1>9, <2>2, <2>3 DEF ReconcileDecide
<1>10. CASE ReconcileBlocked(r)
  <2>1. UNCHANGED <<created, task, mission, op>> /\ pc[r] = "recBlocked" /\ pc'[r] = "recWrite"
      BY <1>10 DEF ReconcileBlocked, rows
  <2>2. verdict'[r] = IF Runnable = {} THEN verdict[r] ELSE "NONE"
      BY <1>10 DEF ReconcileBlocked, Blocked
  <2> QED BY <1>1, <2>1, <2>2 DEF EndsDecided
<1>11. CASE ReconcileWrite(r)
  <2>1. UNCHANGED op /\ pc[r] = "recWrite" /\ verdict'[r] = "NONE"
      BY <1>11 DEF ReconcileWrite
  <2>2. pc'[r] = IF op[r] = "final" THEN "totals" ELSE "loop"
      BY <1>11 DEF ReconcileWrite, AfterReconcile
  <2>3. mission'.status = IF verdict[r] = "NONE" THEN mission.status ELSE verdict[r]
      BY <1>11 DEF ReconcileWrite, SetStatus, Written, RowsOK
  <2>4. op[r] = "final" => mission'.status # "RUNNING"
      BY <1>1, <2>1, <2>3 DEF EndsDecided
  <2> QED BY <2>1, <2>2, <2>4 DEF EndsDecided
<1>12. CASE Totals(r)
  <2>1. UNCHANGED <<op, mission, verdict>> /\ pc[r] = "totals" /\ pc'[r] = "done"
      BY <1>12 DEF Totals, rows, local
  <2> QED BY <1>1, <2>1 DEF EndsDecided
<1> QED BY <1>2, <1>3, <1>4, <1>5, <1>6, <1>7, <1>8, <1>9, <1>10, <1>11, <1>12 DEF Run

\* Waves are only added up.
LEMMA WavesAddUp ==
    ASSUME TypeInv, NEW r \in Runs, Run(r) \/ \E entry \in {"run", "resume"} : RunBegin(r, entry)
    PROVE  count[r] \in Nat /\ count'[r] \in Nat /\ count[r] <= count'[r]
<1> USE DEF TypeInv, TypeOK, LocalOK, Procs
<1>1. count[r] \in Nat
    OBVIOUS
<1>2. CASE Select(r)
  <2>1. UNCHANGED count \/ count' = [count EXCEPT ![r] = count[r] + 1]
      BY <1>2 DEF Select
  <2> QED BY <1>1, <2>1
<1>3. CASE ~Select(r)
  <2>1. UNCHANGED count
    <3>1. CASE Plan(r)
        BY <3>1, PlanLeaves
    <3>2. CASE ~Plan(r)
        BY <1>3, <3>2
        DEF Run, RunRead, RunQueue, Activate, PlanWrite, Loop, Slice, WaveDone, ReconcileRead,
            ReconcileDecide, ReconcileBlocked, ReconcileWrite, Totals, MissionGone, RunBegin, Execute,
            ExecUnassigned, ExecStart, ExecSucceed, ExecFail, ExecThrow, local
    <3> QED BY <3>1, <3>2
  <2> QED BY <1>1, <2>1
<1> QED BY <1>2, <1>3

LEMMA StrandedNext ==
    ASSUME OneRunner, InitialTasks # {}, TypeInv, CallsInPlace, RestsOutsideWave, StrandedInv, [Next]_vars
    PROVE  StrandedInv'
<1>1. CASE UNCHANGED vars
    BY <1>1 DEF vars, StrandedInv, Asked, RunningIsWorked, EndsDecided, Runnable, WithStatus
<1>2. ASSUME NEW r \in Runs, Run(r) \/ \E entry \in {"run", "resume"} : RunBegin(r, entry) PROVE StrandedInv'
  <2>1. Asked(Restarting) => Asked(Restarting)'
      BY <1>2, RunKeepsCalls DEF Asked
  <2>2. CASE Asked(Restarting)
    <3>1. UNCHANGED created
      <4>1. CASE Plan(r)
          BY <4>1, PlanLeaves DEF Procs
      <4>2. CASE ~Plan(r)
          BY <1>2, <4>2
          DEF Run, RunRead, RunQueue, Activate, PlanWrite, Loop, Select, Slice, WaveDone, ReconcileRead,
              ReconcileDecide, ReconcileBlocked, ReconcileWrite, Totals, MissionGone, RunBegin, Execute,
              ExecUnassigned, ExecStart, ExecSucceed, ExecFail, ExecThrow, rows
      <4> QED BY <4>1, <4>2
    <3> QED BY <2>1, <2>2, <3>1 DEF StrandedInv
  <2>3. CASE ~Asked(Restarting)
    <3>1. /\ RunningIsWorked(r) /\ (count[r] < MaxWaves => EndsDecided(r))
          /\ created # {} /\ InitialTasks \subseteq created
        BY <2>3 DEF StrandedInv
    <3>2. RunningIsWorked(r)' /\ UNCHANGED created
        BY <1>2, <3>1, WorkedRun
    <3>3. count'[r] < MaxWaves => EndsDecided(r)'
      <4>1. count'[r] < MaxWaves => count[r] < MaxWaves
          BY <1>2, WavesAddUp, MissionAssumption
      <4> QED BY <1>2, <3>1, <4>1, EndsRun
    <3>4. \A q \in Runs : q = r
        BY DEF OneRunner
    <3> QED BY <3>1, <3>2, <3>3, <3>4 DEF StrandedInv
  <2> QED BY <2>2, <2>3
<1> QED BY <1>1, <1>2, StrandedCall DEF Next

\* With one orchestrator on a mission that has tasks, and any requests racing it
\* but those that set it going or give it work: a run that ended before its last
\* permitted wave does not leave the mission RUNNING (run(), reconcile()).  At
\* the ceiling, MAX_WAVES, it does: then work may be left that nobody resumes.
THEOREM MissionNotStranded ==
    OneRunner /\ InitialTasks # {} /\ Spec => []((\A r \in Runs : count[r] < MaxWaves) => NotStranded)
<1> DEFINE Given == OneRunner /\ InitialTasks # {}
           Inv   == TypeInv /\ CallsInPlace /\ RestsOutsideWave /\ StrandedInv
           Goal  == (\A r \in Runs : count[r] < MaxWaves) => NotStranded
<1>1. Given /\ Inv /\ [Next]_vars => Inv' /\ Given'
    BY TypeNext, CallsInPlaceNext, RestsNext, StrandedNext DEF OneRunner
<1>2. Init => Inv
  <2>1. Init => \A t \in Tasks : task[t].status = "PENDING"
      BY DEF Init
  <2>2. Init => \A r \in Runs : pc[r] = "idle" /\ op[r] = "none" /\ verdict[r] = "NONE"
      BY DEF Init, Procs
  <2>3. Init => StrandedInv
      BY <2>1, <2>2, MissionAssumption DEF Init, StrandedInv, RunningIsWorked, EndsDecided
  <2> QED BY <2>3, TypeInit, OneRunInit
<1>3. Inv => Goal
    BY DEF StrandedInv, NotStranded, EndsDecided, Restarting
<1> HIDE DEF Given, Inv, Goal
<1>4. Given /\ Spec => []Goal
    BY <1>1, <1>2, <1>3, PTL DEF Spec
<1> QED BY <1>4 DEF Given, Goal

-----------------------------------------------------------------------------
(* The job queue: crashes, stalled jobs and repeated requests.             *)

QueueInv == QueueTypeOK /\ WriteDecided

\* What the queue adds to the types of a mission.
QueueRowsOK ==
    /\ client \in [Clients -> {"idle", "checked", "accepted", "refused"}]
    /\ intent \in [Clients -> {"run", "resume"}]
    /\ job \in [JobIds -> JobRow]
    /\ crashes \in Nat /\ lost \in Nat

\* The two parts of the type invariant.
LEMMA QueueParts == QueueInv <=> TypeInv /\ QueueRowsOK
BY DEF QueueInv, QueueTypeOK, QueueRowsOK, TypeInv

\* Initially there is no job and nothing was asked.
LEMMA QueueTypeInit == QueueInit => QueueInv
BY TypeInit, QueueParts DEF QueueInit, QueueRowsOK, NoJob, JobRow, JobState

\* Every step that is not a crash is a step of the mission, or none.
LEMMA QueueIsMission ==
    ASSUME QueueInv, [QueueNext]_qvars, ~\E p \in Procs : Crash(p)
    PROVE  [Next]_vars
<1>1. ASSUME NEW r \in Runs, NEW k \in JobIds, Deliver(r, k) PROVE Next
  <2>1. job[k].intent \in {"run", "resume"} BY DEF QueueInv, QueueTypeOK, JobRow
  <2> QED BY <1>1, <2>1 DEF Deliver, Next
<1>2. ASSUME Engine PROVE Next BY <1>2 DEF Engine, Next
<1> QED BY <1>1, <1>2
        DEF QueueNext, qvars, Client, EnqueueCheck, EnqueueAdd, Worker, Complete, Rethrow,
            LoseLock, Stalled, Expire

\* A crash leaves every row as it is.
LEMMA CrashType == ASSUME QueueInv, NEW p \in Procs, Crash(p) PROVE TypeInv'
<1>1. WavesOK'
  <2>1. exec' = [r \in Runs |-> IF r = p THEN [t \in Tasks |-> "none"] ELSE exec[r]]
      BY DEF Crash
  <2>2. snap' = snap BY DEF Crash
  <2> QED BY <2>1, <2>2 DEF QueueInv, QueueTypeOK, TypeOK, WavesOK
<1>2. PcOK' /\ WriteDecided'
  <2>1. UNCHANGED verdict /\ Goto(p, "thrown") BY DEF Crash, local
  <2> QED BY <2>1, Move, MoveDecided, StepNames
          DEF QueueInv, QueueTypeOK, TypeOK, MissionSteps
<1> QED BY <1>1, <1>2, FrameRows, FrameLocal, FrameHistory
        DEF Crash, QueueInv, QueueTypeOK, TypeOK, TypeInv

\* What the queue writes into a job is a job.
LEMMA JobEdits ==
    ASSUME NEW j \in JobRow, NEW s \in JobState, NEW r \in Runs \union {NoRun}
    PROVE  /\ [j EXCEPT !.state = s, !.run = r] \in JobRow
           /\ [j EXCEPT !.run = r] \in JobRow
           /\ [j EXCEPT !.state = s, !.made = j.made + 1, !.run = r] \in JobRow
           /\ [j EXCEPT !.state = s, !.stalls = j.stalls + 1] \in JobRow
<1>1. [j EXCEPT !.state = s, !.run = r] \in JobRow BY DEF JobRow
<1>2. [j EXCEPT !.run = r] \in JobRow BY DEF JobRow
<1>3. ASSUME NEW n \in Nat PROVE [j EXCEPT !.state = s, !.made = n, !.run = r] \in JobRow
    BY <1>3 DEF JobRow
<1>4. ASSUME NEW n \in Nat PROVE [j EXCEPT !.state = s, !.stalls = n] \in JobRow
    BY <1>4 DEF JobRow
<1>5. j.made + 1 \in Nat /\ j.stalls + 1 \in Nat BY DEF JobRow
<1> QED BY <1>1, <1>2, <1>3, <1>4, <1>5

\* A new job is a job.
LEMMA NewJob ==
    /\ NoJob \in JobRow
    /\ \A i \in {"run", "resume"} : [NoJob EXCEPT !.state = "waiting", !.intent = i] \in JobRow
BY DEF NoJob, JobRow, JobState

\* A request, a job and its worker keep their types.
LEMMA QueueRowsNext == ASSUME QueueInv, [QueueNext]_qvars PROVE QueueRowsOK'
<1> USE QueueParts DEF QueueRowsOK
<1>a. {"none", "waiting", "active", "completed", "failed"} = JobState BY DEF JobState
<1>1. ASSUME NEW c \in Clients, EnqueueCheck(c) PROVE QueueRowsOK'
    BY <1>1, QueueAssumption DEF EnqueueCheck, Pick
<1>2. ASSUME NEW c \in Clients, EnqueueAdd(c) PROVE QueueRowsOK'
  <2>1. client' \in [Clients -> {"idle", "checked", "accepted", "refused"}]
      BY <1>2 DEF EnqueueAdd, Pick
  <2>2. \/ UNCHANGED job
        \/ job' = [job EXCEPT ![JobId(intent[c])] =
                      [NoJob EXCEPT !.state = "waiting", !.intent = intent[c]]]
      BY <1>2 DEF EnqueueAdd, SetJob
  <2>3. intent[c] \in {"run", "resume"} OBVIOUS
  <2> QED BY <1>2, <2>1, <2>2, <2>3, NewJob DEF EnqueueAdd
<1>3. ASSUME NEW r \in Runs, NEW k \in JobIds, Worker(r, k) \/ LoseLock(r, k)
      PROVE  QueueRowsOK'
  <2>1. UNCHANGED <<client, intent, crashes>> /\ lost' \in Nat
      BY <1>3 DEF Worker, Deliver, Complete, Rethrow, LoseLock
  <2>2. \E j \in JobRow : job' = [job EXCEPT ![k] = j]
    <3>1. job[k] \in JobRow OBVIOUS
    <3>2. CASE Deliver(r, k) BY <1>a, <3>1, <3>2, JobEdits DEF Deliver, SetJob
    <3>3. CASE Complete(r, k) BY <1>a, <3>1, <3>3, JobEdits DEF Complete, SetJob
    <3>4. CASE Rethrow(r, k) BY <1>a, <3>1, <3>4, JobEdits DEF Rethrow, SetJob
    <3>5. CASE LoseLock(r, k) BY <1>a, <3>1, <3>5, JobEdits DEF LoseLock, SetJob
    <3> QED BY <1>3, <3>2, <3>3, <3>4, <3>5 DEF Worker
  <2> QED BY <2>1, <2>2
<1>4. ASSUME NEW k \in JobIds, Stalled(k) \/ Expire(k) PROVE QueueRowsOK'
  <2>1. UNCHANGED <<client, intent, crashes, lost>> BY <1>4 DEF Stalled, Expire
  <2>2. \E j \in JobRow : job' = [job EXCEPT ![k] = j]
    <3>1. job[k] \in JobRow OBVIOUS
    <3>2. CASE Stalled(k) BY <1>a, <3>1, <3>2, JobEdits DEF Stalled, SetJob
    <3>3. CASE Expire(k) BY <3>3, NewJob DEF Expire, SetJob
    <3> QED BY <1>4, <3>2, <3>3
  <2> QED BY <2>1, <2>2
<1>5. ASSUME NEW p \in Procs, Crash(p) PROVE QueueRowsOK'
  <2>1. ASSUME NEW k \in JobIds PROVE job'[k] \in JobRow
    <3>1. job[k] \in JobRow /\ job[k].state \in JobState BY DEF JobRow
    <3>2. [job[k] EXCEPT !.run = NoRun] \in JobRow BY <3>1, JobEdits
    <3>3. job'[k] = IF Held(p, k) THEN [job[k] EXCEPT !.run = NoRun] ELSE job[k]
        BY <1>5 DEF Crash
    <3> QED BY <3>1, <3>2, <3>3
  <2>2. job' \in [JobIds -> JobRow] BY <1>5, <2>1 DEF Crash
  <2> QED BY <1>5, <2>2 DEF Crash
<1>6. CASE Engine /\ UNCHANGED queue BY <1>6 DEF queue
<1>7. CASE UNCHANGED qvars BY <1>7 DEF qvars
<1> QED BY <1>1, <1>2, <1>3, <1>4, <1>5, <1>6, <1>7 DEF QueueNext, Client

\* Every step keeps the types.
LEMMA QueueTypeNext == QueueInv /\ [QueueNext]_qvars => QueueInv'
<1> SUFFICES ASSUME QueueInv, [QueueNext]_qvars PROVE QueueInv'
    OBVIOUS
<1>1. TypeInv'
    BY QueueIsMission, CrashType, TypeNext, QueueParts
<1>2. QueueRowsOK' BY QueueRowsNext
<1>3. QueueInv' <=> TypeInv' /\ QueueRowsOK'
    BY DEF QueueInv, QueueTypeOK, QueueRowsOK, TypeInv
<1> QED BY <1>1, <1>2, <1>3

\* Type correctness of the queue and of the mission behind it, whatever
\* crashes, stalls and expiries happen.
THEOREM QueueTypeCorrect == QueueSpec => []QueueTypeOK
<1>1. QueueInv => QueueTypeOK BY DEF QueueInv
<1> QED BY <1>1, QueueTypeInit, QueueTypeNext, PTL DEF QueueSpec
-----------------------------------------------------------------------------
\* A crash neither begins nor produces anything, and forgets the wave.
LEMMA CrashGraph ==
    ASSUME QueueInv, GraphInv, NEW p \in Procs, Crash(p)
    PROVE  GraphInv' /\ UNCHANGED Graph!vars
<1>1. \A r \in Runs, t \in Tasks : exec'[r][t] \in {exec[r][t], "none"} BY DEF Crash
<1>2. UNCHANGED task /\ UNCHANGED history BY DEF Crash, rows
<1> QED BY <1>1, <1>2, GraphFrame

\* The order of the task graph survives crashes in the middle of a task, jobs
\* handed to a second worker and jobs enqueued again (QueueService).
THEOREM QueueGraphSurvives == QueueSpec => GraphSurvives
<1>1. QueueInit => QueueInv /\ GraphInv /\ Graph!Init
    BY QueueTypeInit, GraphInit DEF QueueInit
<1>2. QueueInv /\ GraphInv /\ [QueueNext]_qvars
          => QueueInv' /\ GraphInv' /\ [Graph!Next]_(Graph!vars)
    BY QueueTypeNext, QueueIsMission, CrashGraph, GraphNext, QueueParts
<1> QED BY <1>1, <1>2, PTL DEF QueueSpec, GraphSurvives, Graph!Spec
-----------------------------------------------------------------------------
(* One orchestrator: as long as no lock was lost, a run that is under way    *)
(* holds the one job there is.                                               *)
NoOtherJob == \A k \in JobIds \ {"mission"} : job[k].state = "none"
RunsHoldIt == \A r \in Runs : Walking(r) => Held(r, "mission")
OneJob == NoOtherJob /\ (lost = 0 => RunsHoldIt)

\* No step of the mission engine puts a run under way.
LEMMA EngineWalks ==
    ASSUME QueueInv, Engine, NEW s \in Runs, Walking(s)'
    PROVE  Walking(s)
<1> USE DEF Goto, QueueInv, QueueTypeOK, TypeOK, PcOK, Procs
<1>1. ASSUME NEW p \in Procs, Plan(p) PROVE Walking(s)
    BY <1>1 DEF Plan, PlanRead, PlanQueue, PlanMark, PlanFail, PlanCheck, PlanAssign, PlanDone,
                PlanWrite, Walking
<1>2. ASSUME NEW p \in Procs, MissionGone(p) PROVE Walking(s)
    BY <1>2 DEF MissionGone, Walking
<1>3. ASSUME NEW r \in Runs, Run(r) PROVE Walking(s)
  <2>1. CASE \/ RunRead(r) \/ RunQueue(r) \/ Activate(r) \/ Loop(r) \/ Select(r) \/ Slice(r)
             \/ WaveDone(r)
      BY <2>1 DEF RunRead, RunQueue, Activate, PlanWrite, Loop, Select, Slice, WaveDone, Walking
  <2>2. CASE \/ ReconcileRead(r) \/ ReconcileDecide(r) \/ ReconcileBlocked(r)
             \/ ReconcileWrite(r) \/ Totals(r)
      BY <2>2 DEF ReconcileRead, ReconcileDecide, ReconcileBlocked, ReconcileWrite, Totals,
                  AfterReconcile, Walking
  <2>3. ASSUME NEW t \in Tasks, Execute(r, t) PROVE Walking(s)
      BY <2>3 DEF Execute, ExecUnassigned, ExecStart, ExecSucceed, ExecFail, ExecThrow, Walking
  <2> QED BY <1>1, <1>2, <1>3, <2>1, <2>2, <2>3 DEF Run
<1>4. ASSUME NEW c \in Calls, Call(c) \/ \E request \in Requests : CallBegin(c, request)
      PROVE  Walking(s)
  <2>1. c # s BY MissionAssumption
  <2>2. CASE Plan(c) \/ MissionGone(c) BY <1>1, <1>2, <2>2
  <2>3. CASE ~(Plan(c) \/ MissionGone(c))
    <3>1. \/ pc' = pc
          \/ \E step : pc' = [pc EXCEPT ![c] = step]
        BY <1>4, <2>3
        DEF Call, CallBegin, ControlRead, ControlWrite, SkipRead, Skip, RetryRead, ResetRead,
            Reset, RetryWrite, RemoveRead, RemoveWrite, AddTask, UpdateRead, UpdateWrite,
            RecalcTasks, RecalcMission, RecalcWrite
    <3> QED BY <2>1, <3>1 DEF Walking
  <2> QED BY <2>2, <2>3
<1> QED BY <1>3, <1>4 DEF Engine

\* No job but the mission's is ever made, taken or given up.
LEMMA NoOtherJobNext ==
    ASSUME QueueInv, NoOtherJob, [QueueNext]_qvars
    PROVE  NoOtherJob'
<1> USE DEF NoOtherJob, JobIds
<1>a. job \in [JobIds -> JobRow] BY DEF QueueInv, QueueTypeOK
<1>1. ASSUME NEW c \in Clients, Client(c) PROVE NoOtherJob'
    BY <1>a, <1>1 DEF Client, EnqueueCheck, EnqueueAdd, SetJob, JobId
<1>2. ASSUME NEW r \in Runs, NEW k \in JobIds, Worker(r, k) \/ LoseLock(r, k)
      PROVE  NoOtherJob'
  <2>1. k = "mission" BY <1>2 DEF Worker, Deliver, Complete, Rethrow, LoseLock, Held
  <2>2. \E j : job' = [job EXCEPT !["mission"] = j]
      BY <1>2, <2>1 DEF Worker, Deliver, Complete, Rethrow, LoseLock, SetJob
  <2> QED BY <1>a, <2>2
<1>3. ASSUME NEW k \in JobIds, Stalled(k) \/ Expire(k) PROVE NoOtherJob'
  <2>1. k = "mission" BY <1>3 DEF Stalled, Expire
  <2>2. \E j : job' = [job EXCEPT !["mission"] = j] BY <1>3, <2>1 DEF Stalled, Expire, SetJob
  <2> QED BY <1>a, <2>2
<1>4. ASSUME NEW p \in Procs, Crash(p) PROVE NoOtherJob'
    BY <1>a, <1>4 DEF Crash, Held
<1>5. CASE Engine /\ UNCHANGED queue BY <1>5 DEF queue
<1>6. CASE UNCHANGED qvars BY <1>6 DEF qvars
<1> QED BY <1>1, <1>2, <1>3, <1>4, <1>5, <1>6 DEF QueueNext

\* Every step but the loss of a lock keeps the run under way the holder of the
\* job.
LEMMA RunsHoldItNext ==
    ASSUME QueueInv, NoOtherJob, RunsHoldIt, [QueueNext]_qvars,
           ~\E r \in Runs, k \in JobIds : LoseLock(r, k)
    PROVE  RunsHoldIt'
<1> USE DEF NoOtherJob, RunsHoldIt, JobIds
<1>a. job \in [JobIds -> JobRow] BY DEF QueueInv, QueueTypeOK
<1>1. ASSUME NEW c \in Clients, Client(c) PROVE RunsHoldIt'
  <2>1. UNCHANGED pc BY <1>1 DEF Client, EnqueueCheck, EnqueueAdd, vars
  <2>2. \/ UNCHANGED job
        \/ /\ job["mission"].state = "none"
           /\ \E j : job' = [job EXCEPT !["mission"] = j]
      BY <1>1 DEF Client, EnqueueCheck, EnqueueAdd, SetJob, JobId
  <2> QED BY <1>a, <2>1, <2>2 DEF Walking, Held
<1>2. ASSUME NEW r \in Runs, NEW k \in JobIds, Worker(r, k) PROVE RunsHoldIt'
  <2>1. k = "mission" BY <1>2 DEF Worker, Deliver, Complete, Rethrow, Held
  <2>2. CASE Deliver(r, k)
    <3>1. \A s \in Runs : ~Walking(s) BY <2>1, <2>2 DEF Deliver, Held
    <3>2. \A s \in Runs \ {r} : pc'[s] = pc[s]
        BY <2>2 DEF Deliver, RunBegin, Goto, QueueInv, QueueTypeOK, TypeOK, PcOK, Procs
    <3>3. job'["mission"].state = "active" /\ job'["mission"].run = r
        BY <1>a, <2>1, <2>2 DEF Deliver, SetJob
    <3>4. \A j \in JobIds \ {"mission"} : job'[j] = job[j]
        BY <1>a, <2>1, <2>2 DEF Deliver, SetJob
    <3> QED BY <3>1, <3>2, <3>3, <3>4 DEF Walking, Held
  <2>3. CASE Complete(r, k) \/ Rethrow(r, k)
    <3>1. \A s \in Runs : ~Walking(s)
        BY <2>1, <2>3 DEF Complete, Rethrow, Held, Walking
    <3>2. UNCHANGED pc BY <2>3 DEF Complete, Rethrow, vars
    <3>3. \A j \in JobIds \ {"mission"} : job'[j] = job[j]
        BY <1>a, <2>1, <2>3 DEF Complete, Rethrow, SetJob
    <3> QED BY <3>1, <3>2, <3>3 DEF Walking
  <2> QED BY <1>2, <2>2, <2>3 DEF Worker
<1>3. ASSUME NEW k \in JobIds, Stalled(k) \/ Expire(k) PROVE RunsHoldIt'
  <2>1. k = "mission" BY <1>3 DEF Stalled, Expire
  <2>2. \A s \in Runs : ~Walking(s)
      BY <1>3, <2>1, QueueAssumption DEF Stalled, Expire, Held
  <2>3. UNCHANGED pc BY <1>3 DEF Stalled, Expire, vars
  <2>4. \A j \in JobIds \ {"mission"} : job'[j] = job[j]
      BY <1>a, <1>3, <2>1 DEF Stalled, Expire, SetJob
  <2> QED BY <2>2, <2>3, <2>4 DEF Walking
<1>4. ASSUME NEW p \in Procs, Crash(p) PROVE RunsHoldIt'
  <2>1. \A s \in Runs : Walking(s)' => s # p /\ Walking(s)
      BY <1>4 DEF Crash, Goto, Walking, QueueInv, QueueTypeOK, TypeOK, PcOK
  <2>2. \A j \in JobIds : /\ job'[j].state = job[j].state
                          /\ job[j].run # p => job'[j].run = job[j].run
      BY <1>4, <1>a DEF Crash, Held
  <2> QED BY <2>1, <2>2 DEF Held
<1>5. CASE Engine /\ UNCHANGED queue
    BY <1>5, EngineWalks DEF queue, Held
<1>6. CASE UNCHANGED qvars BY <1>6 DEF qvars, vars, Walking, Held
<1> QED BY <1>1, <1>2, <1>3, <1>4, <1>5, <1>6 DEF QueueNext

\* A step after which no lock was lost did not lose one.
LEMMA LostGrows ==
    ASSUME QueueInv, [QueueNext]_qvars, lost' = 0
    PROVE  lost = 0 /\ ~\E r \in Runs, k \in JobIds : LoseLock(r, k)
<1>1. lost \in Nat BY DEF QueueInv, QueueTypeOK
<1>2. ASSUME NEW r \in Runs, NEW k \in JobIds, LoseLock(r, k) PROVE FALSE
  <2>1. lost' = lost + 1 BY <1>2 DEF LoseLock
  <2> QED BY <1>1, <2>1
<1>3. UNCHANGED lost
    BY <1>2 DEF QueueNext, Client, EnqueueCheck, EnqueueAdd, Worker, Deliver, Complete, Rethrow,
                Stalled, Expire, Crash, queue, qvars
<1> QED BY <1>2, <1>3

\* Every step keeps the two together.
LEMMA OneJobNext == QueueInv /\ OneJob /\ [QueueNext]_qvars => OneJob'
<1> SUFFICES ASSUME QueueInv, OneJob, [QueueNext]_qvars PROVE OneJob'
    OBVIOUS
<1>1. NoOtherJob' BY NoOtherJobNext DEF OneJob
<1>2. lost' = 0 => RunsHoldIt' BY LostGrows, RunsHoldItNext DEF OneJob
<1> QED BY <1>1, <1>2 DEF OneJob

\* As long as no live worker lost its lock there is never a second orchestrator
\* on the mission, however often it is executed, resumed, crashed and
\* redelivered (enqueueMission keys the job on the mission alone).
THEOREM OneOrchestratorAlways == QueueSpec => []OneOrchestrator
<1>1. QueueInit => OneJob
    BY DEF QueueInit, Init, OneJob, NoOtherJob, RunsHoldIt, NoJob, JobIds, Walking, Procs
<1>2. OneJob => OneOrchestrator BY DEF OneJob, RunsHoldIt, OneOrchestrator, Held
<1> QED BY <1>1, <1>2, OneJobNext, QueueTypeInit, QueueTypeNext, PTL DEF QueueSpec
-----------------------------------------------------------------------------
\* A crash forgets the wave and writes no row.
LEMMA CrashAttempts ==
    ASSUME QueueInv, AttemptsInv, NEW p \in Procs, Crash(p) PROVE AttemptsInv'
<1>1. \A r \in Runs, t \in Tasks : exec'[r][t] # "none" => exec[r][t] # "none" BY DEF Crash
<1>2. UNCHANGED <<task, snap, op>> BY DEF Crash, rows, local
<1>3. NoEdit'
  <2>1. \A c \in Calls : pc'[c] = pc[c] \/ pc'[c] = "thrown"
      BY DEF Crash, Goto, QueueInv, QueueTypeOK, TypeOK, PcOK, Procs
  <2> QED BY <1>2, <2>1 DEF AttemptsInv, NoEdit
<1> QED BY <1>1, <1>2, <1>3, AttemptsFrame DEF AttemptsInv

\* Where operators edit no task: the bound on a task's attempts survives crashes
\* in the middle of a task, jobs handed to a second worker while the first
\* carries on, and jobs enqueued again.
THEOREM QueueAttemptsBounded == NoOperatorEdits /\ QueueSpec => []AttemptsBounded
<1>1. NoOperatorEdits /\ QueueInv /\ AttemptsInv /\ [QueueNext]_qvars
          => NoOperatorEdits' /\ QueueInv' /\ AttemptsInv'
  <2> SUFFICES ASSUME NoOperatorEdits, QueueInv, AttemptsInv, [QueueNext]_qvars
               PROVE  NoOperatorEdits' /\ QueueInv' /\ AttemptsInv'
      OBVIOUS
  <2>1. QueueInv' /\ NoOperatorEdits' BY QueueTypeNext DEF NoOperatorEdits
  <2>2. CASE \E p \in Procs : Crash(p) BY <2>1, <2>2, CrashAttempts
  <2>3. CASE ~\E p \in Procs : Crash(p)
    <3>1. [Next]_vars /\ TypeInv BY <2>3, QueueIsMission, QueueParts
    <3> QED BY <2>1, <3>1, NoEditNext, AttemptsNext DEF AttemptsInv
  <2> QED BY <2>2, <2>3
<1>2. QueueInit => QueueInv /\ AttemptsInv BY QueueTypeInit, AttemptsInit DEF QueueInit
<1>3. AttemptsInv => AttemptsBounded BY DEF AttemptsInv
<1> QED BY <1>1, <1>2, <1>3, PTL DEF QueueSpec
-----------------------------------------------------------------------------
(* Stuck only by a crash.  Without crashes and lost locks the status is       *)
(* RUNNING or PLANNING only in the care of the one orchestrator that walks,   *)
(* or while a retry is under way that will write QUEUED.  The retry may        *)
(* reopen tasks behind the orchestrator's back, which can then end without a   *)
(* decision: that is why the two are one invariant.                            *)

Plain == Requests \subseteq {"pause", "retry"}

RetrySteps == {"resetRead", "reset", "retryWrite"}
Reviving   == \E c \in Calls : pc[c] \in RetrySteps
PlainCalls ==
    \A c \in Calls :
        /\ op[c] \in {"none", "pause", "retry"}
        /\ pc[c] = "idle" => op[c] = "none"
        /\ pc[c] = "write" => op[c] = "pause"
        /\ pc[c] \in RetrySteps => op[c] = "retry"
        /\ pc[c] \in {"idle", "read", "write", "thrown", "done"} \union RetrySteps

HandsFree   == \A r \in Runs : pc[r] # "wave" => Resting(r)
TasksWorked == \A t \in created : task[t].status = "RUNNING" => \E r \in Runs : exec[r][t] = "working"

PlanningSteps == {"planCheck", "planAssign", "planFail", "planDone", "activate"}
WalkingSteps  == {"loop", "select", "wave", "recRead", "recDecide", "recBlocked", "recWrite"}
Attended ==
    /\ mission.status = "PLANNING" => \E r \in Runs : pc[r] \in PlanningSteps
    /\ mission.status = "RUNNING" => Reviving \/ \E r \in Runs : pc[r] \in WalkingSteps
    /\ \A r \in Runs : pc[r] \in {"queue", "planRead", "planQueue", "planMark"} =>
          mission.status \notin {"RUNNING", "PLANNING"}
Decides(r) ==
    /\ verdict[r] \in {"NONE", "WAITING", "COMPLETED", "FAILED"}
    /\ op[r] = "final" /\ mission.status = "RUNNING" /\ ~Reviving =>
          /\ pc[r] \in {"recRead", "recDecide", "recBlocked"} => Runnable = {}
          /\ pc[r] \in {"recBlocked", "recWrite"} => verdict[r] # "NONE"

Below  == \A r \in Runs : count[r] < MaxWaves
Minded == /\ Present /\ InitialTasks \subseteq created
          /\ PlainCalls /\ HandsFree /\ TasksWorked /\ Attended
          /\ \A r \in Runs : Decides(r)
StuckInv == crashes = 0 /\ lost = 0 /\ Below => Minded

\* What is assumed of the instance.
PlainMission == Plain /\ WorkersReliable /\ InitialTasks # {}

\* A request to pause or retry, all it does.
LEMMA PlainCallLeaves ==
    ASSUME PlainMission, TypeInv, Minded, NEW c \in Calls,
           Call(c) \/ \E request \in Requests : CallBegin(c, request)
    PROVE  /\ UNCHANGED <<created, exec>> /\ Present'
           /\ PlainCalls'
           /\ mission'.status \in {mission.status, "PAUSED", "QUEUED"}
           /\ \A t \in Tasks : task'[t].status \in {task[t].status, "PENDING"}
           /\ ~Reviving' => UNCHANGED task /\ (Reviving => mission'.status = "QUEUED")
<1> USE DEF TypeInv, TypeOK, Procs, Goto, PcOK, LocalOK, RowsOK
<1>1. UNCHANGED exec /\ \A d \in Calls \ {c} : pc'[d] = pc[d] /\ op'[d] = op[d]
    BY CallKeepsRuns
<1>2. PlainCalls /\ Present
    BY DEF Minded
<1>3. ASSUME NEW request \in Requests, CallBegin(c, request)
      PROVE  /\ UNCHANGED <<created, task, mission>> /\ op'[c] \in {"pause", "retry"} /\ pc'[c] = "read" /\ pc[c] = "idle"
    BY <1>3 DEF CallBegin, PlainMission, Plain, rows
<1>4. CASE ControlRead(c)
  <2>1. UNCHANGED <<created, task, mission, op>> /\ pc[c] = "read"
      BY <1>4 DEF ControlRead, rows, local
  <2>2. op[c] = "pause" /\ pc'[c] \in {"write", "thrown"}
      BY <1>2, <1>4 DEF ControlRead, PlainCalls, Target
  <2> QED BY <1>1, <1>2, <2>1, <2>2 DEF PlainCalls, Reviving, RetrySteps, Present
<1>5. CASE ControlWrite(c)
  <2>1. UNCHANGED <<created, task, op>> /\ pc[c] = "write" /\ op[c] = "pause"
      BY <1>2, <1>5 DEF ControlWrite, local, PlainCalls
  <2>2. mission'.status = "PAUSED" /\ mission'.deleted = mission.deleted /\ pc'[c] = "done"
      BY <1>5, <2>1 DEF ControlWrite, SetStatus, Target
  <2> QED BY <1>1, <1>2, <2>1, <2>2 DEF PlainCalls, Reviving, RetrySteps, Present
<1>6. CASE RetryRead(c)
  <2>1. UNCHANGED <<created, task, mission, op>> /\ pc[c] = "read" /\ op[c] = "retry" /\ pc'[c] \in {"resetRead", "thrown"}
      BY <1>6 DEF RetryRead, rows
  <2> QED BY <1>1, <1>2, <2>1 DEF PlainCalls, Reviving, RetrySteps, Present
<1>7. CASE ResetRead(c)
  <2>1. UNCHANGED <<created, task, mission, op>> /\ pc[c] = "resetRead" /\ pc'[c] = "reset"
      BY <1>7 DEF ResetRead, rows
  <2> QED BY <1>1, <1>2, <2>1 DEF PlainCalls, Reviving, RetrySteps, Present
<1>8. CASE Reset(c)
  <2>1. UNCHANGED <<created, mission, op>> /\ pc[c] = "reset" /\ pc'[c] \in {"reset", "retryWrite"}
      BY <1>8 DEF Reset
  <2>2. UNCHANGED task \/ \E t \in held[c] : task' = [task EXCEPT ![t].status = "PENDING", ![t].attempts = 0]
      BY <1>8 DEF Reset
  <2>3. ASSUME NEW t \in held[c], task' = [task EXCEPT ![t].status = "PENDING", ![t].attempts = 0]
        PROVE  \A u \in Tasks : task'[u].status \in {task[u].status, "PENDING"}
      BY <2>3 DEF TaskRow
  <2> QED BY <1>1, <1>2, <2>1, <2>2, <2>3 DEF PlainCalls, Reviving, RetrySteps, Present
<1>9. CASE RetryWrite(c)
  <2>1. UNCHANGED <<created, task, op>> /\ pc[c] = "retryWrite" /\ pc'[c] = "done"
      BY <1>9 DEF RetryWrite, local
  <2>2. mission'.status = "QUEUED" /\ mission'.deleted = mission.deleted
      BY <1>9 DEF RetryWrite
  <2> QED BY <1>1, <1>2, <2>1, <2>2 DEF PlainCalls, Reviving, RetrySteps, Present
<1>10. Call(c) => \/ ControlRead(c) \/ ControlWrite(c) \/ RetryRead(c) \/ ResetRead(c) \/ Reset(c) \/ RetryWrite(c)
  <2>1. op[c] \in {"none", "pause", "retry"} /\ pc[c] \in {"idle", "read", "write", "thrown", "done"} \union RetrySteps
      BY <1>2 DEF PlainCalls
  <2>2. ~Plan(c)
      BY <2>1 DEF Plan, PlanRead, PlanQueue, PlanMark, PlanFail, PlanWrite, PlanCheck, PlanAssign, PlanDone, RetrySteps
  <2>3. ~SkipRead(c) /\ ~Skip(c) /\ ~RemoveRead(c) /\ ~RemoveWrite(c) /\ ~AddTask(c)
      BY <2>1 DEF SkipRead, Skip, RemoveRead, RemoveWrite, AddTask, RetrySteps
  <2>4. ~UpdateRead(c) /\ ~UpdateWrite(c) /\ ~RecalcTasks(c) /\ ~RecalcMission(c) /\ ~RecalcWrite(c)
      BY <2>1 DEF UpdateRead, UpdateWrite, RecalcTasks, RecalcMission, RecalcWrite, RetrySteps
  <2>5. ~MissionGone(c)
      BY <1>2 DEF MissionGone, Present
  <2> QED BY <2>2, <2>3, <2>4, <2>5 DEF Call
<1>11. CASE \E request \in Requests : CallBegin(c, request)
  <2>1. /\ UNCHANGED <<created, task, mission>> /\ op'[c] \in {"pause", "retry"} /\ pc'[c] = "read" /\ pc[c] = "idle"
      BY <1>3, <1>11
  <2> QED BY <1>1, <1>2, <2>1 DEF PlainCalls, Reviving, RetrySteps, Present
<1> QED BY <1>4, <1>5, <1>6, <1>7, <1>8, <1>9, <1>10, <1>11

\* Requests leave the mission in the care it was in.
LEMMA MindedCall ==
    ASSUME PlainMission, TypeInv, Minded, NEW c \in Calls,
           Call(c) \/ \E request \in Requests : CallBegin(c, request)
    PROVE  Minded' /\ \A r \in Runs : count'[r] = count[r]
<1>1. /\ UNCHANGED <<created, exec>> /\ Present' /\ PlainCalls'
      /\ mission'.status \in {mission.status, "PAUSED", "QUEUED"}
      /\ \A t \in Tasks : task'[t].status \in {task[t].status, "PENDING"}
      /\ ~Reviving' => UNCHANGED task /\ (Reviving => mission'.status = "QUEUED")
    BY PlainCallLeaves
<1>2. \A r \in Runs : pc'[r] = pc[r] /\ op'[r] = op[r] /\ count'[r] = count[r] /\ verdict'[r] = verdict[r]
    BY CallKeepsRuns
<1>3. \A t \in created : t \in Tasks
    BY DEF TypeInv, TypeOK, RowsOK
<1>4. HandsFree' /\ TasksWorked'
    BY <1>1, <1>2, <1>3 DEF Minded, HandsFree, TasksWorked, Resting
<1>5. mission'.status = "RUNNING" => mission.status = "RUNNING" /\ (Reviving => Reviving')
    BY <1>1
<1>6. mission'.status = "PLANNING" => mission.status = "PLANNING"
    BY <1>1
<1>7. Attended'
    BY <1>2, <1>5, <1>6 DEF Minded, Attended
<1>8. ASSUME NEW r \in Runs PROVE Decides(r)'
  <2>1. Decides(r)
      BY DEF Minded
  <2>2. mission'.status = "RUNNING" /\ ~Reviving' => mission.status = "RUNNING" /\ ~Reviving /\ Runnable' = Runnable
      BY <1>1, <1>5 DEF Runnable, WithStatus
  <2> QED BY <1>2, <2>1, <2>2 DEF Decides
<1> QED BY <1>1, <1>2, <1>4, <1>7, <1>8 DEF Minded

\* A run that moves walks, and as it holds the job the others do not.
LEMMA RunIsAlone ==
    ASSUME TypeInv, Minded, RunsHoldIt, NEW r \in Runs, Run(r)
    PROVE  /\ pc[r] \notin {"idle", "done", "thrown"}
           /\ \A q \in Runs \ {r} : pc[q] \in {"idle", "done", "thrown"}
<1>1. pc[r] \notin {"idle", "done", "thrown"}
  <2>1. ASSUME NEW t \in Tasks, Execute(r, t) PROVE pc[r] = "wave"
      BY <2>1 DEF Minded, HandsFree, Resting, Execute, ExecUnassigned, ExecStart, ExecSucceed, ExecFail, ExecThrow
  <2>2. ~(\E t \in Tasks : Execute(r, t)) => pc[r] \notin {"idle", "done", "thrown"}
      BY DEF Run, RunRead, RunQueue, Activate, PlanWrite, Loop, Select, Slice, WaveDone, ReconcileRead,
             ReconcileDecide, ReconcileBlocked, ReconcileWrite, Totals, MissionGone, MissionSteps,
             Plan, PlanRead, PlanQueue, PlanMark, PlanFail, PlanCheck, PlanAssign, PlanDone
  <2> QED BY <2>1, <2>2
<1> QED BY <1>1 DEF RunsHoldIt, Walking, Held

\* What a run keeps: the tasks there are, the mission undeleted, the requests.
LEMMA RunLeaves ==
    ASSUME TypeInv, Minded, NEW r \in Runs, Run(r) \/ \E i \in {"run", "resume"} : RunBegin(r, i)
    PROVE  /\ UNCHANGED created /\ Present' /\ PlainCalls' /\ Reviving' = Reviving
           /\ \A q \in Runs \ {r} : pc'[q] = pc[q] /\ exec'[q] = exec[q] /\ verdict'[q] = verdict[q]
<1> USE DEF TypeInv, TypeOK, Procs, RowsOK, LocalOK
<1>1. UNCHANGED created /\ mission'.deleted = mission.deleted
  <2>1. CASE Plan(r)
      BY <2>1, PlanLeaves DEF SetStatus
  <2>2. CASE \/ RunRead(r) \/ RunQueue(r) \/ Activate(r) \/ Loop(r) \/ Select(r) \/ Slice(r) \/ WaveDone(r)
             \/ ReconcileRead(r) \/ ReconcileDecide(r) \/ ReconcileBlocked(r) \/ ReconcileWrite(r) \/ Totals(r)
             \/ MissionGone(r) \/ \E i \in {"run", "resume"} : RunBegin(r, i)
      BY <2>2 DEF RunRead, RunQueue, Activate, PlanWrite, Loop, Select, Slice, WaveDone, ReconcileRead,
              ReconcileDecide, ReconcileBlocked, ReconcileWrite, Totals, MissionGone, RunBegin, rows, SetStatus
  <2>3. ASSUME NEW t \in Tasks, Execute(r, t) PROVE UNCHANGED <<created, mission>>
      BY <2>3 DEF Execute, ExecUnassigned, ExecStart, ExecSucceed, ExecFail, ExecThrow, rows
  <2> QED BY <2>1, <2>2, <2>3 DEF Run
<1>2. PlainCalls' /\ Reviving' = Reviving
    BY RunKeepsCalls DEF Minded, PlainCalls, Reviving
<1>3. \A q \in Runs \ {r} : verdict'[q] = verdict[q]
  <2>1. CASE Plan(r)
      BY <2>1, PlanLeaves
  <2>2. CASE ~Plan(r)
    <3>1. UNCHANGED verdict \/ \E v : verdict' = [verdict EXCEPT ![r] = v]
        BY <2>2 DEF Run, RunRead, RunQueue, Activate, PlanWrite, Loop, Select, Slice, WaveDone, ReconcileRead,
              ReconcileDecide, ReconcileBlocked, ReconcileWrite, Totals, MissionGone, RunBegin, local,
              Execute, ExecUnassigned, ExecStart, ExecSucceed, ExecFail, ExecThrow
    <3> QED BY <3>1
  <2> QED BY <2>1, <2>2
<1>4. mission.deleted = FALSE
    BY DEF Minded, Present
<1> QED BY <1>1, <1>2, <1>3, <1>4, RunKeepsRuns DEF Present

\* With reliable workers a run has tasks in hand only within a wave, and no task
\* is RUNNING but in somebody's hand.
LEMMA HandsRun ==
    ASSUME PlainMission, TypeInv, Minded, NEW r \in Runs, Run(r) \/ \E i \in {"run", "resume"} : RunBegin(r, i)
    PROVE  HandsFree' /\ TasksWorked'
<1> USE DEF TypeInv, TypeOK, Procs, Goto, PcOK, RowsOK, WavesOK
<1>1. HandsFree /\ TasksWorked /\ \A q \in Runs \ {r} : pc'[q] = pc[q] /\ exec'[q] = exec[q]
    BY RunLeaves DEF Minded
<1>2. UNCHANGED created
    BY RunLeaves
<1>3. ASSUME UNCHANGED exec, pc[r] # "wave", \A t \in Tasks : task'[t].status = task[t].status
      PROVE  HandsFree' /\ TasksWorked'
  <2>1. \A q \in Runs : Resting(q)' = Resting(q)
      BY <1>3 DEF Resting
  <2> QED BY <1>1, <1>2, <1>3, <2>1 DEF HandsFree, TasksWorked
<1>4. CASE Plan(r)
  <2>1. pc[r] # "wave"
      BY <1>4 DEF Plan, PlanRead, PlanQueue, PlanMark, PlanFail, PlanWrite, PlanCheck, PlanAssign, PlanDone
  <2> QED BY <1>3, <1>4, <2>1, PlanLeaves
<1>5. CASE \/ RunRead(r) \/ RunQueue(r) \/ Activate(r) \/ Loop(r)
           \/ ReconcileRead(r) \/ ReconcileDecide(r) \/ ReconcileBlocked(r)
           \/ ReconcileWrite(r) \/ Totals(r) \/ MissionGone(r)
           \/ \E i \in {"run", "resume"} : RunBegin(r, i)
  <2>1. UNCHANGED <<exec, task>>
      BY <1>5
      DEF RunRead, RunQueue, Activate, PlanWrite, Loop, ReconcileRead,
          ReconcileDecide, ReconcileBlocked, ReconcileWrite, Totals, MissionGone, RunBegin, waves, rows
  <2>2. pc[r] # "wave"
      BY <1>5
      DEF RunRead, RunQueue, Activate, PlanWrite, Loop, ReconcileRead,
          ReconcileDecide, ReconcileBlocked, ReconcileWrite, Totals, MissionGone, RunBegin, MissionSteps
  <2> QED BY <1>3, <2>1, <2>2
<1>6. CASE Select(r)
  <2>1. UNCHANGED task /\ pc[r] # "wave" /\ Resting(r)
      BY <1>1, <1>6 DEF Select, rows, HandsFree
  <2>2. CASE UNCHANGED waves
      BY <1>3, <2>1, <2>2 DEF waves
  <2>3. CASE Goto(r, "wave")
      BY <1>1, <1>2, <2>1, <2>3 DEF HandsFree, TasksWorked, Resting
  <2> QED BY <1>6, <2>2, <2>3 DEF Select
<1>7. CASE Slice(r)
  <2>1. UNCHANGED <<pc, task>> /\ pc[r] = "wave"
      BY <1>7 DEF Slice, rows
  <2>2. \A t \in Tasks : exec[r][t] = "working" => exec'[r][t] = "working"
      BY <1>7 DEF Slice, InPhase
  <2>3. HandsFree'
      BY <1>1, <2>1 DEF HandsFree, Resting
  <2>4. ASSUME NEW u \in created, task'[u].status = "RUNNING" PROVE \E q \in Runs : exec'[q][u] = "working"
    <3>1. PICK q \in Runs : exec[q][u] = "working"
        BY <1>1, <2>1, <2>4 DEF TasksWorked
    <3>2. exec'[q][u] = "working"
        BY <1>1, <2>2, <3>1
    <3> QED BY <3>2
  <2> QED BY <1>2, <2>3, <2>4 DEF TasksWorked
<1>8. CASE WaveDone(r)
  <2>1. UNCHANGED <<exec, task>> /\ Resting(r)
      BY <1>8 DEF WaveDone, waves, rows, InPhase, Resting
  <2> QED BY <1>1, <1>2, <2>1 DEF HandsFree, TasksWorked, Resting
<1>9. ASSUME NEW t \in Tasks, Execute(r, t) PROVE HandsFree' /\ TasksWorked'
  <2>1. ~ExecThrow(r, t)
      BY DEF ExecThrow, PlainMission
  <2>2. pc[r] = "wave"
      BY <1>1, <1>9 DEF HandsFree, Resting, Execute, ExecUnassigned, ExecStart, ExecSucceed, ExecFail, ExecThrow
  <2>3. UNCHANGED pc /\ \A u \in Tasks \ {t} : exec'[r][u] = exec[r][u] /\ task'[u] = task[u]
      BY <1>9, <2>1 DEF Execute, ExecUnassigned, ExecStart, ExecSucceed, ExecFail, Phase
  <2>4. task'[t].status = "RUNNING" => exec'[r][t] = "working"
      BY <1>9, <2>1 DEF Execute, ExecUnassigned, ExecStart, ExecSucceed, ExecFail, Phase, TaskRow
  <2>5. HandsFree'
      BY <1>1, <2>2, <2>3 DEF HandsFree, Resting
  <2>6. ASSUME NEW u \in created, task'[u].status = "RUNNING" PROVE \E q \in Runs : exec'[q][u] = "working"
    <3>1. CASE u = t
        BY <2>4, <2>6, <3>1
    <3>2. CASE u # t
      <4>1. PICK q \in Runs : exec[q][u] = "working"
          BY <1>1, <2>3, <2>6, <3>2 DEF TasksWorked
      <4>2. exec'[q][u] = "working"
          BY <1>1, <2>3, <3>2, <4>1
      <4> QED BY <4>2
    <3> QED BY <3>1, <3>2
  <2> QED BY <1>2, <2>5, <2>6 DEF TasksWorked
<1> QED BY <1>4, <1>5, <1>6, <1>7, <1>8, <1>9 DEF Run

\* Where only r walks, the mission is as attended as r attends it.
LEMMA AttendedBy ==
    ASSUME NEW r \in Runs, \A q \in Runs \ {r} : pc'[q] \in {"idle", "done", "thrown"},
           mission'.status = "PLANNING" => pc'[r] \in PlanningSteps,
           mission'.status = "RUNNING" => Reviving' \/ pc'[r] \in WalkingSteps,
           pc'[r] \in {"queue", "planRead", "planQueue", "planMark"} => mission'.status \notin {"RUNNING", "PLANNING"}
    PROVE  Attended'
BY DEF Attended

LEMMA AttendedOnlyBy ==
    ASSUME Attended, NEW r \in Runs, \A q \in Runs \ {r} : pc[q] \in {"idle", "done", "thrown"}
    PROVE  /\ mission.status = "PLANNING" => pc[r] \in PlanningSteps
           /\ mission.status = "RUNNING" => Reviving \/ pc[r] \in WalkingSteps
           /\ pc[r] \in {"queue", "planRead", "planQueue", "planMark"} => mission.status \notin {"RUNNING", "PLANNING"}
BY DEF Attended, PlanningSteps, WalkingSteps

\* The one that walks attends the mission until it has decided.
LEMMA AttendedRun ==
    ASSUME PlainMission, TypeInv, Minded, RunsHoldIt, NEW r \in Runs, Run(r)
    PROVE  Attended'
<1> USE DEF TypeInv, TypeOK, Procs, Goto, PcOK, RowsOK
<1>1. /\ \A q \in Runs \ {r} : pc[q] \in {"idle", "done", "thrown"} /\ pc'[q] \in {"idle", "done", "thrown"}
      /\ Reviving' = Reviving /\ created # {}
    BY RunIsAlone, RunLeaves DEF Minded, PlainMission
<1>2. /\ mission.status = "PLANNING" => pc[r] \in PlanningSteps
      /\ mission.status = "RUNNING" => Reviving \/ pc[r] \in WalkingSteps
      /\ pc[r] \in {"queue", "planRead", "planQueue", "planMark"} => mission.status \notin {"RUNNING", "PLANNING"}
    BY <1>1, AttendedOnlyBy DEF Minded
<1>3. CASE PlanRead(r) \/ PlanCheck(r) \/ PlanAssign(r) \/ PlanDone(r)
  <2>1. UNCHANGED mission
      BY <1>3 DEF PlanRead, PlanCheck, PlanAssign, PlanDone, rows
  <2>2. \/ pc[r] = "planRead" /\ pc'[r] \in {"planQueue", "planMark", "thrown"}
        \/ pc[r] \in {"planCheck", "planAssign"} /\ pc'[r] \in {"planFail", "planAssign", "planDone"}
        \/ /\ pc[r] = "planDone" /\ mission.status \in {"PLANNING", "WAITING", "PAUSED"} /\ pc'[r] = "activate"
        \/ /\ pc[r] = "planDone" /\ mission.status = "RUNNING" /\ pc'[r] = "loop"
        \/ /\ pc[r] = "planDone" /\ mission.status \notin {"PLANNING", "RUNNING"} /\ pc'[r] = "thrown"
      BY <1>3, MissionAssumption DEF PlanRead, PlanCheck, PlanAssign, PlanDone
  <2> QED BY <1>1, <1>2, <2>1, <2>2, AttendedBy DEF PlanningSteps, WalkingSteps
<1>4. ASSUME NEW from, NEW s, NEW to, PlanWrite(r, from, s, to)
      PROVE  mission'.status = s /\ pc'[r] = to
    BY <1>4 DEF PlanWrite, SetStatus
<1>5. CASE PlanQueue(r) \/ PlanMark(r) \/ PlanFail(r) \/ RunQueue(r) \/ Activate(r)
  <2>1. \/ mission'.status = "QUEUED" /\ pc'[r] \in {"planMark", "planRead"}
        \/ mission'.status = "PLANNING" /\ pc'[r] = "planCheck"
        \/ mission'.status = "FAILED" /\ pc'[r] = "thrown"
        \/ mission'.status = "RUNNING" /\ pc'[r] = "loop"
      BY <1>4, <1>5 DEF PlanQueue, PlanMark, PlanFail, RunQueue, Activate
  <2> QED BY <1>1, <2>1, AttendedBy DEF PlanningSteps, WalkingSteps
<1>6. CASE RunRead(r)
  <2>1. UNCHANGED mission /\ pc[r] = "read"
      BY <1>6 DEF RunRead, rows
  <2>2. \/ mission.status = "DRAFT" /\ pc'[r] = "queue"
        \/ mission.status = "QUEUED" /\ pc'[r] = "planRead"
        \/ mission.status \in {"PLANNING", "WAITING", "PAUSED"} /\ pc'[r] = "activate"
        \/ mission.status = "RUNNING" /\ pc'[r] = "loop"
        \/ mission.status \in {"COMPLETED", "FAILED", "CANCELLED", "ARCHIVED"} /\ pc'[r] = "thrown"
      BY <1>6 DEF RunRead
  <2> QED BY <1>1, <1>2, <2>1, <2>2, AttendedBy DEF PlanningSteps, WalkingSteps
<1>7. CASE Loop(r) \/ Select(r) \/ Slice(r) \/ WaveDone(r) \/ ReconcileDecide(r) \/ ReconcileBlocked(r)
  <2>1. UNCHANGED mission /\ pc[r] \in WalkingSteps /\ pc'[r] \in WalkingSteps
      BY <1>7 DEF Loop, Select, Slice, WaveDone, ReconcileDecide, ReconcileBlocked, rows, WalkingSteps
  <2> QED BY <1>1, <1>2, <2>1, AttendedBy DEF PlanningSteps, WalkingSteps
<1>8. ASSUME NEW t \in Tasks, Execute(r, t) PROVE Attended'
  <2>1. UNCHANGED <<mission, pc>>
      BY <1>8 DEF Execute, ExecUnassigned, ExecStart, ExecSucceed, ExecFail, ExecThrow, PlainMission, rows
  <2> QED BY <1>1, <1>2, <2>1, AttendedBy
<1>9. CASE ReconcileRead(r)
  <2>1. UNCHANGED mission /\ pc[r] = "recRead"
      BY <1>9 DEF ReconcileRead, rows
  <2>2. \/ pc'[r] \in {"loop", "recDecide"}
        \/ pc'[r] = "totals" /\ mission.status \in {"CANCELLED", "PAUSED", "ARCHIVED"}
      BY <1>1, <1>9 DEF ReconcileRead, AfterReconcile
  <2> QED BY <1>1, <1>2, <2>1, <2>2, AttendedBy DEF PlanningSteps, WalkingSteps
<1>10. CASE ReconcileWrite(r)
  <2>1. pc[r] = "recWrite" /\ pc'[r] = IF op[r] = "final" THEN "totals" ELSE "loop"
      BY <1>10 DEF ReconcileWrite, AfterReconcile
  <2>2. mission'.status = IF verdict[r] = "NONE" THEN mission.status ELSE verdict[r]
      BY <1>10 DEF ReconcileWrite, SetStatus, Written
  <2>3. Decides(r)
      BY DEF Minded
  <2>4. mission'.status # "PLANNING" /\ (op[r] = "final" /\ mission'.status = "RUNNING" => Reviving)
      BY <1>2, <2>1, <2>2, <2>3 DEF Decides, PlanningSteps
  <2> QED BY <1>1, <2>1, <2>4, AttendedBy DEF PlanningSteps, WalkingSteps
<1>11. CASE Totals(r)
  <2>1. UNCHANGED mission /\ pc[r] = "totals" /\ pc'[r] = "done"
      BY <1>11 DEF Totals, rows
  <2> QED BY <1>1, <1>2, <2>1, AttendedBy DEF PlanningSteps, WalkingSteps
<1>12. ~MissionGone(r)
    BY DEF MissionGone, Minded, Present
<1> QED BY <1>3, <1>5, <1>6, <1>7, <1>8, <1>9, <1>10, <1>11, <1>12 DEF Run, Plan

\* Below the ceiling of waves it decides.
LEMMA DecidesRun ==
    ASSUME PlainMission, TypeInv, Minded, NEW r \in Runs, Run(r) \/ \E i \in {"run", "resume"} : RunBegin(r, i),
           \A q \in Runs \ {r} : pc[q] \in {"idle", "done", "thrown"}, count[r] < MaxWaves
    PROVE  Decides(r)'
<1> USE DEF TypeInv, TypeOK, Procs, Goto, PcOK, LocalOK
<1>1. verdict[r] \in {"NONE", "WAITING", "COMPLETED", "FAILED"} /\ Decides(r) /\ created # {}
    BY DEF Minded, Decides, PlainMission
<1>2. Reviving' = Reviving
    BY RunLeaves
<1>3. ASSUME UNCHANGED verdict,
             pc'[r] \notin {"recRead", "recDecide", "recBlocked", "recWrite"} \/ op'[r] # "final"
      PROVE  Decides(r)'
    BY <1>1, <1>3 DEF Decides
<1>4. CASE Plan(r)
    BY <1>3, <1>4, PlanLeaves
<1>5. CASE \/ RunRead(r) \/ RunQueue(r) \/ Activate(r) \/ MissionGone(r) \/ Totals(r)
           \/ \E i \in {"run", "resume"} : RunBegin(r, i)
  <2>1. UNCHANGED verdict
      BY <1>5 DEF RunRead, RunQueue, Activate, PlanWrite, MissionGone, Totals, RunBegin, local
  <2>2. pc'[r] \in {"read", "thrown", "queue", "planRead", "activate", "loop", "done"}
      BY <1>5 DEF RunRead, RunQueue, Activate, PlanWrite, MissionGone, Totals, RunBegin
  <2> QED BY <1>3, <2>1, <2>2
<1>6. CASE Slice(r) \/ \E t \in Tasks : Execute(r, t)
  <2>1. UNCHANGED verdict /\ pc'[r] \in {pc[r], "thrown"}
      BY <1>6 DEF Slice, Execute, ExecUnassigned, ExecStart, ExecSucceed, ExecFail, ExecThrow, local
  <2>2. pc[r] = "wave"
      BY <1>6 DEF Slice, Execute, ExecUnassigned, ExecStart, ExecSucceed, ExecFail, ExecThrow, Minded, HandsFree, Resting
  <2> QED BY <1>3, <2>1, <2>2
<1>7. CASE WaveDone(r)
    BY <1>3, <1>7 DEF WaveDone
<1>8. CASE Loop(r)
  <2>1. UNCHANGED <<verdict, mission>>
      BY <1>8 DEF Loop, rows
  <2>2. CASE Goto(r, "select")
      BY <1>3, <2>1, <2>2
  <2>3. CASE mission.status \in {"CANCELLED", "PAUSED"} /\ Goto(r, "recRead")
      BY <1>1, <2>1, <2>3 DEF Decides
  <2> QED BY <1>8, <2>2, <2>3 DEF Loop
<1>9. CASE Select(r)
  <2>1. UNCHANGED <<verdict, created, task>>
      BY <1>9 DEF Select, rows
  <2>2. CASE Goto(r, "wave")
      BY <1>3, <2>1, <2>2
  <2>3. CASE Runnable = {} /\ Goto(r, "recRead")
      BY <1>1, <2>1, <2>3 DEF Decides, Runnable, WithStatus
  <2> QED BY <1>9, <2>2, <2>3 DEF Select
<1>10. CASE ReconcileRead(r)
  <2>1. UNCHANGED <<verdict, created, task, mission, op>> /\ pc[r] = "recRead"
      BY <1>10 DEF ReconcileRead, rows, local
  <2>2. pc'[r] \in {"totals", "loop", "recDecide"}
      BY <1>10 DEF ReconcileRead, AfterReconcile
  <2> QED BY <1>1, <1>2, <2>1, <2>2 DEF Decides, Runnable, WithStatus
<1>11. CASE ReconcileDecide(r)
  <2>1. UNCHANGED <<created, task, mission, op>> /\ pc[r] = "recDecide"
      BY <1>11 DEF ReconcileDecide, rows
  <2>2. CASE Outcome # "NONE" /\ verdict' = [verdict EXCEPT ![r] = Outcome] /\ Goto(r, "recWrite")
    <3>1. Outcome \in {"COMPLETED", "FAILED"}
        BY <2>2 DEF Outcome
    <3>2. verdict'[r] = Outcome /\ pc'[r] = "recWrite"
        BY <2>2
    <3> QED BY <2>1, <3>1, <3>2 DEF Decides
  <2>3. CASE Outcome = "NONE" /\ verdict' = [verdict EXCEPT ![r] = IF Pending = {} THEN "NONE" ELSE "WAITING"]
             /\ Goto(r, "recBlocked")
    <3>1. \A t \in created : task[t].status # "RUNNING"
      <4>1. \A q \in Runs : Resting(q)
          BY <2>1 DEF Minded, HandsFree
      <4> QED BY <4>1 DEF Minded, TasksWorked, Resting, RowsOK
    <3>2. Pending # {}
        BY <1>1, <2>3, <3>1, WorkRemains
    <3>3. verdict'[r] = "WAITING" /\ pc'[r] = "recBlocked"
        BY <2>3, <3>2
    <3> QED BY <1>1, <1>2, <2>1, <3>3 DEF Decides, Runnable, WithStatus
  <2> QED BY <1>11, <2>2, <2>3 DEF ReconcileDecide
<1>12. CASE ReconcileBlocked(r)
  <2>1. UNCHANGED <<created, task, mission, op>> /\ pc[r] = "recBlocked" /\ pc'[r] = "recWrite"
      BY <1>12 DEF ReconcileBlocked, rows
  <2>2. verdict'[r] = IF Runnable = {} THEN verdict[r] ELSE "NONE"
      BY <1>12 DEF ReconcileBlocked, Blocked
  <2> QED BY <1>1, <1>2, <2>1, <2>2 DEF Decides
<1>13. CASE ReconcileWrite(r)
  <2>1. verdict'[r] = "NONE" /\ pc'[r] \in {"totals", "loop"}
      BY <1>13 DEF ReconcileWrite, AfterReconcile
  <2> QED BY <2>1 DEF Decides
<1> QED BY <1>4, <1>5, <1>6, <1>7, <1>8, <1>9, <1>10, <1>11, <1>12, <1>13 DEF Run

\* A step of the walking run, and the delivery of the job to a new one, keep it.
LEMMA MindedRun ==
    ASSUME PlainMission, TypeInv, Minded, RunsHoldIt, Below, NEW r \in Runs, Run(r)
    PROVE  Minded'
<1>1. \A q \in Runs \ {r} : pc[q] \in {"idle", "done", "thrown"}
    BY RunIsAlone
<1>2. Decides(r)'
    BY <1>1, DecidesRun DEF Below
<1>3. ASSUME NEW q \in Runs \ {r} PROVE Decides(q)'
  <2>1. verdict'[q] = verdict[q] /\ pc'[q] \in {"idle", "done", "thrown"}
      BY <1>1, RunLeaves
  <2> QED BY <2>1 DEF Minded, Decides
<1>4. UNCHANGED created /\ Present' /\ PlainCalls'
    BY RunLeaves
<1>5. HandsFree' /\ TasksWorked'
    BY HandsRun
<1> QED BY <1>2, <1>3, <1>4, <1>5, AttendedRun DEF Minded

LEMMA MindedDelivery ==
    ASSUME PlainMission, QueueInv, Minded, OneJob, lost = 0, Below, NEW r \in Runs, NEW k \in JobIds, Deliver(r, k)
    PROVE  Minded'
<1>1. TypeInv /\ job[k].intent \in {"run", "resume"} /\ RunBegin(r, job[k].intent) /\ pc[r] = "idle"
    BY QueueParts DEF Deliver, RunBegin, QueueInv, QueueTypeOK, JobRow
<1>2. k = "mission"
    BY DEF OneJob, NoOtherJob, Deliver
<1>3. \A q \in Runs : pc[q] \in {"idle", "done", "thrown"}
    BY <1>2 DEF OneJob, RunsHoldIt, Walking, Held, Deliver
<1>4. Decides(r)'
    BY <1>1, <1>3, DecidesRun DEF Below
<1>5. ASSUME NEW q \in Runs \ {r} PROVE Decides(q)'
  <2>1. verdict'[q] = verdict[q] /\ pc'[q] \in {"idle", "done", "thrown"}
      BY <1>1, <1>3, RunLeaves
  <2> QED BY <2>1 DEF Minded, Decides
<1>6. UNCHANGED created /\ Present' /\ PlainCalls' /\ Reviving' = Reviving
      /\ \A q \in Runs \ {r} : pc'[q] \in {"idle", "done", "thrown"}
    BY <1>1, <1>3, RunLeaves
<1>7. HandsFree' /\ TasksWorked'
    BY <1>1, HandsRun
<1>8. UNCHANGED mission /\ pc'[r] \in {"read", "thrown"}
    BY <1>1 DEF RunBegin, rows, Goto, TypeInv, TypeOK, PcOK, Procs
<1>9. mission.status # "PLANNING" /\ (mission.status = "RUNNING" => Reviving)
    BY <1>3 DEF Minded, Attended, PlanningSteps, WalkingSteps
<1>10. Attended'
    BY <1>6, <1>8, <1>9, AttendedBy
<1> QED BY <1>4, <1>5, <1>6, <1>7, <1>10 DEF Minded

\* What does not concern the mission leaves it as attended as it was.
LEMMA MindedFrame == Minded /\ UNCHANGED vars => Minded'
BY DEF vars, Minded, Present, PlainCalls, HandsFree, Resting, TasksWorked, Attended, Reviving, Decides, Runnable, WithStatus

\* Waves are only added up, so that what is below the ceiling was.
LEMMA BelowBefore ==
    ASSUME PlainMission, QueueInv, [QueueNext]_qvars, crashes' = 0, lost' = 0, Below'
    PROVE  crashes = 0 /\ Below
<1>1. TypeInv /\ crashes \in Nat
    BY QueueParts DEF QueueInv, QueueTypeOK
<1>2. ~\E p \in Procs : Crash(p)
    BY <1>1 DEF Crash
<1>3. \A r \in Runs : count[r] \in Nat
    BY <1>1 DEF TypeInv, TypeOK, LocalOK, Procs
<1>4. crashes = 0
    BY <1>2 DEF QueueNext, Client, EnqueueCheck, EnqueueAdd, Worker, Deliver, Complete, Rethrow,
                Stalled, Expire, LoseLock, queue, qvars
<1>5. [Next]_vars
    BY <1>2, QueueIsMission
<1>6. \A q \in Runs : count'[q] \in Nat /\ count[q] <= count'[q]
  <2>1. CASE UNCHANGED vars
      BY <1>3, <2>1 DEF vars
  <2>2. ASSUME NEW r \in Runs, Run(r) \/ \E i \in {"run", "resume"} : RunBegin(r, i)
        PROVE  \A q \in Runs : count'[q] \in Nat /\ count[q] <= count'[q]
    <3>1. UNCHANGED count \/ \E n : count' = [count EXCEPT ![r] = n]
      <4>1. CASE Plan(r)
          BY <1>1, <4>1, PlanLeaves DEF Procs
      <4>2. CASE ~Plan(r)
          BY <2>2, <4>2 DEF Run, RunRead, RunQueue, Activate, PlanWrite, Loop, Select, Slice, WaveDone, ReconcileRead,
                  ReconcileDecide, ReconcileBlocked, ReconcileWrite, Totals, MissionGone, RunBegin, local,
                  Execute, ExecUnassigned, ExecStart, ExecSucceed, ExecFail, ExecThrow
      <4> QED BY <4>1, <4>2
    <3>2. \A q \in Runs \ {r} : count'[q] = count[q]
        BY <1>1, <3>1 DEF TypeInv, TypeOK, LocalOK, Procs
    <3> QED BY <1>1, <1>3, <2>2, <3>2, WavesAddUp
  <2>3. ASSUME NEW c \in Calls, Call(c) \/ \E request \in Requests : CallBegin(c, request)
        PROVE  \A q \in Runs : count'[q] \in Nat /\ count[q] <= count'[q]
      BY <1>1, <1>3, <2>3, CallKeepsRuns
  <2> QED BY <1>5, <2>1, <2>2, <2>3 DEF Next
<1>7. Below
    BY <1>3, <1>6, MissionAssumption DEF Below
<1> QED BY <1>4, <1>7

LEMMA StuckNext == ASSUME PlainMission, QueueInv, OneJob, StuckInv, [QueueNext]_qvars PROVE StuckInv'
<1>1. SUFFICES ASSUME crashes' = 0, lost' = 0, Below' PROVE Minded'
    BY DEF StuckInv
<1>2. crashes = 0 /\ lost = 0 /\ Below /\ ~\E r \in Runs, k \in JobIds : LoseLock(r, k)
    BY <1>1, BelowBefore, LostGrows
<1>3. Minded /\ RunsHoldIt /\ TypeInv
    BY <1>2, QueueParts DEF StuckInv, OneJob
<1>4. ~\E p \in Procs : Crash(p)
    BY <1>1, <1>2 DEF Crash
<1>5. CASE UNCHANGED vars
    BY <1>3, <1>5, MindedFrame
<1>6. ASSUME NEW r \in Runs, NEW k \in JobIds, Deliver(r, k) PROVE Minded'
    BY <1>2, <1>3, <1>6, MindedDelivery
<1>7. CASE Engine
    BY <1>2, <1>3, <1>7, MindedRun, MindedCall DEF Engine
<1> QED BY <1>2, <1>4, <1>5, <1>6, <1>7
        DEF QueueNext, qvars, vars, Client, EnqueueCheck, EnqueueAdd, Worker, Complete, Rethrow, Stalled, Expire

LEMMA StuckInit == QueueInit => StuckInv
<1> SUFFICES ASSUME QueueInit PROVE Minded
    BY DEF StuckInv
<1>1. \A p \in Procs : pc[p] = "idle" /\ op[p] = "none" /\ verdict[p] = "NONE"
    BY DEF QueueInit, Init
<1>2. \A t \in created : task[t].status = "PENDING"
    BY MissionAssumption DEF QueueInit, Init
<1>3. \A r \in Runs : Resting(r)
    BY DEF QueueInit, Init, Resting
<1>4. mission.status = "DRAFT" /\ Present /\ created = InitialTasks
    BY DEF QueueInit, Init, Present
<1> QED BY <1>1, <1>2, <1>3, <1>4
        DEF Minded, PlainCalls, HandsFree, TasksWorked, Attended, Decides, Procs, RetrySteps

\* A mission with tasks and reliable workers that clients execute, resume, pause
\* and retry, in any number and at any moment, is not left RUNNING or PLANNING
\* with nobody at work on it unless a process died, a live worker lost its lock,
\* or an orchestrator reached the ceiling of waves (MissionQueueService,
\* MissionOrchestrator.run).
THEOREM MissionStuckOnlyByCrash ==
    Plain /\ WorkersReliable /\ InitialTasks # {} /\ QueueSpec
        => []((\A r \in Runs : count[r] < MaxWaves) => StuckOnlyByCrash)
<1> DEFINE Inv  == QueueInv /\ OneJob /\ StuckInv
           Goal == (\A r \in Runs : count[r] < MaxWaves) => StuckOnlyByCrash
<1>1. PlainMission /\ Inv /\ [QueueNext]_qvars => Inv' /\ PlainMission'
    BY QueueTypeNext, OneJobNext, StuckNext DEF PlainMission, Plain
<1>2. QueueInit => Inv
  <2>1. QueueInit => OneJob
      BY DEF QueueInit, Init, OneJob, NoOtherJob, RunsHoldIt, NoJob, JobIds, Walking, Procs
  <2> QED BY <2>1, QueueTypeInit, StuckInit
<1>3. Inv => Goal
  <2> SUFFICES ASSUME Inv, Below, crashes = 0, lost = 0, ~Working PROVE mission.status \notin {"RUNNING", "PLANNING"}
      BY DEF Below, StuckOnlyByCrash, NeverStuckRunning
  <2>1. Attended
      BY DEF StuckInv, Minded
  <2>2. \A p \in Procs : pc[p] \in {"idle", "done", "thrown"}
      BY DEF Working
  <2> QED BY <2>1, <2>2 DEF Attended, Reviving, RetrySteps, PlanningSteps, WalkingSteps, Procs
<1> HIDE DEF Inv, Goal
<1>4. PlainMission /\ QueueSpec => []Goal
    BY <1>1, <1>2, <1>3, PTL DEF QueueSpec
<1> QED BY <1>4 DEF PlainMission, Goal
====

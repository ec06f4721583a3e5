---------------------------- MODULE FleetProofs ----------------------------
(***************************************************************************)
(* Four invariants of the fleet for any number of tasks, nodes, drivers,   *)
(* sweeps and requests: the types (with the node a handler works on), the  *)
(* bound on attempts, that a task in flight or in migration has a handler  *)
(* that will settle or requeue it, and, where nobody but the drivers       *)
(* touches it, that a node's load counts the attempts it holds.  Each      *)
(* proof has one lemma per family of handlers (drives, migrations, sweeps, *)
(* requests, time), and under it one step per action.                      *)
(***************************************************************************)
EXTENDS Fleet, FiniteSetTheorems, TLAPS

USE FleetAssumption

-----------------------------------------------------------------------------
(* Types.                                                                   *)

\* A handler that takes a well-formed local state leaves the others alone.
LEMMA Becomes ==
    ASSUME HandlersOK, NEW p \in Procs, NEW m \in Handler, m.pc \in NodeSteps => m.at \in Nodes,
           Become(p, m)
    PROVE  HandlersOK'
BY DEF HandlersOK, Become

\* Fresh and copied rows are rows.
LEMMA NewRows == NewTask \in TaskRow /\ NewNode \in NodeRow
BY SMTT(30) DEF NewTask, NewNode, TaskRow, NodeRow, TaskStatus, NodeStatus

LEMMA BlankOK == Blank \in Handler /\ Blank.at = NoNode
BY NewRows, SMTT(30) DEF Blank, Handler, Steps

LEMMA CopyOK == ASSUME NEW r \in TaskRow PROVE Copy(r) \in TaskRow
BY NewRows DEF Copy, TaskRow

LEMMA CopiedOK == ASSUME task \in [Tasks -> TaskRow], NEW S PROVE Copied(S) \in [Tasks -> TaskRow]
BY NewRows, CopyOK DEF Copied

LEMMA DroppedOK == ASSUME HandlersOK, NEW p \in Procs PROVE Dropped(p) \in [Tasks -> TaskRow]
BY NewRows DEF Dropped, HandlersOK, Handler

\* What an action may overwrite in a handler's local state, one lemma per set of
\* fields: with values of their types the result is well-formed.
LEMMA EditPc ==
    ASSUME HandlersOK, NEW p \in Procs, NEW h \in Handler, NEW step \in Steps,
           step \in NodeSteps => h.at \in Nodes,
           Become(p, [h EXCEPT !.pc = step])
    PROVE  HandlersOK'
BY Becomes DEF Handler

LEMMA EditPcCur ==
    ASSUME HandlersOK, NEW p \in Procs, NEW h \in Handler, NEW step \in Steps,
           NEW t \in Tasks \union {NoTask},
           step \in NodeSteps => h.at \in Nodes,
           Become(p, [h EXCEPT !.pc = step, !.cur = t])
    PROVE  HandlersOK'
BY ZenonT(60), Becomes DEF Handler

LEMMA EditPcCurCopy ==
    ASSUME HandlersOK, NEW p \in Procs, NEW h \in Handler, NEW step \in Steps,
           NEW t \in Tasks \union {NoTask}, NEW k \in [Tasks -> TaskRow],
           step \in NodeSteps => h.at \in Nodes,
           Become(p, [h EXCEPT !.pc = step, !.cur = t, !.copy = k])
    PROVE  HandlersOK'
BY ZenonT(60), Becomes DEF Handler

LEMMA EditPcCopyc ==
    ASSUME HandlersOK, NEW p \in Procs, NEW h \in Handler, NEW step \in Steps, NEW r,
           h.cur \in Tasks => r \in TaskRow,
           step \in NodeSteps => h.at \in Nodes,
           Become(p, [h EXCEPT !.pc = step, !.copy[h.cur] = r])
    PROVE  HandlersOK'
BY ZenonT(60), Becomes DEF Handler

LEMMA EditPcListCopy ==
    ASSUME HandlersOK, NEW p \in Procs, NEW h \in Handler, NEW step \in Steps,
           NEW L \in SUBSET Tasks, NEW k \in [Tasks -> TaskRow],
           step \in NodeSteps => h.at \in Nodes,
           Become(p, [h EXCEPT !.pc = step, !.list = L, !.copy = k])
    PROVE  HandlersOK'
BY Becomes DEF Handler

LEMMA EditPcAt ==
    ASSUME HandlersOK, NEW p \in Procs, NEW h \in Handler, NEW step \in Steps,
           NEW n \in Nodes \union {NoNode},
           step \in NodeSteps => n \in Nodes,
           Become(p, [h EXCEPT !.pc = step, !.at = n])
    PROVE  HandlersOK'
BY Becomes DEF Handler

LEMMA EditPcTried ==
    ASSUME HandlersOK, NEW p \in Procs, NEW h \in Handler, NEW step \in Steps,
           NEW D \in SUBSET Nodes,
           step \in NodeSteps => h.at \in Nodes,
           Become(p, [h EXCEPT !.pc = step, !.tried = D])
    PROVE  HandlersOK'
BY Becomes DEF Handler

LEMMA EditPcResult ==
    ASSUME HandlersOK, NEW p \in Procs, NEW h \in Handler, NEW step \in Steps,
           NEW v \in {"ok", "retry", "fatal"},
           step \in NodeSteps => h.at \in Nodes,
           Become(p, [h EXCEPT !.pc = step, !.result = v])
    PROVE  HandlersOK'
BY ZenonT(60), Becomes DEF Handler

LEMMA EditPcSeen ==
    ASSUME HandlersOK, NEW p \in Procs, NEW h \in Handler, NEW step \in Steps,
           NEW s \in NodeRow,
           step \in NodeSteps => h.at \in Nodes,
           Become(p, [h EXCEPT !.pc = step, !.seen = s])
    PROVE  HandlersOK'
BY Becomes DEF Handler

LEMMA EditPcList ==
    ASSUME HandlersOK, NEW p \in Procs, NEW h \in Handler, NEW step \in Steps,
           NEW L \in SUBSET Tasks,
           step \in NodeSteps => h.at \in Nodes,
           Become(p, [h EXCEPT !.pc = step, !.list = L])
    PROVE  HandlersOK'
BY Becomes DEF Handler

LEMMA EditPcNlist ==
    ASSUME HandlersOK, NEW p \in Procs, NEW h \in Handler, NEW step \in Steps,
           NEW N \in SUBSET Nodes,
           step \in NodeSteps => h.at \in Nodes,
           Become(p, [h EXCEPT !.pc = step, !.nlist = N])
    PROVE  HandlersOK'
BY Becomes DEF Handler

LEMMA EditPcMoved ==
    ASSUME HandlersOK, NEW p \in Procs, NEW h \in Handler, NEW step \in Steps,
           NEW V \in SUBSET Tasks,
           step \in NodeSteps => h.at \in Nodes,
           Become(p, [h EXCEPT !.pc = step, !.moved = V])
    PROVE  HandlersOK'
BY Becomes DEF Handler

LEMMA EditNlist ==
    ASSUME HandlersOK, NEW p \in Procs, NEW h \in Handler, NEW N \in SUBSET Nodes,
           h.pc \in NodeSteps => h.at \in Nodes,
           Become(p, [h EXCEPT !.nlist = N])
    PROVE  HandlersOK'
BY Becomes DEF Handler

LEMMA EditPcCurAim ==
    ASSUME HandlersOK, NEW p \in Procs, NEW h \in Handler, NEW step \in Steps,
           NEW t \in Tasks \union {NoTask}, NEW a \in Nodes \union {NoNode},
           step \in NodeSteps => h.at \in Nodes,
           Become(p, [h EXCEPT !.pc = step, !.cur = t, !.aim = a])
    PROVE  HandlersOK'
BY ZenonT(60), Becomes DEF Handler

LEMMA EditList ==
    ASSUME HandlersOK, NEW p \in Procs, NEW h \in Handler, NEW L \in SUBSET Tasks,
           h.pc \in NodeSteps => h.at \in Nodes,
           Become(p, [h EXCEPT !.list = L])
    PROVE  HandlersOK'
BY Becomes DEF Handler

LEMMA EditPcRoomNlist ==
    ASSUME HandlersOK, NEW p \in Procs, NEW h \in Handler, NEW step \in Steps,
           NEW R \in SUBSET Nodes, NEW N \in SUBSET Nodes,
           step \in NodeSteps => h.at \in Nodes,
           Become(p, [h EXCEPT !.pc = step, !.room = R, !.nlist = N])
    PROVE  HandlersOK'
BY Becomes DEF Handler

\* The fields of a well-formed local state.
LEMMA Fields ==
    ASSUME HandlersOK, NEW p \in Procs
    PROVE  /\ me[p] \in Handler
           /\ me[p].pc \in Steps /\ me[p].cur \in Tasks \union {NoTask}
           /\ me[p].copy \in [Tasks -> TaskRow] /\ me[p].list \in SUBSET Tasks
           /\ me[p].at \in Nodes \union {NoNode} /\ me[p].nlist \in SUBSET Nodes
           /\ me[p].aim \in Nodes \union {NoNode} /\ me[p].back \in {"end", "orphan", "lease", "shift"}
           /\ me[p].tried \in SUBSET Nodes /\ me[p].room \in SUBSET Nodes /\ me[p].moved \in SUBSET Tasks
           /\ me[p].seen \in NodeRow
           /\ me[p].pc \in NodeSteps => me[p].at \in Nodes
BY DEF HandlersOK, Handler

\* Steps of handlers that work on no node (Steps itself is slow to expand).
LEMMA OtherSteps ==
    {"place", "mark", "release", "orphan", "lease", "shift", "migrate", "orphans", "hot",
     "cancelWrite", "cancelRelease"}
        \subseteq Steps \ NodeSteps
BY DEF Steps, AllOps, NodeSteps

\* Each family of handlers keeps the local states well-formed.
LEMMA DriverHandlers ==
    ASSUME TypeOK, NEW d \in Drivers, Lookup(d) \/ Tick(d) \/ Driver(d)
    PROVE  HandlersOK'
<1>1. HandlersOK /\ task \in [Tasks -> TaskRow] /\ node \in [Nodes -> NodeRow] /\ d \in Procs
  BY DEF TypeOK, Procs
<1>2. CASE Lookup(d)
  BY <1>1, <1>2, BlankOK, CopiedOK, EditPcCur, EditPcCurCopy DEF Lookup, Steps, NodeSteps
<1>3. CASE Create(d)
  <2>1. [NewTask EXCEPT !.status = "QUEUED"] \in TaskRow
    BY NewRows DEF TaskRow, TaskStatus
  <2>2. CASE End(d)
    BY <1>1, <2>2, BlankOK, EditPc DEF End, Steps, NodeSteps
  <2>3. CASE Become(d, [me[d] EXCEPT !.pc = "place",
                                     !.copy[me[d].cur] = Copy([NewTask EXCEPT !.status = "QUEUED"])])
    BY <1>1, <2>1, <2>3, Fields, CopyOK, EditPcCopyc DEF Steps, NodeSteps
  <2> QED
    BY <1>3, <2>2, <2>3 DEF Create, Cur
<1>4. CASE Tick(d)
  BY <1>1, <1>4, BlankOK, CopiedOK, EditPcListCopy DEF Tick, Claimable, Steps, NodeSteps
<1>5. CASE NextTask(d)
  <2>1. CASE End(d)
    BY <1>1, <2>1, BlankOK, EditPc DEF End, Steps, NodeSteps
  <2>2. ASSUME NEW t \in me[d].list,
               Become(d, [Blank EXCEPT !.pc = "place", !.cur = t, !.copy = me[d].copy,
                                       !.list = me[d].list \ {t}])
        PROVE  HandlersOK'
    <3>1. t \in Tasks /\ me[d].list \ {t} \in SUBSET Tasks /\ me[d].copy \in [Tasks -> TaskRow]
      BY <1>1, Fields
    <3> DEFINE m == [Blank EXCEPT !.pc = "place", !.cur = t, !.copy = me[d].copy,
                                  !.list = me[d].list \ {t}]
    <3>2. m \in Handler /\ m.pc \notin NodeSteps
      BY <3>1, BlankOK, OtherSteps DEF Handler
    <3> QED
      BY <1>1, <2>2, <3>2, Becomes
  <2> QED
    BY <1>5, <2>1, <2>2 DEF NextTask
<1>6. CASE Place(d)
  BY <1>1, <1>6, BlankOK, Fields, DroppedOK, EditPcListCopy, EditPc, EditPcAt
  DEF Place, Return, Goto, Steps, NodeSteps
<1>7. CASE Defer(d)
  BY <1>1, <1>7, BlankOK, Fields, DroppedOK, EditPcListCopy DEF Defer, Return, Steps, NodeSteps
<1>8. CASE Assign(d)
  <2>1. me[d].at \in Nodes /\ me[d].tried \union {me[d].at} \in SUBSET Nodes
    BY <1>1, <1>8, Fields DEF Assign, At, NodeSteps
  <2>2. Become(d, [me[d] EXCEPT !.pc = "assigned", !.tried = me[d].tried \union {me[d].at}])
    BY <1>8 DEF Assign
  <2> QED
    BY <1>1, <2>1, <2>2, Fields, EditPcTried DEF Steps
<1>9. CASE Assigned(d)
  <2>1. me[d].cur \in Tasks => Copy(task[me[d].cur]) \in TaskRow
    BY <1>1, CopyOK
  <2>2. me[d].at \in Nodes
    BY <1>1, <1>9, Fields DEF Assigned, At, NodeSteps
  <2>3. Become(d, [me[d] EXCEPT !.pc = "load", !.copy[me[d].cur] = Copy(task[me[d].cur])])
    BY <1>9 DEF Assigned, Cur
  <2> QED
    BY <1>1, <2>1, <2>2, <2>3, Fields, EditPcCopyc DEF Steps
<1>10. CASE Load(d)
  BY <1>1, <1>10, Fields, EditPc DEF Load, Goto, At, Steps, NodeSteps
<1>11. CASE Dispatch(d)
  BY <1>1, <1>11, Fields, EditPc DEF Dispatch, Goto, At, Steps, NodeSteps
<1>12. CASE Verdict(d)
  BY <1>1, <1>12, Fields, EditPcResult DEF Verdict, At, Steps, NodeSteps
<1>13. CASE Unload(d)
  BY <1>1, <1>13, Fields, EditPc DEF Unload, Goto, At, Steps, NodeSteps
<1>14. CASE CountRead(d)
  BY <1>1, <1>14, Fields, EditPc, EditPcSeen DEF CountRead, Goto, At, Steps, NodeSteps
<1>15. CASE CreditWrite(d)
  BY <1>1, <1>15, Fields, EditPc DEF CreditWrite, Goto, At, Steps, NodeSteps
<1>16. CASE BlameWrite(d)
  BY <1>1, <1>16, Fields, NewRows, EditPcSeen DEF BlameWrite, At, Steps, NodeSteps
<1>17. CASE Settle(d)
  BY <1>1, <1>17, Fields, EditPc DEF Settle, Goto, Steps, NodeSteps
<1>18. CASE Settled(d)
  <2>1. CASE Return(d)
    BY <1>1, <2>1, Fields, BlankOK, DroppedOK, EditPcListCopy DEF Return, Steps, NodeSteps
  <2>2. CASE Become(d, [me[d] EXCEPT !.pc = "place", !.copy[me[d].cur] = Copy(task[me[d].cur]),
                                     !.at = NoNode, !.result = "ok"])
    <3>1. me[d].cur \in Tasks => Copy(task[me[d].cur]) \in TaskRow
      BY <1>1, CopyOK
    <3> DEFINE m == [me[d] EXCEPT !.pc = "place", !.copy[me[d].cur] = Copy(task[me[d].cur]),
                                  !.at = NoNode, !.result = "ok"]
    <3>2. me[d] \in Handler
      BY <1>1, Fields
    <3>3. m \in Handler /\ m.pc \notin NodeSteps
      BY <3>1, <3>2, OtherSteps DEF Handler
    <3> QED
      BY <1>1, <2>2, <3>3, Becomes
  <2> QED
    BY <1>18, <2>1, <2>2 DEF Settled, Cur
<1> QED
  BY <1>2, <1>3, <1>4, <1>5, <1>6, <1>7, <1>8, <1>9, <1>10, <1>11, <1>12, <1>13, <1>14, <1>15,
     <1>16, <1>17, <1>18 DEF Driver

LEMMA EndOK == ASSUME HandlersOK, NEW p \in Procs, End(p) PROVE HandlersOK'
BY BlankOK, EditPc DEF End, Steps, NodeSteps

LEMMA MigrationHandlers ==
    ASSUME TypeOK, NEW p \in Procs, Migration(p)
    PROVE  HandlersOK'
<1>1. HandlersOK /\ task \in [Tasks -> TaskRow] /\ me[p] \in Handler
  BY Fields DEF TypeOK
<1>2. CASE MigrateRead(p)
  <2>1. ASSUME NEW step \in {"mark", "release"},
               Become(p, [me[p] EXCEPT !.copy[me[p].cur] = Copy(task[me[p].cur]), !.pc = step])
        PROVE  HandlersOK'
    <3> DEFINE m == [me[p] EXCEPT !.copy[me[p].cur] = Copy(task[me[p].cur]), !.pc = step]
    <3>1. me[p].cur \in Tasks => Copy(task[me[p].cur]) \in TaskRow
      BY <1>1, CopyOK
    <3>2. m \in Handler /\ m.pc \notin NodeSteps
      BY <1>1, <3>1, OtherSteps DEF Handler
    <3>3. Become(p, m)
      BY <2>1
    <3> HIDE DEF m
    <3> QED
      BY <1>1, <3>2, <3>3, Becomes
  <2> QED
    BY <1>1, <1>2, <2>1, EndOK DEF MigrateRead, Cur
<1>3. CASE MigrateRelease(p)
  BY <1>1, <1>3, EditPc DEF MigrateRelease, Goto, Steps, NodeSteps
<1>4. CASE MigrateMark(p)
  BY <1>1, <1>4, EditPc DEF MigrateMark, Goto, Steps, NodeSteps
<1>5. CASE MigrateQueue(p)
  <2>1. CASE me[p].back # "end"
    <3> DEFINE m == [me[p] EXCEPT !.pc = me[p].back, !.cur = NoTask, !.copy = Dropped(p),
                                  !.aim = NoNode, !.back = "end"]
    <3>1. me[p].back \in {"orphan", "lease", "shift"} /\ Dropped(p) \in [Tasks -> TaskRow]
      BY <1>1, <2>1, Fields, DroppedOK
    <3>2. m \in Handler /\ m.pc \notin NodeSteps
      BY <1>1, <3>1, OtherSteps DEF Handler
    <3>3. Become(p, m)
      BY <1>5, <2>1 DEF MigrateQueue
    <3> HIDE DEF m
    <3> QED
      BY <1>1, <3>2, <3>3, Becomes
  <2> QED
    BY <1>1, <1>5, <2>1, EndOK DEF MigrateQueue
<1> QED
  BY <1>2, <1>3, <1>4, <1>5 DEF Migration

LEMMA ListTasksOK ==
    ASSUME HandlersOK, NEW p \in Procs, NEW here, NEW S \in SUBSET Tasks,
           NEW after \in Steps \ NodeSteps, ListTasks(p, here, S, after)
    PROVE  HandlersOK'
BY Fields, EditPcList DEF ListTasks

LEMMA WalkTasksOK ==
    ASSUME HandlersOK, NEW p \in Procs, NEW here \in {"orphan", "lease"},
           NEW after \in Steps \ NodeSteps, WalkTasks(p, here, after)
    PROVE  HandlersOK'
<1>1. CASE Goto(p, after)
  BY <1>1, Fields, EditPc DEF Goto
<1>2. ASSUME NEW t \in me[p].list,
             Become(p, [me[p] EXCEPT !.pc = "migrate", !.cur = t, !.list = me[p].list \ {t},
                                     !.back = here, !.moved = me[p].moved \union {t}])
      PROVE  HandlersOK'
  <2> DEFINE m == [me[p] EXCEPT !.pc = "migrate", !.cur = t, !.list = me[p].list \ {t},
                                !.back = here, !.moved = me[p].moved \union {t}]
  <2>1. /\ me[p] \in Handler /\ t \in Tasks
        /\ me[p].list \ {t} \in SUBSET Tasks /\ me[p].moved \union {t} \in SUBSET Tasks
    BY <1>2, Fields
  <2>2. m \in Handler /\ m.pc \notin NodeSteps
    BY <2>1, OtherSteps DEF Handler
  <2>3. Become(p, m)
    BY <1>2
  <2> HIDE DEF m
  <2> QED
    BY <2>2, <2>3, Becomes
<1> QED
  BY <1>1, <1>2 DEF WalkTasks

LEMMA SweepHandlers ==
    ASSUME TypeOK, NEW s \in Sweepers, SweepBegin(s) \/ Sweep(s)
    PROVE  HandlersOK'
<1>1. HandlersOK /\ s \in Procs /\ me[s] \in Handler
  BY Fields DEF TypeOK, Procs
<1>2. CASE SweepBegin(s)
  BY <1>1, <1>2, BlankOK, EditPcNlist DEF SweepBegin, Steps, NodeSteps
<1>3. CASE SweepOffline(s)
  <2>1. CASE Become(s, [Blank EXCEPT !.pc = "leases", !.moved = me[s].moved])
    BY <1>1, <2>1, BlankOK, Fields, EditPcMoved DEF Steps, NodeSteps
  <2>2. ASSUME NEW n \in me[s].nlist,
               Become(s, [Blank EXCEPT !.pc = "orphans", !.at = n, !.nlist = me[s].nlist \ {n},
                                       !.moved = me[s].moved])
        PROVE  HandlersOK'
    <3> DEFINE m == [Blank EXCEPT !.pc = "orphans", !.at = n, !.nlist = me[s].nlist \ {n},
                                  !.moved = me[s].moved]
    <3>1. n \in Nodes /\ me[s].nlist \ {n} \in SUBSET Nodes /\ me[s].moved \in SUBSET Tasks
      BY <1>1, <2>2, Fields
    <3>2. m \in Handler /\ m.pc \notin NodeSteps
      BY <3>1, BlankOK, OtherSteps DEF Handler
    <3>3. Become(s, m)
      BY <2>2
    <3> HIDE DEF m
    <3> QED
      BY <1>1, <3>2, <3>3, Becomes
  <2> QED
    BY <1>3, <2>1, <2>2 DEF SweepOffline
<1>4. CASE SweepTasks(s)
  BY <1>1, <1>4, ListTasksOK, WalkTasksOK DEF SweepTasks, Orphaned, Overdue, Steps, NodeSteps
<1>5. CASE Migration(s)
  BY <1>1, <1>5, MigrationHandlers
<1>6. CASE SweepLift(s)
  <2> DEFINE over == {n \in Nodes : node[n].status = "QUARANTINED" /\ node[n].bench = "over"}
  <2>1. over \in SUBSET Nodes /\ Become(s, [Blank EXCEPT !.pc = "lifting", !.nlist = over])
    BY <1>6 DEF SweepLift
  <2> HIDE DEF over
  <2> QED
    BY <1>1, <2>1, BlankOK, EditPcNlist DEF Steps, NodeSteps
<1>7. CASE SweepLifting(s)
  <2>1. me[s].pc = "lifting"
    BY <1>7 DEF SweepLifting, At
  <2>2. ASSUME NEW n \in me[s].nlist, Become(s, [me[s] EXCEPT !.nlist = me[s].nlist \ {n}])
        PROVE  HandlersOK'
    <3>1. me[s].pc \notin NodeSteps /\ me[s].nlist \ {n} \in SUBSET Nodes
      BY <1>1, <2>1, Fields DEF NodeSteps
    <3> QED
      BY <1>1, <2>2, <3>1, EditNlist
  <2> QED
    BY <1>1, <1>7, <2>2, EndOK DEF SweepLifting
<1> QED
  BY <1>2, <1>3, <1>4, <1>5, <1>6, <1>7 DEF Sweep

LEMMA CallHandlers ==
    ASSUME TypeOK, NEW c \in Calls, NEW request \in Ops, CallBegin(c, request)
    PROVE  HandlersOK'
<1>1. HandlersOK /\ c \in Procs /\ me[c] \in Handler /\ request \in Steps
  BY Fields DEF TypeOK, Procs, Steps
<1>2. ASSUME request \in {"migrate", "requeue", "cancel"}, NEW t \in Tasks,
             NEW n \in Nodes \union {NoNode},
             Become(c, [Blank EXCEPT !.pc = request, !.cur = t, !.aim = n])
      PROVE  HandlersOK'
  BY <1>1, <1>2, BlankOK, EditPcCurAim DEF NodeSteps
<1>3. ASSUME NEW n \in Nodes, Become(c, [Blank EXCEPT !.pc = request, !.at = n])
      PROVE  HandlersOK'
  BY <1>1, <1>3, BlankOK, EditPcAt
<1>4. CASE request = "rebalance" /\ Goto(c, request)
  BY <1>1, <1>4, EditPc DEF Goto, NodeSteps
<1> QED
  BY <1>2, <1>3, <1>4 DEF CallBegin

LEMMA RebalanceHandlers ==
    ASSUME TypeOK, NEW c \in Calls, Rebalance(c)
    PROVE  HandlersOK'
<1>1. HandlersOK /\ task \in [Tasks -> TaskRow] /\ c \in Procs /\ me[c] \in Handler
  BY Fields DEF TypeOK, Procs
<1>2. CASE RebalanceRead(c)
  <2>1. Hot \in SUBSET Nodes /\ Cold \in SUBSET Nodes
    BY DEF Hot, Cold
  <2> QED
    BY <1>1, <1>2, <2>1, EndOK, OtherSteps, EditPcRoomNlist DEF RebalanceRead
<1>3. CASE RebalanceNode(c)
  <2>1. ASSUME NEW n \in me[c].nlist, NEW S \in SUBSET Tasks,
               Become(c, [me[c] EXCEPT !.pc = "shift", !.nlist = me[c].nlist \ {n}, !.list = S,
                                       !.copy = Copied(S)])
        PROVE  HandlersOK'
    <3> DEFINE m == [me[c] EXCEPT !.pc = "shift", !.nlist = me[c].nlist \ {n}, !.list = S,
                                  !.copy = Copied(S)]
    <3>1. me[c].nlist \ {n} \in SUBSET Nodes /\ Copied(S) \in [Tasks -> TaskRow]
      BY <1>1, Fields, CopiedOK
    <3>2. m \in Handler /\ m.pc \notin NodeSteps
      BY <1>1, <3>1, OtherSteps DEF Handler
    <3>3. Become(c, m)
      BY <2>1
    <3> HIDE DEF m
    <3> QED
      BY <1>1, <3>2, <3>3, Becomes
  <2>2. ASSUME NEW n
        PROVE  {t \in Tasks : task[t].status = "ASSIGNED" /\ task[t].node = n} \in SUBSET Tasks
    OBVIOUS
  <2> QED
    BY <1>1, <1>3, <2>1, <2>2, EndOK DEF RebalanceNode
<1>4. CASE RebalanceTask(c)
  <2>1. CASE Goto(c, "hot")
    BY <1>1, <2>1, OtherSteps, EditPc DEF Goto
  <2>2. ASSUME NEW t \in me[c].list, Become(c, [me[c] EXCEPT !.list = me[c].list \ {t}])
        PROVE  HandlersOK'
    <3>1. me[c].pc \notin NodeSteps /\ me[c].list \ {t} \in SUBSET Tasks
      BY <1>1, <1>4, Fields, OtherSteps DEF RebalanceTask, At
    <3> QED
      BY <1>1, <2>2, <3>1, EditList
  <2>3. ASSUME NEW t \in me[c].list, NEW n \in me[c].room, NEW full \in {{}, me[c].room},
               Become(c, [me[c] EXCEPT !.pc = "migrate", !.cur = t, !.list = me[c].list \ {t},
                            !.aim = n, !.room = me[c].room \ (full \intersect {n}),
                            !.back = "shift"])
        PROVE  HandlersOK'
    <3> DEFINE m == [me[c] EXCEPT !.pc = "migrate", !.cur = t, !.list = me[c].list \ {t},
                            !.aim = n, !.room = me[c].room \ (full \intersect {n}),
                            !.back = "shift"]
    <3>1. /\ t \in Tasks /\ me[c].list \ {t} \in SUBSET Tasks /\ n \in Nodes
          /\ me[c].room \ (full \intersect {n}) \in SUBSET Nodes
      BY <1>1, Fields
    <3>2. m \in Handler /\ m.pc \notin NodeSteps
      BY <1>1, <3>1, OtherSteps DEF Handler
    <3>3. Become(c, m)
      BY <2>3
    <3> HIDE DEF m
    <3> QED
      BY <1>1, <3>2, <3>3, Becomes
  <2> QED
    BY <1>4, <2>1, <2>2, <2>3 DEF RebalanceTask
<1> QED
  BY <1>2, <1>3, <1>4 DEF Rebalance

LEMMA RequestHandlers ==
    ASSUME TypeOK, NEW c \in Calls, Request(c)
    PROVE  HandlersOK'
<1>1. /\ HandlersOK /\ task \in [Tasks -> TaskRow] /\ node \in [Nodes -> NodeRow]
      /\ c \in Procs /\ me[c] \in Handler
  BY Fields DEF TypeOK, Procs
<1>2. CASE RequeueRead(c) \/ RequeueWrite(c)
  BY <1>1, <1>2, EndOK, EditPc DEF RequeueRead, RequeueWrite, Goto, Steps, NodeSteps
<1>3. CASE CancelRead(c)
  <2>1. ASSUME NEW step \in {"cancelWrite", "cancelRelease"},
               Become(c, [me[c] EXCEPT !.copy[me[c].cur] = Copy(task[me[c].cur]), !.pc = step])
        PROVE  HandlersOK'
    <3> DEFINE m == [me[c] EXCEPT !.copy[me[c].cur] = Copy(task[me[c].cur]), !.pc = step]
    <3>1. me[c].cur \in Tasks => Copy(task[me[c].cur]) \in TaskRow
      BY <1>1, CopyOK
    <3>2. m \in Handler /\ m.pc \notin NodeSteps
      BY <1>1, <3>1, OtherSteps DEF Handler
    <3>3. Become(c, m)
      BY <2>1
    <3> HIDE DEF m
    <3> QED
      BY <1>1, <3>2, <3>3, Becomes
  <2> QED
    BY <1>1, <1>3, <2>1, EndOK DEF CancelRead, Cur
<1>4. CASE CancelRelease(c)
  BY <1>1, <1>4, OtherSteps, EditPc DEF CancelRelease, Goto
<1>5. CASE CancelWrite(c) \/ RecoverNode(c) \/ HeartbeatClear(c) \/ NodeWrite(c)
  BY <1>1, <1>5, EndOK DEF CancelWrite, RecoverNode, HeartbeatClear, NodeWrite
<1>6. CASE Recover(c)
  <2>1. CASE ListTasks(c, "recover", Orphaned(me[c].at), "recovering")
    BY <1>1, <2>1, ListTasksOK DEF Orphaned, Steps, NodeSteps
  <2>2. ASSUME NEW t \in me[c].list, me[c].pc = "recovering",
               Become(c, [me[c] EXCEPT !.list = me[c].list \ {t}])
        PROVE  HandlersOK'
    <3>1. me[c].pc \notin NodeSteps /\ me[c].list \ {t} \in SUBSET Tasks
      BY <1>1, <2>2, Fields DEF NodeSteps
    <3> QED
      BY <1>1, <2>2, <3>1, EditList
  <2>3. CASE Goto(c, "recoverNode")
    BY <1>1, <2>3, EditPc DEF Goto, Steps, NodeSteps
  <2> QED
    BY <1>1, <1>5, <1>6, <2>1, <2>2, <2>3 DEF Recover, RecoverTask, At
<1>7. CASE HeartbeatRead(c)
  BY <1>1, <1>7, Fields, EditPcSeen DEF HeartbeatRead, At, Steps, NodeSteps
<1>8. CASE HeartbeatWrite(c)
  BY <1>1, <1>8, Fields, EndOK, EditPc DEF HeartbeatWrite, Goto, At, Steps, NodeSteps
<1> QED
  BY <1>1, <1>2, <1>3, <1>4, <1>5, <1>6, <1>7, <1>8, MigrationHandlers, RebalanceHandlers
  DEF Request

\* Each family of handlers keeps the rows well-formed.
LEMMA SetTaskOK ==
    ASSUME task \in [Tasks -> TaskRow], NEW t, NEW r, t \in Tasks => r \in TaskRow, SetTask(t, r)
    PROVE  task' \in [Tasks -> TaskRow]
BY DEF SetTask

LEMMA SetNodeOK ==
    ASSUME node \in [Nodes -> NodeRow], NEW n, NEW r, n \in Nodes => r \in NodeRow, SetNode(n, r)
    PROVE  node' \in [Nodes -> NodeRow]
BY DEF SetNode

LEMMA AdjustLoadOK ==
    ASSUME node \in [Nodes -> NodeRow], NEW n, NEW delta \in Int, AdjustLoad(n, delta)
    PROVE  node' \in [Nodes -> NodeRow]
<1>1. n \in Nodes => [node[n] EXCEPT !.load = @ + delta] \in NodeRow
  BY DEF NodeRow
<1> QED
  BY <1>1, SetNodeOK DEF AdjustLoad

LEMMA MigrationRows ==
    ASSUME TypeOK, NEW p \in Procs, Migration(p)
    PROVE  task' \in [Tasks -> TaskRow] /\ node' \in [Nodes -> NodeRow] /\ crashes' \in Nat
<1>1. task \in [Tasks -> TaskRow] /\ node \in [Nodes -> NodeRow] /\ crashes \in Nat /\ HandlersOK
  BY DEF TypeOK
<1>2. CASE MigrateRead(p) \/ MigrateRelease(p)
  BY <1>1, <1>2, AdjustLoadOK DEF MigrateRead, MigrateRelease
<1>3. CASE MigrateMark(p)
  <2>1. ASSUME NEW t \in Tasks
        PROVE  [task[t] EXCEPT !.status = "MIGRATING", !.node = NoNode, !.lease = "none"] \in TaskRow
    BY ZenonT(60), <1>1 DEF TaskRow, TaskStatus
  <2> QED
    BY <1>1, <1>3, <2>1, SetTaskOK DEF MigrateMark
<1>4. CASE MigrateQueue(p)
  <2>1. ASSUME NEW t \in Tasks, NEW n \in Nodes \union {NoNode}
        PROVE  [task[t] EXCEPT !.status = "QUEUED", !.ready = TRUE, !.pin = n] \in TaskRow
    BY ZenonT(60), <1>1 DEF TaskRow, TaskStatus
  <2>2. me[p].cur \in Tasks => Mine(p).pin \in Nodes \union {NoNode}
    BY <1>1, Fields DEF Mine, TaskRow
  <2> DEFINE n == IF me[p].aim # NoNode THEN me[p].aim ELSE Mine(p).pin
  <2>3. me[p].cur \in Tasks => n \in Nodes \union {NoNode}
    BY <1>1, <2>2, Fields
  <2>4. /\ SetTask(Cur(p), [task[Cur(p)] EXCEPT !.status = "QUEUED", !.ready = TRUE, !.pin = n])
        /\ UNCHANGED <<node, crashes>>
    BY <1>4 DEF MigrateQueue
  <2> HIDE DEF n
  <2> QED
    BY <1>1, <2>1, <2>3, <2>4, SetTaskOK DEF Cur
<1> QED
  BY <1>2, <1>3, <1>4 DEF Migration

LEMMA DriverRows ==
    ASSUME TypeOK, NEW d \in Drivers, Lookup(d) \/ Tick(d) \/ Driver(d)
    PROVE  task' \in [Tasks -> TaskRow] /\ node' \in [Nodes -> NodeRow] /\ crashes' \in Nat
<1>1. /\ task \in [Tasks -> TaskRow] /\ node \in [Nodes -> NodeRow] /\ crashes \in Nat
      /\ HandlersOK /\ d \in Procs /\ me[d] \in Handler
  BY Fields DEF TypeOK, Procs
<1>2. CASE \/ Lookup(d) \/ Tick(d) \/ NextTask(d) \/ Place(d) \/ Assigned(d) \/ Verdict(d)
           \/ CountRead(d) \/ Settled(d)
  BY <1>1, <1>2 DEF Lookup, Tick, NextTask, Place, Assigned, Verdict, CountRead, Settled
<1>3. CASE Create(d)
  <2>1. [NewTask EXCEPT !.status = "QUEUED"] \in TaskRow
    BY NewRows DEF TaskRow, TaskStatus
  <2> QED
    BY <1>1, <1>3, <2>1, SetTaskOK DEF Create
<1>4. CASE Defer(d)
  <2>1. ASSUME NEW t \in Tasks
        PROVE  [task[t] EXCEPT !.status = "QUEUED", !.ready = FALSE] \in TaskRow
    BY ZenonT(60), <1>1 DEF TaskRow, TaskStatus
  <2> QED
    BY <1>1, <1>4, <2>1, SetTaskOK DEF Defer
<1>5. CASE Assign(d)
  <2>1. ASSUME NEW t \in Tasks, NEW n \in Nodes, NEW k \in Nat
        PROVE  Bound(task[t], n, k) \in TaskRow
    BY ZenonT(60), <1>1 DEF Bound, TaskRow, TaskStatus
  <2>2. me[d].at \in Nodes /\ (me[d].cur \in Tasks => Mine(d).attempts + 1 \in Nat)
    BY <1>1, <1>5, Fields DEF Assign, At, Mine, NodeSteps, TaskRow
  <2> QED
    BY <1>1, <1>5, <2>1, <2>2, SetTaskOK DEF Assign, Cur
<1>6. CASE Load(d)
  BY <1>1, <1>6, AdjustLoadOK DEF Load
<1>7. CASE Dispatch(d)
  <2>1. ASSUME NEW t \in Tasks PROVE [task[t] EXCEPT !.status = "RUNNING"] \in TaskRow
    BY <1>1 DEF TaskRow, TaskStatus
  <2> QED
    BY <1>1, <1>7, <2>1, SetTaskOK DEF Dispatch
<1>8. CASE Unload(d)
  BY <1>1, <1>8, AdjustLoadOK DEF Unload, Released
<1>9. CASE CreditWrite(d)
  <2>1. ASSUME NEW n \in Nodes PROVE Credited(node[n]) \in NodeRow
    BY <1>1 DEF Credited, NodeRow
  <2> QED
    BY <1>1, <1>9, <2>1, SetNodeOK DEF CreditWrite
<1>10. CASE BlameWrite(d)
  <2>1. ASSUME NEW n \in Nodes, NEW k \in Nat PROVE Blamed(node[n], k) \in NodeRow
    BY <1>1 DEF Blamed, NodeRow, NodeStatus
  <2>2. me[d].seen.failures + 1 \in Nat
    BY <1>1, Fields DEF NodeRow
  <2> QED
    BY <1>1, <1>10, <2>1, <2>2, SetNodeOK DEF BlameWrite
<1>11. CASE Settle(d)
  <2>1. ASSUME NEW t \in Tasks, NEW v, NEW e PROVE SettledRow(task[t], v, e) \in TaskRow
    <3>1. Requeued(task[t]) \in TaskRow
      BY ZenonT(60), <1>1 DEF Requeued, TaskRow, TaskStatus
    <3>2. ASSUME NEW s \in {"SUCCEEDED", "FAILED", "DEAD_LETTERED"}
          PROVE  [task[t] EXCEPT !.lease = "none", !.status = s] \in TaskRow
      BY ZenonT(60), <1>1 DEF TaskRow, TaskStatus
    <3> QED
      BY <3>1, <3>2 DEF SettledRow
  <2> QED
    BY <1>1, <1>11, <2>1, SetTaskOK DEF Settle
<1> QED
  BY <1>2, <1>3, <1>4, <1>5, <1>6, <1>7, <1>8, <1>9, <1>10, <1>11 DEF Driver

LEMMA SweepRows ==
    ASSUME TypeOK, NEW s \in Sweepers, SweepBegin(s) \/ Sweep(s)
    PROVE  task' \in [Tasks -> TaskRow] /\ node' \in [Nodes -> NodeRow] /\ crashes' \in Nat
<1>1. /\ task \in [Tasks -> TaskRow] /\ node \in [Nodes -> NodeRow] /\ crashes \in Nat
      /\ s \in Procs
  BY DEF TypeOK, Procs
<1>2. CASE SweepBegin(s) \/ SweepTasks(s) \/ SweepLift(s)
  BY <1>1, <1>2 DEF SweepBegin, SweepTasks, ListTasks, WalkTasks, SweepLift
<1>3. CASE SweepOffline(s)
  <2>1. ASSUME NEW n \in Nodes PROVE [node[n] EXCEPT !.status = "OFFLINE"] \in NodeRow
    BY <1>1 DEF NodeRow, NodeStatus
  <2> QED
    BY <1>1, <1>3, <2>1, SetNodeOK DEF SweepOffline
<1>4. CASE Migration(s)
  BY <1>1, <1>4, MigrationRows
<1>5. CASE SweepLifting(s)
  <2>1. ASSUME NEW n \in Nodes
        PROVE  [node[n] EXCEPT !.status = "DEGRADED", !.bench = "none", !.failures = 0] \in NodeRow
    BY <1>1 DEF NodeRow, NodeStatus
  <2> QED
    BY <1>1, <1>5, <2>1, SetNodeOK DEF SweepLifting
<1> QED
  BY <1>2, <1>3, <1>4, <1>5 DEF Sweep

LEMMA ExecutingNat == ASSUME NEW n PROVE Executing(n) \in Nat
<1> DEFINE S == {d \in Drivers : me[d].at = n /\ At(d, "waiting")}
<1>1. S \subseteq Drivers
  OBVIOUS
<1>2. IsFiniteSet(S)
  BY <1>1, FS_Subset
<1> QED
  BY <1>2, FS_CardinalityType DEF Executing

LEMMA RequestRows ==
    ASSUME TypeOK, NEW c \in Calls, Request(c)
    PROVE  task' \in [Tasks -> TaskRow] /\ node' \in [Nodes -> NodeRow] /\ crashes' \in Nat
<1>1. /\ task \in [Tasks -> TaskRow] /\ node \in [Nodes -> NodeRow] /\ crashes \in Nat
      /\ HandlersOK /\ c \in Procs
  BY DEF TypeOK, Procs
<1>2. CASE Migration(c)
  BY <1>1, <1>2, MigrationRows
<1>3. CASE RequeueRead(c) \/ CancelRead(c) \/ Rebalance(c) \/ HeartbeatRead(c)
  BY <1>1, <1>3 DEF RequeueRead, CancelRead, Rebalance, RebalanceRead, RebalanceNode,
     RebalanceTask, HeartbeatRead
<1>4. CASE RequeueWrite(c)
  <2>1. ASSUME NEW t \in Tasks
        PROVE  [task[t] EXCEPT !.status = "QUEUED", !.node = NoNode, !.attempts = 0,
                               !.ready = TRUE, !.lease = "none"] \in TaskRow
    BY ZenonT(60), <1>1 DEF TaskRow, TaskStatus
  <2> QED
    BY <1>1, <1>4, <2>1, SetTaskOK DEF RequeueWrite
<1>5. CASE CancelRelease(c)
  BY <1>1, <1>5, AdjustLoadOK DEF CancelRelease
<1>6. CASE CancelWrite(c)
  <2>1. ASSUME NEW t \in Tasks
        PROVE  [task[t] EXCEPT !.status = "CANCELLED", !.lease = "none"] \in TaskRow
    BY ZenonT(60), <1>1 DEF TaskRow, TaskStatus
  <2> QED
    BY <1>1, <1>6, <2>1, SetTaskOK DEF CancelWrite
<1>7. CASE Recover(c)
  <2>1. ASSUME NEW t \in Tasks
        PROVE  [task[t] EXCEPT !.status = "QUEUED", !.node = NoNode, !.ready = TRUE,
                               !.lease = "none"] \in TaskRow
    BY ZenonT(60), <1>1 DEF TaskRow, TaskStatus
  <2>2. ASSUME NEW n \in Nodes PROVE [NewNode EXCEPT !.remote = node[n].remote] \in NodeRow
    BY <1>1, NewRows DEF NodeRow
  <2> QED
    BY <1>1, <1>7, <2>1, <2>2, SetTaskOK, SetNodeOK
    DEF Recover, ListTasks, RecoverTask, RecoverNode
<1>8. CASE HeartbeatWrite(c)
  <2>1. ASSUME NEW n \in Nodes, NEW s \in NodeStatus, NEW load \in Int
        PROVE  [node[n] EXCEPT !.status = s, !.load = load] \in NodeRow
    BY <1>1 DEF NodeRow
  <2>2. DerivedStatus(me[c].seen) \subseteq NodeStatus /\ me[c].seen.load \in Int
    BY <1>1, Fields DEF DerivedStatus, NodeRow, NodeStatus
  <2>3. Executing(me[c].at) \in Int
    BY ExecutingNat
  <2> QED
    BY <1>1, <1>8, <2>1, <2>2, <2>3, SetNodeOK DEF HeartbeatWrite
<1>9. CASE HeartbeatClear(c)
  <2>1. ASSUME NEW n \in Nodes PROVE [node[n] EXCEPT !.failures = 0, !.bench = "none"] \in NodeRow
    BY <1>1 DEF NodeRow
  <2> QED
    BY <1>1, <1>9, <2>1, SetNodeOK DEF HeartbeatClear
<1>10. CASE NodeWrite(c)
  <2>1. ASSUME NEW n \in Nodes, NEW request \in {"drain", "resume", "decommission"}
        PROVE  Written(node[n], request) \in NodeRow
    BY <1>1 DEF Written, NodeRow, NodeStatus
  <2> QED
    BY <1>1, <1>10, <2>1, SetNodeOK DEF NodeWrite
<1> QED
  BY <1>2, <1>3, <1>4, <1>5, <1>6, <1>7, <1>8, <1>9, <1>10 DEF Request

LEMMA TimeRows ==
    ASSUME TypeOK, \/ \E t \in Tasks : LeaseExpires(t) \/ BackoffPasses(t)
                   \/ \E n \in Nodes : BenchPasses(n)
    PROVE  TypeOK'
<1>1. /\ task \in [Tasks -> TaskRow] /\ node \in [Nodes -> NodeRow]
      /\ HandlersOK /\ crashes \in Nat
  BY DEF TypeOK
<1>2. ASSUME NEW t \in Tasks
      PROVE  /\ [task[t] EXCEPT !.lease = "expired"] \in TaskRow
             /\ [task[t] EXCEPT !.ready = TRUE] \in TaskRow
  BY <1>1 DEF TaskRow
<1>3. ASSUME NEW n \in Nodes PROVE [node[n] EXCEPT !.bench = "over"] \in NodeRow
  BY <1>1 DEF NodeRow
<1>4. UNCHANGED <<me, crashes>>
  BY DEF LeaseExpires, BackoffPasses, BenchPasses
<1>5. task' \in [Tasks -> TaskRow] /\ node' \in [Nodes -> NodeRow]
  BY <1>1, <1>2, <1>3, SetTaskOK, SetNodeOK DEF LeaseExpires, BackoffPasses, BenchPasses
<1> QED
  BY <1>1, <1>4, <1>5 DEF TypeOK, HandlersOK

LEMMA TypeInit == ASSUME Init PROVE TypeOK
BY NewRows, BlankOK DEF Init, TypeOK, HandlersOK, Blank, NodeSteps

LEMMA TypeStep == ASSUME TypeOK, [Next]_vars PROVE TypeOK'
<1>1. CASE \E d \in Drivers : Lookup(d) \/ Tick(d) \/ Driver(d)
  BY <1>1, DriverHandlers, DriverRows DEF TypeOK
<1>2. CASE \E s \in Sweepers : SweepBegin(s) \/ Sweep(s)
  BY <1>2, SweepHandlers, SweepRows DEF TypeOK
<1>3. CASE \E c \in Calls : Request(c)
  BY <1>3, RequestHandlers, RequestRows DEF TypeOK
<1>4. CASE \E c \in Calls, request \in Ops : CallBegin(c, request)
  <2>1. HandlersOK'
    BY <1>4, CallHandlers
  <2> QED
    BY <1>4, <2>1 DEF CallBegin, TypeOK
<1>5. CASE \E p \in Procs : Crash(p)
  <2>1. HandlersOK'
    BY <1>5, EndOK DEF Crash, TypeOK
  <2> QED
    BY <1>5, <2>1 DEF Crash, TypeOK
<1>6. CASE UNCHANGED vars
  BY <1>6 DEF vars, TypeOK, HandlersOK
<1> QED
  BY <1>1, <1>2, <1>3, <1>4, <1>5, <1>6, TimeRows DEF Next

\* The rows and the handlers' local states keep their shape, and a handler that
\* works on a node knows it, whatever handlers run at the same time.
THEOREM FleetTypeCorrect == Spec => []TypeOK
BY TypeInit, TypeStep, PTL DEF Spec

-----------------------------------------------------------------------------
(* AttemptsBounded.  A driver counts from its own copy of the row, so the   *)
(* copies are bounded with the rows, and whoever is about to assign has an  *)
(* attempt left in the copy it will count from.                             *)

Frugal(h) ==
    /\ \A t \in Tasks : h.copy[t].attempts <= MaxAttempts
    /\ h.pc = "assign" /\ h.cur \in Tasks => h.copy[h.cur].attempts < MaxAttempts
Budget == AttemptsBounded /\ \A p \in Procs : Frugal(me[p])

LEMMA CopyAttempts == \A r \in TaskRow : Copy(r).attempts = r.attempts
BY NewRows DEF Copy, TaskRow

LEMMA BlankFrugal == Frugal(Blank) /\ NewTask.attempts = 0
BY DEF Frugal, Blank, NewTask

LEMMA Became ==
    ASSUME HandlersOK, NEW p \in Procs, NEW m, Become(p, m)
    PROVE  me'[p] = m /\ \A q \in Procs \ {p} : me'[q] = me[q]
BY DEF HandlersOK, Become

\* A step that keeps, forgets or reads copies, and does not go on to assign.
LEMMA StepFrugal ==
    ASSUME TypeOK, Budget, NEW p \in Procs, NEW m, Become(p, m), m.pc # "assign",
           \A t \in Tasks : m.copy[t] \in {me[p].copy[t], NewTask, Copy(task[t])}
    PROVE  Frugal(me'[p])
<1>1. \A t \in Tasks : Copy(task[t]).attempts <= MaxAttempts
  BY CopyAttempts DEF Budget, AttemptsBounded, TypeOK
<1>2. Frugal(m)
  BY <1>1, BlankFrugal DEF Frugal, Budget
<1> QED
  BY <1>2, Became DEF TypeOK

LEMMA GotoFrugal ==
    ASSUME TypeOK, Budget, NEW p \in Procs, NEW step, step # "assign", Goto(p, step)
    PROVE  Frugal(me'[p])
<1> DEFINE m == [me[p] EXCEPT !.pc = step]
<1>1. m.pc = step /\ m.copy = me[p].copy
  BY Fields DEF Handler, TypeOK
<1>2. Become(p, m)
  BY DEF Goto
<1> HIDE DEF m
<1> QED
  BY <1>1, <1>2, StepFrugal

LEMMA EndFrugal ==
    ASSUME TypeOK, Budget, NEW p \in Procs, End(p)
    PROVE  Frugal(me'[p])
<1> DEFINE m == [Blank EXCEPT !.pc = IF p \in Calls THEN "done" ELSE "idle"]
<1>1. m.pc # "assign" /\ m.copy = [t \in Tasks |-> NewTask]
  BY DEF Blank
<1>2. Become(p, m)
  BY DEF End
<1> HIDE DEF m
<1> QED
  BY <1>1, <1>2, StepFrugal

LEMMA ReturnFrugal ==
    ASSUME TypeOK, Budget, NEW d \in Procs, Return(d)
    PROVE  Frugal(me'[d])
<1> DEFINE m == [Blank EXCEPT !.pc = "next", !.list = me[d].list, !.copy = Dropped(d)]
<1>1. m.pc # "assign" /\ m.copy = Dropped(d)
  BY DEF Blank
<1>2. Become(d, m)
  BY DEF Return
<1>3. \A t \in Tasks : Dropped(d)[t] \in {me[d].copy[t], NewTask}
  BY Fields DEF Dropped, TypeOK
<1> HIDE DEF m
<1> QED
  BY <1>1, <1>2, <1>3, StepFrugal

LEMMA DriverFrugal ==
    ASSUME TypeOK, Budget, NEW d \in Drivers, Lookup(d) \/ Tick(d) \/ Driver(d)
    PROVE  Frugal(me'[d])
<1>1. d \in Procs /\ HandlersOK /\ me[d] \in Handler /\ me[d].copy \in [Tasks -> TaskRow]
  BY Fields DEF TypeOK, Procs
<1>2. ASSUME NEW S, NEW t \in Tasks PROVE Copied(S)[t] \in {NewTask, Copy(task[t])}
  BY DEF Copied
<1>3. CASE Lookup(d)
  <2>1. ASSUME NEW t \in Tasks, NEW m, Become(d, m),
               \/ m = [Blank EXCEPT !.pc = "create", !.cur = t]
               \/ m = [Blank EXCEPT !.pc = "place", !.cur = t, !.copy = Copied({t})]
        PROVE  Frugal(me'[d])
    <3>1. m.pc # "assign" /\ m.copy \in {[u \in Tasks |-> NewTask], Copied({t})}
      BY <2>1 DEF Blank
    <3> QED
      BY <1>1, <1>2, <2>1, <3>1, StepFrugal
  <2> QED
    BY <1>3, <2>1 DEF Lookup
<1>4. CASE Create(d)
  <2>1. CASE Become(d, [me[d] EXCEPT !.pc = "place",
                                     !.copy[me[d].cur] = Copy([NewTask EXCEPT !.status = "QUEUED"])])
    <3> DEFINE m == [me[d] EXCEPT !.pc = "place",
                                  !.copy[me[d].cur] = Copy([NewTask EXCEPT !.status = "QUEUED"])]
    <3>1. Copy([NewTask EXCEPT !.status = "QUEUED"]) = NewTask
      BY DEF Copy, NewTask
    <3>2. m.pc # "assign" /\ m.copy = [me[d].copy EXCEPT ![me[d].cur] = NewTask]
      BY <1>1, <3>1 DEF Handler
    <3>3. Become(d, m)
      BY <2>1
    <3> HIDE DEF m
    <3> QED
      BY <1>1, <3>2, <3>3, StepFrugal
  <2> QED
    BY <1>1, <1>4, <2>1, EndFrugal DEF Create, Cur
<1>5. CASE Tick(d)
  <2> DEFINE m == [Blank EXCEPT !.pc = "next", !.list = Claimable, !.copy = Copied(Claimable)]
  <2>1. m.pc # "assign" /\ m.copy = Copied(Claimable)
    BY DEF Blank
  <2>2. Become(d, m)
    BY <1>5 DEF Tick
  <2> HIDE DEF m
  <2> QED
    BY <1>1, <1>2, <2>1, <2>2, StepFrugal
<1>6. CASE NextTask(d)
  <2>1. ASSUME NEW t \in me[d].list, NEW m, Become(d, m),
               m = [Blank EXCEPT !.pc = "place", !.cur = t, !.copy = me[d].copy,
                                 !.list = me[d].list \ {t}]
        PROVE  Frugal(me'[d])
    <3>1. m.pc # "assign" /\ m.copy = me[d].copy
      BY <2>1 DEF Blank
    <3> QED
      BY <1>1, <2>1, <3>1, StepFrugal
  <2> QED
    BY <1>1, <1>6, <2>1, EndFrugal DEF NextTask
<1>7. CASE Place(d)
  <2>1. ASSUME NEW n \in Nodes, AttemptLeft(Mine(d)), NEW m, Become(d, m),
               m = [me[d] EXCEPT !.pc = "assign", !.at = n]
        PROVE  Frugal(me'[d])
    <3>1. m.copy = me[d].copy /\ m.cur = me[d].cur
      BY <1>1, <2>1 DEF Handler
    <3>2. Frugal(m)
      BY <1>1, <2>1, <3>1 DEF Frugal, AttemptLeft, Mine, Budget
    <3> QED
      BY <1>1, <2>1, <3>2, Became
  <2> QED
    BY <1>1, <1>7, <2>1, ReturnFrugal, GotoFrugal DEF Place
<1>8. CASE Defer(d)
  BY <1>1, <1>8, ReturnFrugal DEF Defer
<1>9. ASSUME NEW m, Become(d, m), m.pc # "assign", m.copy = me[d].copy
      PROVE  Frugal(me'[d])
  BY <1>1, <1>9, StepFrugal
<1>10. CASE Assign(d)
  <2>1. LET m == [me[d] EXCEPT !.pc = "assigned", !.tried = @ \union {me[d].at}] IN
        m.pc # "assign" /\ m.copy = me[d].copy
    BY <1>1 DEF Handler
  <2> QED
    BY <1>9, <1>10, <2>1 DEF Assign
<1>11. CASE Verdict(d)
  <2>1. ASSUME NEW v
        PROVE  LET m == [me[d] EXCEPT !.pc = "unload", !.result = v] IN
               m.pc # "assign" /\ m.copy = me[d].copy
    BY <1>1 DEF Handler
  <2> QED
    BY <1>9, <1>11, <2>1 DEF Verdict
<1>12. CASE \/ Load(d) \/ Dispatch(d) \/ Unload(d) \/ CreditWrite(d) \/ Settle(d)
  BY <1>1, <1>12, GotoFrugal DEF Load, Dispatch, Unload, CreditWrite, Settle
<1>13. CASE CountRead(d) \/ BlameWrite(d)
  <2>1. ASSUME NEW step \in {"blameWrite", "settle"}, NEW r
        PROVE  LET m == [me[d] EXCEPT !.pc = step, !.seen = r] IN
               m.pc # "assign" /\ m.copy = me[d].copy
    BY <1>1 DEF Handler
  <2> QED
    BY <1>1, <1>9, <1>13, <2>1, GotoFrugal DEF CountRead, BlameWrite
<1>14. CASE Assigned(d) \/ Settled(d)
  <2>1. ASSUME NEW m, Become(d, m), m.pc # "assign",
               m.copy = [me[d].copy EXCEPT ![me[d].cur] = Copy(task[me[d].cur])]
        PROVE  Frugal(me'[d])
    <3>1. \A t \in Tasks : m.copy[t] \in {me[d].copy[t], Copy(task[t])}
      BY <1>1, <2>1
    <3> QED
      BY <1>1, <2>1, <3>1, StepFrugal
  <2> DEFINE first == [me[d] EXCEPT !.pc = "load", !.copy[Cur(d)] = Copy(task[Cur(d)])]
             again == [me[d] EXCEPT !.pc = "place", !.copy[Cur(d)] = Copy(task[Cur(d)]),
                                    !.at = NoNode, !.result = "ok"]
  <2>2. /\ first.pc # "assign"
        /\ first.copy = [me[d].copy EXCEPT ![me[d].cur] = Copy(task[me[d].cur])]
    BY <1>1 DEF Handler, Cur
  <2>3. /\ again.pc # "assign"
        /\ again.copy = [me[d].copy EXCEPT ![me[d].cur] = Copy(task[me[d].cur])]
    BY <1>1 DEF Handler, Cur
  <2>4. Become(d, first) \/ Become(d, again) \/ Return(d)
    BY <1>14 DEF Assigned, Settled
  <2> HIDE DEF first, again
  <2> QED
    BY <1>1, <2>1, <2>2, <2>3, <2>4, ReturnFrugal
<1> QED
  BY <1>3, <1>4, <1>5, <1>6, <1>7, <1>8, <1>10, <1>11, <1>12, <1>13, <1>14 DEF Driver

\* What a read of one task does to the copies.
LEMMA ReadFrugal ==
    ASSUME TypeOK, Budget, NEW p \in Procs, NEW step, step # "assign",
           Become(p, [me[p] EXCEPT !.copy[Cur(p)] = Copy(task[Cur(p)]), !.pc = step])
    PROVE  Frugal(me'[p])
<1> DEFINE m == [me[p] EXCEPT !.copy[Cur(p)] = Copy(task[Cur(p)]), !.pc = step]
<1>1. me[p] \in Handler /\ me[p].copy \in [Tasks -> TaskRow]
  BY Fields DEF TypeOK
<1>2. m.pc # "assign" /\ m.copy = [me[p].copy EXCEPT ![me[p].cur] = Copy(task[me[p].cur])]
  BY <1>1 DEF Handler, Cur
<1>3. \A t \in Tasks : m.copy[t] \in {me[p].copy[t], Copy(task[t])}
  BY <1>1, <1>2
<1>4. Become(p, m)
  OBVIOUS
<1> HIDE DEF m
<1> QED
  BY <1>2, <1>3, <1>4, StepFrugal

LEMMA MigrationFrugal ==
    ASSUME TypeOK, Budget, NEW p \in Procs, Migration(p)
    PROVE  Frugal(me'[p])
<1>1. me[p] \in Handler /\ HandlersOK
  BY Fields DEF TypeOK
<1>2. CASE MigrateRead(p)
  BY <1>2, ReadFrugal, EndFrugal DEF MigrateRead
<1>3. CASE MigrateRelease(p) \/ MigrateMark(p)
  BY <1>3, GotoFrugal DEF MigrateRelease, MigrateMark
<1>4. CASE MigrateQueue(p)
  <2> DEFINE m == [me[p] EXCEPT !.pc = me[p].back, !.cur = NoTask, !.copy = Dropped(p),
                                !.aim = NoNode, !.back = "end"]
  <2>1. m.pc # "assign" /\ m.copy = Dropped(p)
    BY <1>1, Fields DEF Handler
  <2>2. \A t \in Tasks : Dropped(p)[t] \in {me[p].copy[t], NewTask}
    BY <1>1, Fields DEF Dropped
  <2>3. End(p) \/ Become(p, m)
    BY <1>4 DEF MigrateQueue
  <2> HIDE DEF m
  <2> QED
    BY <2>1, <2>2, <2>3, EndFrugal, StepFrugal
<1> QED
  BY <1>2, <1>3, <1>4 DEF Migration

LEMMA SweepFrugal ==
    ASSUME TypeOK, Budget, NEW s \in Sweepers, SweepBegin(s) \/ Sweep(s)
    PROVE  Frugal(me'[s])
<1>1. s \in Procs /\ me[s] \in Handler
  BY Fields DEF TypeOK, Procs
<1>2. ASSUME NEW m, Become(s, m), m.pc # "assign", m.copy \in {Blank.copy, me[s].copy}
      PROVE  Frugal(me'[s])
  BY <1>1, <1>2, StepFrugal DEF Blank
<1>3. CASE SweepBegin(s) \/ SweepLift(s)
  <2>1. ASSUME NEW step \in {"nodes", "lifting"}, NEW N
        PROVE  LET m == [Blank EXCEPT !.pc = step, !.nlist = N] IN
               m.pc # "assign" /\ m.copy = Blank.copy
    BY DEF Blank
  <2> QED
    BY <1>2, <1>3, <2>1 DEF SweepBegin, SweepLift
<1>4. CASE SweepOffline(s)
  <2>1. LET m == [Blank EXCEPT !.pc = "leases", !.moved = me[s].moved] IN
        m.pc # "assign" /\ m.copy = Blank.copy
    BY DEF Blank
  <2>2. ASSUME NEW n
        PROVE  LET m == [Blank EXCEPT !.pc = "orphans", !.at = n, !.nlist = me[s].nlist \ {n},
                                      !.moved = me[s].moved] IN
               m.pc # "assign" /\ m.copy = Blank.copy
    BY DEF Blank
  <2> QED
    BY <1>2, <1>4, <2>1, <2>2 DEF SweepOffline
<1>5. CASE SweepTasks(s)
  <2>1. ASSUME NEW step \in {"orphan", "lease"}, NEW S
        PROVE  LET m == [me[s] EXCEPT !.pc = step, !.list = S] IN
               m.pc # "assign" /\ m.copy = me[s].copy
    BY <1>1 DEF Handler
  <2>2. ASSUME NEW t, NEW here
        PROVE  LET m == [me[s] EXCEPT !.pc = "migrate", !.cur = t, !.list = me[s].list \ {t},
                                      !.back = here, !.moved = me[s].moved \union {t}] IN
               m.pc # "assign" /\ m.copy = me[s].copy
    BY <1>1 DEF Handler
  <2> QED
    BY <1>1, <1>2, <1>5, <2>1, <2>2, GotoFrugal DEF SweepTasks, ListTasks, WalkTasks
<1>6. CASE SweepLifting(s)
  <2>1. ASSUME NEW n, me[s].pc = "lifting"
        PROVE  LET m == [me[s] EXCEPT !.nlist = me[s].nlist \ {n}] IN
               m.pc # "assign" /\ m.copy = me[s].copy
    BY <1>1, <2>1 DEF Handler
  <2> QED
    BY <1>1, <1>2, <1>6, <2>1, EndFrugal DEF SweepLifting, At
<1> QED
  BY <1>1, <1>3, <1>4, <1>5, <1>6, MigrationFrugal DEF Sweep

LEMMA RequestFrugal ==
    ASSUME TypeOK, Budget, NEW c \in Calls,
           Request(c) \/ \E request \in Ops : CallBegin(c, request)
    PROVE  Frugal(me'[c])
<1>1. c \in Procs /\ me[c] \in Handler
  BY Fields DEF TypeOK, Procs
<1>2. ASSUME NEW m, Become(c, m), m.pc # "assign", m.copy \in {Blank.copy, me[c].copy}
      PROVE  Frugal(me'[c])
  BY <1>1, <1>2, StepFrugal DEF Blank
<1>3. ASSUME NEW request \in Ops, CallBegin(c, request)
      PROVE  Frugal(me'[c])
  <2>1. request # "assign"
    BY DEF AllOps
  <2>2. ASSUME NEW t, NEW n
        PROVE  LET m == [Blank EXCEPT !.pc = request, !.cur = t, !.aim = n] IN
               m.pc # "assign" /\ m.copy = Blank.copy
    BY <2>1 DEF Blank
  <2>3. ASSUME NEW n
        PROVE  LET m == [Blank EXCEPT !.pc = request, !.at = n] IN
               m.pc # "assign" /\ m.copy = Blank.copy
    BY <2>1 DEF Blank
  <2> QED
    BY <1>1, <1>2, <1>3, <2>1, <2>2, <2>3, GotoFrugal DEF CallBegin
<1>4. CASE RequeueRead(c) \/ RequeueWrite(c) \/ CancelRead(c) \/ CancelRelease(c) \/ CancelWrite(c)
  BY <1>1, <1>4, GotoFrugal, EndFrugal, ReadFrugal
  DEF RequeueRead, RequeueWrite, CancelRead, CancelRelease, CancelWrite
<1>5. CASE Recover(c) \/ RebalanceTask(c)
  <2>1. ASSUME NEW S
        PROVE  LET m == [me[c] EXCEPT !.pc = "recovering", !.list = S] IN
               m.pc # "assign" /\ m.copy = me[c].copy
    BY <1>1 DEF Handler
  <2>2. ASSUME NEW t, me[c].pc # "assign"
        PROVE  LET m == [me[c] EXCEPT !.list = me[c].list \ {t}] IN
               m.pc # "assign" /\ m.copy = me[c].copy
    BY <1>1, <2>2 DEF Handler
  <2>3. ASSUME NEW t, NEW n, NEW R
        PROVE  LET m == [me[c] EXCEPT !.pc = "migrate", !.cur = t, !.list = me[c].list \ {t},
                                      !.aim = n, !.room = R, !.back = "shift"] IN
               m.pc # "assign" /\ m.copy = me[c].copy
    BY <1>1 DEF Handler
  <2>4. CASE Recover(c)
    BY <1>1, <1>2, <2>1, <2>2, <2>4, GotoFrugal, EndFrugal
    DEF Recover, ListTasks, RecoverTask, RecoverNode, At
  <2>5. CASE RebalanceTask(c)
    <3>1. CASE Goto(c, "hot")
      BY <1>1, <3>1, GotoFrugal
    <3>2. ASSUME NEW t, Become(c, [me[c] EXCEPT !.list = me[c].list \ {t}])
          PROVE  Frugal(me'[c])
      BY <1>2, <2>2, <2>5, <3>2 DEF RebalanceTask, At
    <3>3. ASSUME NEW t, NEW n, NEW R,
                 Become(c, [me[c] EXCEPT !.pc = "migrate", !.cur = t, !.list = me[c].list \ {t},
                              !.aim = n, !.room = R, !.back = "shift"])
          PROVE  Frugal(me'[c])
      BY <1>2, <2>3, <3>3
    <3> QED
      BY <2>5, <3>1, <3>2, <3>3 DEF RebalanceTask
  <2> QED
    BY <1>5, <2>4, <2>5
<1>6. CASE RebalanceRead(c)
  <2>1. LET m == [me[c] EXCEPT !.pc = "hot", !.room = Cold, !.nlist = Hot] IN
        m.pc # "assign" /\ m.copy = me[c].copy
    BY <1>1 DEF Handler
  <2> QED
    BY <1>1, <1>2, <1>6, <2>1, EndFrugal DEF RebalanceRead
<1>7. CASE RebalanceNode(c)
  <2>1. ASSUME NEW n, NEW S, NEW m, Become(c, m),
               m = [me[c] EXCEPT !.pc = "shift", !.nlist = me[c].nlist \ {n}, !.list = S,
                                 !.copy = Copied(S)]
        PROVE  Frugal(me'[c])
    <3>1. m.pc # "assign" /\ m.copy = Copied(S)
      BY <1>1, <2>1 DEF Handler
    <3>2. \A t \in Tasks : Copied(S)[t] \in {NewTask, Copy(task[t])}
      BY DEF Copied
    <3> QED
      BY <1>1, <2>1, <3>1, <3>2, StepFrugal
  <2> QED
    BY <1>1, <1>7, <2>1, EndFrugal DEF RebalanceNode
<1>8. CASE HeartbeatRead(c)
  <2>1. LET m == [me[c] EXCEPT !.pc = "beat", !.seen = node[me[c].at]] IN
        m.pc # "assign" /\ m.copy = me[c].copy
    BY <1>1 DEF Handler
  <2> QED
    BY <1>2, <1>8, <2>1 DEF HeartbeatRead
<1>9. CASE HeartbeatWrite(c) \/ HeartbeatClear(c) \/ NodeWrite(c)
  BY <1>1, <1>9, GotoFrugal, EndFrugal DEF HeartbeatWrite, HeartbeatClear, NodeWrite
<1> QED
  BY <1>1, <1>3, <1>4, <1>5, <1>6, <1>7, <1>8, <1>9, MigrationFrugal DEF Request, Rebalance

\* The rows: only assign raises the count, by one, from a copy with an attempt left.
LEMMA AttemptsStep ==
    ASSUME TypeOK, Budget, [Next]_vars
    PROVE  AttemptsBounded'
<1>1. ASSUME NEW t, NEW r, SetTask(t, r), t \in Tasks => r.attempts <= MaxAttempts
      PROVE  AttemptsBounded'
  BY <1>1 DEF SetTask, AttemptsBounded, Budget, TypeOK
<1>2. ASSUME UNCHANGED task PROVE AttemptsBounded'
  BY <1>2 DEF AttemptsBounded, Budget
<1>3. \A t \in Tasks : task[t] \in TaskRow /\ task[t].attempts <= MaxAttempts
  BY DEF TypeOK, Budget, AttemptsBounded
<1>4. ASSUME NEW p \in Procs, Migration(p) PROVE AttemptsBounded'
  <2>1. ASSUME NEW t \in Tasks, NEW n
        PROVE  /\ [task[t] EXCEPT !.status = "MIGRATING", !.node = NoNode, !.lease = "none"].attempts
                     = task[t].attempts
               /\ [task[t] EXCEPT !.status = "QUEUED", !.ready = TRUE, !.pin = n].attempts
                     = task[t].attempts
    BY <1>3 DEF TaskRow
  <2> QED
    BY ZenonT(60), <1>1, <1>2, <1>3, <1>4, <2>1
    DEF Migration, MigrateRead, MigrateRelease, MigrateMark, MigrateQueue
<1>5. ASSUME NEW d \in Drivers, Assign(d) PROVE AttemptsBounded'
  <2>1. me[d].cur \in Tasks => Mine(d).attempts + 1 <= MaxAttempts
    <3>1. HandlersOK /\ d \in Procs /\ Frugal(me[d]) /\ me[d].pc = "assign"
      BY <1>5 DEF TypeOK, Procs, Budget, Assign, At
    <3>2. me[d].cur \in Tasks => Mine(d).attempts \in Nat /\ Mine(d).attempts < MaxAttempts
      BY <3>1, Fields DEF Frugal, Mine, TaskRow
    <3> QED
      BY <3>2
  <2>2. ASSUME NEW t \in Tasks, NEW n, NEW k PROVE Bound(task[t], n, k).attempts = k
    BY <1>3 DEF Bound, TaskRow
  <2> QED
    BY <1>1, <1>5, <2>1, <2>2 DEF Assign, Cur
<1>6. ASSUME NEW d \in Drivers, Lookup(d) \/ Tick(d) \/ Driver(d) PROVE AttemptsBounded'
  <2>1. [NewTask EXCEPT !.status = "QUEUED"].attempts <= MaxAttempts
    BY DEF NewTask
  <2>2. ASSUME NEW t \in Tasks
        PROVE  /\ [task[t] EXCEPT !.status = "QUEUED", !.ready = FALSE].attempts = task[t].attempts
               /\ [task[t] EXCEPT !.status = "RUNNING"].attempts = task[t].attempts
               /\ \A v, e : SettledRow(task[t], v, e).attempts = task[t].attempts
    BY <1>3 DEF TaskRow, SettledRow, Requeued
  <2>3. CASE Create(d)
    <3>1. UNCHANGED task \/ SetTask(Cur(d), [NewTask EXCEPT !.status = "QUEUED"])
      BY <2>3 DEF Create
    <3> QED
      BY <1>1, <1>2, <2>1, <3>1
  <2>4. CASE Defer(d)
    BY <1>1, <1>3, <2>2, <2>4 DEF Defer
  <2>5. CASE Dispatch(d)
    BY <1>1, <1>3, <2>2, <2>5 DEF Dispatch
  <2>6. CASE Settle(d)
    BY <1>1, <1>3, <2>2, <2>6 DEF Settle
  <2>7. CASE \/ Lookup(d) \/ Tick(d) \/ NextTask(d) \/ Place(d) \/ Assigned(d) \/ Load(d)
             \/ Verdict(d) \/ Unload(d) \/ CountRead(d) \/ CreditWrite(d) \/ BlameWrite(d)
             \/ Settled(d)
    BY <1>2, <2>7 DEF Lookup, Tick, NextTask, Place, Assigned, Load, Verdict, Unload, CountRead,
       CreditWrite, BlameWrite, Settled
  <2> QED
    BY <1>5, <1>6, <2>3, <2>4, <2>5, <2>6, <2>7 DEF Driver
<1>7. ASSUME NEW s \in Sweepers, SweepBegin(s) \/ Sweep(s) PROVE AttemptsBounded'
  <2>1. s \in Procs
    BY DEF Procs
  <2> QED
    BY <1>2, <1>4, <1>7, <2>1 DEF SweepBegin, Sweep, SweepOffline, SweepTasks, ListTasks, WalkTasks,
       SweepLift, SweepLifting
<1>8. ASSUME NEW c \in Calls, Request(c) PROVE AttemptsBounded'
  <2>1. c \in Procs
    BY DEF Procs
  <2>2. ASSUME NEW t \in Tasks
        PROVE  /\ [task[t] EXCEPT !.status = "QUEUED", !.node = NoNode, !.attempts = 0,
                                  !.ready = TRUE, !.lease = "none"].attempts <= MaxAttempts
               /\ [task[t] EXCEPT !.status = "CANCELLED", !.lease = "none"].attempts
                     = task[t].attempts
               /\ [task[t] EXCEPT !.status = "QUEUED", !.node = NoNode, !.ready = TRUE,
                                  !.lease = "none"].attempts = task[t].attempts
    BY <1>3 DEF TaskRow
  <2>3. CASE RequeueWrite(c)
    BY <1>1, <2>2, <2>3 DEF RequeueWrite
  <2>6. CASE CancelWrite(c)
    BY <1>1, <1>3, <2>2, <2>6 DEF CancelWrite
  <2>4. CASE Recover(c)
    BY <1>1, <1>2, <1>3, <2>2, <2>4 DEF Recover, ListTasks, RecoverTask, RecoverNode
  <2>5. CASE \/ RequeueRead(c) \/ CancelRead(c) \/ CancelRelease(c) \/ Rebalance(c)
             \/ HeartbeatRead(c) \/ HeartbeatWrite(c) \/ HeartbeatClear(c) \/ NodeWrite(c)
    BY <1>2, <2>5 DEF RequeueRead, CancelRead, CancelRelease, Rebalance, RebalanceRead,
       RebalanceNode, RebalanceTask, HeartbeatRead, HeartbeatWrite, HeartbeatClear, NodeWrite
  <2> QED
    BY <1>4, <1>8, <2>1, <2>3, <2>4, <2>5, <2>6 DEF Request
<1>9. ASSUME NEW t \in Tasks, LeaseExpires(t) \/ BackoffPasses(t) PROVE AttemptsBounded'
  <2>1. /\ [task[t] EXCEPT !.lease = "expired"].attempts = task[t].attempts
        /\ [task[t] EXCEPT !.ready = TRUE].attempts = task[t].attempts
    BY <1>3 DEF TaskRow
  <2> QED
    BY <1>1, <1>3, <1>9, <2>1 DEF LeaseExpires, BackoffPasses
<1>10. CASE \/ \E n \in Nodes : BenchPasses(n)
            \/ \E p \in Procs : Crash(p)
            \/ \E c \in Calls, request \in Ops : CallBegin(c, request)
            \/ UNCHANGED vars
  BY <1>2, <1>10 DEF BenchPasses, Crash, CallBegin, vars
<1> QED
  BY <1>6, <1>7, <1>8, <1>9, <1>10 DEF Next

\* A step of no handler.
Passive ==
    \/ \E t \in Tasks : LeaseExpires(t) \/ BackoffPasses(t)
    \/ \E n \in Nodes : BenchPasses(n)
    \/ UNCHANGED vars

\* A step of one handler leaves the others' copies alone.
LEMMA OthersKeep ==
    ASSUME TypeOK, [Next]_vars
    PROVE  \/ UNCHANGED me /\ Passive
           \/ \E p \in Procs :
                 /\ \A q \in Procs \ {p} : me'[q] = me[q]
                 /\ \/ p \in Drivers /\ (Lookup(p) \/ Tick(p) \/ Driver(p))
                    \/ p \in Sweepers /\ (SweepBegin(p) \/ Sweep(p))
                    \/ p \in Calls /\ (Request(p) \/ \E request \in Ops : CallBegin(p, request))
                    \/ Crash(p)
<1>1. ASSUME NEW p \in Procs, NEW m, Become(p, m) PROVE \A q \in Procs \ {p} : me'[q] = me[q]
  BY <1>1, Became DEF TypeOK
<1>2. ASSUME NEW p \in Procs, NEW step, Goto(p, step) \/ End(p) \/ Return(p)
      PROVE  \A q \in Procs \ {p} : me'[q] = me[q]
  BY <1>1, <1>2 DEF Goto, End, Return
<1>3. ASSUME NEW p \in Procs, Migration(p) PROVE \A q \in Procs \ {p} : me'[q] = me[q]
  BY <1>1, <1>2, <1>3 DEF Migration, MigrateRead, MigrateRelease, MigrateMark, MigrateQueue
<1>4. ASSUME NEW d \in Drivers, Lookup(d) \/ Tick(d) \/ Driver(d)
      PROVE  d \in Procs /\ \A q \in Procs \ {d} : me'[q] = me[q]
  <2>1. d \in Procs
    BY DEF Procs
  <2> QED
    BY <1>1, <1>2, <1>4, <2>1
    DEF Lookup, Tick, Driver, Create, NextTask, Place, Defer, Assign, Assigned, Load, Dispatch,
        Verdict, Unload, CountRead, CreditWrite, BlameWrite, Settle, Settled
<1>5. ASSUME NEW s \in Sweepers, SweepBegin(s) \/ Sweep(s)
      PROVE  s \in Procs /\ \A q \in Procs \ {s} : me'[q] = me[q]
  <2>1. s \in Procs
    BY DEF Procs
  <2> QED
    BY <1>1, <1>2, <1>3, <1>5, <2>1
    DEF SweepBegin, Sweep, SweepOffline, SweepTasks, ListTasks, WalkTasks, SweepLift, SweepLifting
<1>6. ASSUME NEW c \in Calls, Request(c) \/ \E request \in Ops : CallBegin(c, request)
      PROVE  c \in Procs /\ \A q \in Procs \ {c} : me'[q] = me[q]
  <2>1. c \in Procs
    BY DEF Procs
  <2>2. CASE Request(c)
    BY <1>1, <1>2, <1>3, <2>1, <2>2
    DEF Request, RequeueRead, RequeueWrite, CancelRead, CancelRelease, CancelWrite, Recover,
        ListTasks, RecoverTask, RecoverNode, Rebalance, RebalanceRead, RebalanceNode,
        RebalanceTask, HeartbeatRead, HeartbeatWrite, HeartbeatClear, NodeWrite
  <2> QED
    BY <1>1, <1>2, <1>6, <2>1, <2>2 DEF CallBegin
<1>7. ASSUME NEW p \in Procs, Crash(p) PROVE \A q \in Procs \ {p} : me'[q] = me[q]
  BY <1>2, <1>7 DEF Crash
<1>8. CASE Passive
  BY <1>8 DEF Passive, LeaseExpires, BackoffPasses, BenchPasses, vars
<1> QED
  BY <1>4, <1>5, <1>6, <1>7, <1>8 DEF Next, Passive

LEMMA BudgetStep == ASSUME TypeOK, Budget, [Next]_vars PROVE Budget'
<1>1. CASE UNCHANGED me
  BY <1>1, AttemptsStep DEF Budget
<1>2. ASSUME NEW p \in Procs, \A q \in Procs \ {p} : me'[q] = me[q], Frugal(me'[p])
      PROVE  Budget'
  BY <1>2, AttemptsStep DEF Budget
<1>3. ASSUME NEW p \in Procs, Crash(p) PROVE Frugal(me'[p])
  BY <1>3, EndFrugal DEF Crash
<1> QED
  BY <1>1, <1>2, <1>3, OthersKeep, DriverFrugal, SweepFrugal, RequestFrugal

\* No interleaving of drives, sweeps and requests attempts a task more often
\* than maxAttempts since it was last requeued.
THEOREM FleetAttemptsBounded == Spec => []AttemptsBounded
<1>1. Init => Budget
  BY BlankFrugal DEF Init, Budget, AttemptsBounded
<1> QED
  BY <1>1, TypeInit, TypeStep, BudgetStep, PTL DEF Spec, Budget

-----------------------------------------------------------------------------
(* NobodyForgotten.  It is inductive: a handler that owes a task keeps on   *)
(* owing it or takes it out of its status, and whoever brings a task into   *)
(* such a status owes it.                                                   *)

Open(t) == InFlight(t) \/ task[t].status = "MIGRATING"
\* What a step of p may do about t.
Minds(p, t) ==
    /\ Owes(p, t) => Owes(p, t)' \/ ~Open(t)'
    /\ ~Open(t) /\ Open(t)' => Owes(p, t)'

Underway == {"assigned", "load", "dispatch", "waiting", "unload", "credit",
             "creditWrite", "blame", "blameWrite", "settle"}

LEMMA OwesDef ==
    ASSUME NEW p \in Procs, NEW t
    PROVE  /\ Owes(p, t) <=> me[p].cur = t /\ me[p].pc \in (IF p \in Drivers THEN Underway ELSE {"unmark"})
           /\ Owes(p, t)' <=> me'[p].cur = t /\ me'[p].pc \in (IF p \in Drivers THEN Underway ELSE {"unmark"})
BY DEF Owes, OnTask, Cur, At, Underway

\* A write of one row, and the status it leaves.
LEMMA Rewritten ==
    ASSUME TypeOK, NEW t \in Tasks, NEW u, NEW r, SetTask(u, r)
    PROVE  (u = t => task'[t] = r) /\ (u # t => task'[t] = task[t])
BY DEF SetTask, TypeOK

LEMMA Moved ==
    ASSUME TypeOK, NEW p \in Procs, NEW step, Goto(p, step)
    PROVE  me'[p].pc = step /\ me'[p].cur = me[p].cur
<1>1. me'[p] = [me[p] EXCEPT !.pc = step]
  BY Became DEF Goto, TypeOK
<1> QED
  BY <1>1, Fields DEF Handler, TypeOK

LEMMA DriverMinds ==
    ASSUME TypeOK, NEW d \in Drivers, Lookup(d) \/ Tick(d) \/ Driver(d), NEW t \in Tasks
    PROVE  Minds(d, t)
<1>1. d \in Procs /\ HandlersOK /\ me[d] \in Handler /\ task[t] \in TaskRow
  BY Fields DEF TypeOK, Procs
<1>2. ASSUME me[d].pc \notin Underway, task'[t] = task[t] PROVE Minds(d, t)
  BY <1>1, <1>2, OwesDef DEF Minds, Open, InFlight
<1>3. ASSUME me'[d].pc \in Underway, me'[d].cur = me[d].cur,
             me[d].cur = t \/ task'[t] = task[t]
      PROVE  Minds(d, t)
  BY <1>1, <1>3, OwesDef DEF Minds, Open, InFlight
<1>4. ASSUME task'[t].status \notin {"ASSIGNED", "RUNNING", "MIGRATING"} PROVE Minds(d, t)
  BY <1>4 DEF Minds, Open, InFlight
<1>5. CASE Lookup(d) \/ Tick(d) \/ NextTask(d) \/ Place(d) \/ Settled(d)
  BY <1>2, <1>5 DEF Lookup, Tick, NextTask, Place, Settled, At, Underway
<1>6. CASE Create(d) \/ Defer(d)
  <2>1. [NewTask EXCEPT !.status = "QUEUED"].status = "QUEUED"
    BY DEF NewTask
  <2>2. [task[t] EXCEPT !.status = "QUEUED", !.ready = FALSE].status = "QUEUED"
    BY <1>1 DEF TaskRow
  <2>3. me[d].pc \notin Underway
    BY <1>6 DEF Create, Defer, At, Underway
  <2>4. CASE Create(d)
    BY <1>2, <1>4, <2>1, <2>3, <2>4, Rewritten DEF Create
  <2>5. CASE Defer(d)
    BY <1>2, <1>4, <2>2, <2>3, <2>5, Rewritten DEF Defer
  <2> QED
    BY <1>6, <2>4, <2>5
<1>7. CASE Assign(d)
  <2>1. /\ [me[d] EXCEPT !.pc = "assigned", !.tried = me[d].tried \union {me[d].at}].pc = "assigned"
        /\ [me[d] EXCEPT !.pc = "assigned", !.tried = me[d].tried \union {me[d].at}].cur = me[d].cur
    BY <1>1 DEF Handler
  <2>2. me'[d].pc \in Underway /\ me'[d].cur = me[d].cur
    BY <1>1, <1>7, <2>1, Became DEF Assign, Underway
  <2> QED
    BY <1>3, <1>7, <2>2, Rewritten DEF Assign, Cur
<1>8. CASE Assigned(d)
  <2>1. /\ [me[d] EXCEPT !.pc = "load", !.copy[Cur(d)] = Copy(task[Cur(d)])].pc = "load"
        /\ [me[d] EXCEPT !.pc = "load", !.copy[Cur(d)] = Copy(task[Cur(d)])].cur = me[d].cur
    BY <1>1 DEF Handler
  <2>2. me'[d].pc \in Underway /\ me'[d].cur = me[d].cur
    BY <1>1, <1>8, <2>1, Became DEF Assigned, Underway
  <2> QED
    BY <1>3, <1>8, <2>2 DEF Assigned
<1>9. CASE Verdict(d)
  <2>1. ASSUME NEW v
        PROVE  LET m == [me[d] EXCEPT !.pc = "unload", !.result = v] IN
               m.pc = "unload" /\ m.cur = me[d].cur
    BY <1>1 DEF Handler
  <2>2. me'[d].pc \in Underway /\ me'[d].cur = me[d].cur
    BY <1>1, <1>9, <2>1, Became DEF Verdict, Underway
  <2> QED
    BY <1>3, <1>9, <2>2 DEF Verdict
<1>10. CASE Load(d) \/ Unload(d) \/ CreditWrite(d)
  <2>1. me'[d].pc \in Underway /\ me'[d].cur = me[d].cur
    BY <1>1, <1>10, Moved DEF Load, Unload, CreditWrite, Underway
  <2> QED
    BY <1>3, <1>10, <2>1 DEF Load, Unload, CreditWrite
<1>11. CASE CountRead(d) \/ BlameWrite(d)
  <2>1. ASSUME NEW step \in {"blameWrite", "settle"}, NEW r,
               Become(d, [me[d] EXCEPT !.pc = step, !.seen = r])
        PROVE  me'[d].pc \in Underway /\ me'[d].cur = me[d].cur
    <3>1. me'[d] = [me[d] EXCEPT !.pc = step, !.seen = r]
      BY <1>1, <2>1, Became
    <3> QED
      BY <1>1, <3>1 DEF Handler, Underway
  <2>2. ASSUME NEW step \in {"settle", "creditWrite"}, Goto(d, step)
        PROVE  me'[d].pc \in Underway /\ me'[d].cur = me[d].cur
    BY <1>1, <2>2, Moved DEF Underway
  <2>3. me'[d].pc \in Underway /\ me'[d].cur = me[d].cur
    BY <1>11, <2>1, <2>2 DEF CountRead, BlameWrite
  <2> QED
    BY <1>3, <1>11, <2>3 DEF CountRead, BlameWrite
<1>12. CASE Dispatch(d)
  <2>1. me'[d].pc \in Underway /\ me'[d].cur = me[d].cur
    BY <1>1, <1>12, Moved DEF Dispatch, Underway
  <2> QED
    BY <1>3, <1>12, <2>1, Rewritten DEF Dispatch, Cur
<1>13. CASE Settle(d)
  <2>1. me'[d].pc = "settled" /\ me'[d].cur = me[d].cur
    BY <1>13, <1>1, Moved DEF Settle
  <2>2. ASSUME NEW v, NEW e
        PROVE  SettledRow(task[t], v, e).status \notin {"ASSIGNED", "RUNNING", "MIGRATING"}
    BY <1>1 DEF SettledRow, Requeued, TaskRow
  <2>3. CASE me[d].cur = t
    BY <1>4, <1>13, <2>2, <2>3, Rewritten DEF Settle, Cur
  <2>4. CASE me[d].cur # t
    BY <1>1, <1>13, <2>4, Rewritten, OwesDef DEF Settle, Cur, Minds, Open, InFlight
  <2> QED
    BY <2>3, <2>4
<1> QED
  BY <1>5, <1>6, <1>7, <1>8, <1>9, <1>10, <1>11, <1>12, <1>13 DEF Driver

LEMMA MigrationMinds ==
    ASSUME TypeOK, NEW p \in Procs \ Drivers, Migration(p), NEW t \in Tasks
    PROVE  Minds(p, t)
<1>1. HandlersOK /\ me[p] \in Handler /\ task[t] \in TaskRow
  BY Fields DEF TypeOK
<1>2. CASE MigrateRead(p) \/ MigrateRelease(p)
  BY <1>2, OwesDef DEF MigrateRead, MigrateRelease, At, Minds, Open, InFlight
<1>3. CASE MigrateMark(p)
  <2>1. me'[p].pc = "unmark" /\ me'[p].cur = me[p].cur /\ me[p].pc = "mark"
    BY <1>3, Moved DEF MigrateMark, At
  <2>2. me[p].cur = t \/ task'[t] = task[t]
    BY <1>3, Rewritten DEF MigrateMark, Cur
  <2> QED
    BY <2>1, <2>2, OwesDef DEF Minds, Open, InFlight
<1>4. CASE MigrateQueue(p)
  <2>1. ASSUME NEW n
        PROVE  [task[t] EXCEPT !.status = "QUEUED", !.ready = TRUE, !.pin = n].status = "QUEUED"
    BY <1>1 DEF TaskRow
  <2>2. task'[t].status = "QUEUED" \/ (me[p].cur # t /\ task'[t] = task[t])
    <3> DEFINE n == IF me[p].aim # NoNode THEN me[p].aim ELSE Mine(p).pin
    <3>1. SetTask(me[p].cur, [task[me[p].cur] EXCEPT !.status = "QUEUED", !.ready = TRUE, !.pin = n])
      BY <1>4 DEF MigrateQueue, Cur
    <3>2. [task[t] EXCEPT !.status = "QUEUED", !.ready = TRUE, !.pin = n].status = "QUEUED"
      BY <2>1
    <3> HIDE DEF n
    <3>3. CASE me[p].cur = t
      <4>1. task'[t] = [task[me[p].cur] EXCEPT !.status = "QUEUED", !.ready = TRUE, !.pin = n]
        BY <3>1, <3>3, Rewritten
      <4> QED
        BY <3>2, <3>3, <4>1
    <3>4. CASE me[p].cur # t
      BY <3>1, <3>4, Rewritten
    <3> QED
      BY <3>3, <3>4
  <2> QED
    BY <2>2, OwesDef DEF Minds, Open, InFlight
<1> QED
  BY <1>2, <1>3, <1>4 DEF Migration

LEMMA SweepMinds ==
    ASSUME TypeOK, NEW s \in Sweepers, SweepBegin(s) \/ Sweep(s), NEW t \in Tasks
    PROVE  Minds(s, t)
<1>1. s \in Procs \ Drivers
  BY DEF Procs
<1>2. CASE Migration(s)
  BY <1>1, <1>2, MigrationMinds
<1>3. CASE \/ SweepBegin(s) \/ SweepOffline(s) \/ SweepTasks(s) \/ SweepLift(s) \/ SweepLifting(s)
  <2>1. me[s].pc # "unmark" /\ UNCHANGED task
    BY <1>3 DEF SweepBegin, SweepOffline, SweepTasks, ListTasks, WalkTasks, SweepLift, SweepLifting,
       At
  <2> QED
    BY <1>1, <2>1, OwesDef DEF Minds, Open, InFlight
<1> QED
  BY <1>2, <1>3 DEF Sweep

LEMMA RequestMinds ==
    ASSUME TypeOK, NEW c \in Calls, Request(c) \/ \E request \in Ops : CallBegin(c, request),
           NEW t \in Tasks
    PROVE  Minds(c, t)
<1>1. c \in Procs \ Drivers /\ task[t] \in TaskRow
  BY DEF Procs, TypeOK
<1>2. ASSUME me[c].pc # "unmark",
             \/ task'[t] = task[t]
             \/ task'[t].status \notin {"ASSIGNED", "RUNNING", "MIGRATING"}
      PROVE  Minds(c, t)
  BY <1>1, <1>2, OwesDef DEF Minds, Open, InFlight
<1>3. CASE Migration(c)
  BY <1>1, <1>3, MigrationMinds
<1>4. CASE RequeueWrite(c)
  <2>1. [task[t] EXCEPT !.status = "QUEUED", !.node = NoNode, !.attempts = 0, !.ready = TRUE,
                        !.lease = "none"].status = "QUEUED"
    BY <1>1 DEF TaskRow
  <2> QED
    BY <1>2, <1>4, <2>1, Rewritten DEF RequeueWrite, At
<1>5. CASE CancelWrite(c)
  <2>1. [task[t] EXCEPT !.status = "CANCELLED", !.lease = "none"].status = "CANCELLED"
    BY <1>1 DEF TaskRow
  <2> QED
    BY <1>2, <1>5, <2>1, Rewritten DEF CancelWrite, At
<1>6. CASE Recover(c)
  <2>1. [task[t] EXCEPT !.status = "QUEUED", !.node = NoNode, !.ready = TRUE,
                        !.lease = "none"].status = "QUEUED"
    BY <1>1 DEF TaskRow
  <2>2. me[c].pc # "unmark"
    BY <1>6 DEF Recover, ListTasks, RecoverTask, RecoverNode, At
  <2>3. task'[t] = task[t] \/ task'[t].status = "QUEUED"
    BY <1>6, <2>1, Rewritten DEF Recover, ListTasks, RecoverTask, RecoverNode
  <2> QED
    BY <1>2, <2>2, <2>3
<1>7. CASE \/ RequeueRead(c) \/ CancelRead(c) \/ CancelRelease(c) \/ Rebalance(c)
           \/ HeartbeatRead(c) \/ HeartbeatWrite(c) \/ HeartbeatClear(c) \/ NodeWrite(c)
           \/ \E request \in Ops : CallBegin(c, request)
  <2>1. me[c].pc # "unmark" /\ UNCHANGED task
    BY <1>7 DEF RequeueRead, CancelRead, CancelRelease, Rebalance, RebalanceRead, RebalanceNode,
       RebalanceTask, HeartbeatRead, HeartbeatWrite, HeartbeatClear, NodeWrite, CallBegin, At
  <2> QED
    BY <1>2, <2>1
<1> QED
  BY <1>3, <1>4, <1>5, <1>6, <1>7 DEF Request

LEMMA CrashesStep ==
    ASSUME TypeOK, [Next]_vars, crashes' = 0
    PROVE  crashes = 0 /\ \A p \in Procs : ~Crash(p)
<1>1. crashes \in Nat /\ (crashes' = crashes \/ crashes' = crashes + 1)
  BY ZenonT(60) DEF TypeOK, Next, vars, Lookup, Tick, Driver, Create, NextTask, Place, Defer, Assign, Assigned,
     Load, Dispatch, Verdict, Unload, CountRead, CreditWrite, BlameWrite, Settle, Settled,
     SweepBegin, Sweep, SweepOffline, SweepTasks, ListTasks, WalkTasks, SweepLift, SweepLifting,
     Migration, MigrateRead, MigrateRelease, MigrateMark, MigrateQueue, CallBegin, Request,
     RequeueRead, RequeueWrite, CancelRead, CancelRelease, CancelWrite, Recover, RecoverTask,
     RecoverNode, Rebalance, RebalanceRead, RebalanceNode, RebalanceTask, HeartbeatRead,
     HeartbeatWrite, HeartbeatClear, NodeWrite, LeaseExpires, BackoffPasses, BenchPasses, Crash
<1>2. ASSUME NEW p \in Procs, Crash(p) PROVE crashes' = crashes + 1
  BY <1>2 DEF Crash
<1> QED
  BY <1>1, <1>2

LEMMA ForgottenStep == ASSUME TypeOK, NobodyForgotten, [Next]_vars PROVE NobodyForgotten'
<1>1. SUFFICES ASSUME crashes' = 0, NEW t \in Tasks, Open(t)'
               PROVE  \E p \in Procs : Owes(p, t)'
  BY DEF NobodyForgotten, Open, InFlight
<1>2. Open(t) => \E p \in Procs : Owes(p, t)
  BY <1>1, CrashesStep DEF NobodyForgotten, Open
<1>3. CASE UNCHANGED me /\ Passive
  <2>1. Open(t)
    <3>1. ASSUME NEW u \in Tasks, LeaseExpires(u) \/ BackoffPasses(u)
          PROVE  task'[t].status = task[t].status
      BY <3>1 DEF LeaseExpires, BackoffPasses, SetTask, TypeOK, TaskRow
    <3> QED
      BY <1>1, <1>3, <3>1 DEF Passive, BenchPasses, vars, Open, InFlight
  <2> QED
    BY <1>2, <1>3, <2>1, OwesDef
<1>4. ASSUME NEW p \in Procs, \A q \in Procs \ {p} : me'[q] = me[q], Minds(p, t)
      PROVE  \E q \in Procs : Owes(q, t)'
  <2>1. CASE \E q \in Procs \ {p} : Owes(q, t)
    BY <1>4, <2>1, OwesDef
  <2>2. CASE Owes(p, t) \/ ~Open(t)
    BY <1>1, <1>4, <2>2 DEF Minds
  <2> QED
    BY <1>2, <2>1, <2>2
<1> QED
  BY <1>1, <1>3, <1>4, OthersKeep, CrashesStep, DriverMinds, SweepMinds, RequestMinds

\* While no handler dies, a task in flight or in migration always has a handler
\* that will settle or requeue it.
THEOREM FleetNobodyForgotten == Spec => []NobodyForgotten
<1>1. Init => NobodyForgotten
  BY DEF Init, NobodyForgotten, InFlight, NewTask
<1> QED
  BY <1>1, TypeInit, TypeStep, ForgottenStep, PTL DEF Spec

-----------------------------------------------------------------------------
(* LoadExact.  Where no node falls silent, no operator takes a task away    *)
(* from its driver and no agent reports a load of its own, a lease that is  *)
(* live has a driver on it, so none runs out and the sweep migrates         *)
(* nothing: nobody but the drivers touches the load, and each adds and      *)
(* takes its own.                                                           *)

Undisturbed == DriversTimely /\ SilentNodes = {} /\ Ops \subseteq {"drain", "resume", "decommission", "requeue"}

Held == {"dispatch", "waiting", "unload"}
RequestSteps == {"idle", "done", "drain", "resume", "decommission", "requeue", "requeueWrite"}
SweepSteps == {"idle", "nodes", "leases", "lease", "lift", "lifting"}

\* Sweeps and requests on their way have taken nothing up.
CallCalm(c) == me[c].pc \in RequestSteps
SweepCalm(s) == me[s].pc \in SweepSteps /\ me[s].list = {} /\ (me[s].pc = "nodes" => me[s].nlist = {})
OthersCalm == (\A c \in Calls : CallCalm(c)) /\ \A s \in Sweepers : SweepCalm(s)
Leased(t) == task[t].lease = "none" \/ (task[t].lease = "live" /\ \E d \in Drivers : Owes(d, t))
Exact == \A n \in Nodes : node[n].load = Cardinality(Reserving(n))
Reserved == crashes = 0 => OthersCalm /\ (\A t \in Tasks : Leased(t)) /\ Exact

\* A driver keeps what it has reserved, and all of them do.
KeepsHold(d) ==
    /\ me'[d].pc \in Held <=> me[d].pc \in Held
    /\ me[d].pc \in Held => me'[d].at = me[d].at
SameLoads == \A n \in Nodes : node'[n].load = node[n].load

LEMMA ExactOn == ASSUME Exact, SameLoads, \A d \in Drivers : KeepsHold(d) PROVE Exact'
<1>1. ASSUME NEW n \in Nodes PROVE Reserving(n)' = Reserving(n)
  BY DEF Reserving, KeepsHold, Held
<1> QED
  BY <1>1 DEF Exact, SameLoads

\* A write of one row that leaves the load.
LEMMA LoadKept ==
    ASSUME TypeOK, NEW m \in Nodes, NEW r, SetNode(m, r), r.load = node[m].load
    PROVE  SameLoads
BY DEF SetNode, TypeOK, SameLoads

LEMMA Ended ==
    ASSUME TypeOK, NEW p \in Procs, End(p)
    PROVE  /\ me'[p].pc \in {"idle", "done"} /\ me'[p].list = {} /\ me'[p].nlist = {}
           /\ p \notin Calls => me'[p].pc = "idle"
<1>1. me'[p] = [Blank EXCEPT !.pc = IF p \in Calls THEN "done" ELSE "idle"]
  BY Became DEF End, TypeOK
<1> QED
  BY <1>1 DEF Blank

LEMMA Returned ==
    ASSUME TypeOK, NEW d \in Procs, Return(d)
    PROVE  me'[d].pc = "next"
<1>1. me'[d] = [Blank EXCEPT !.pc = "next", !.list = me[d].list, !.copy = Dropped(d)]
  BY Became DEF Return, TypeOK
<1> QED
  BY <1>1 DEF Blank

LEMMA MovedAt ==
    ASSUME TypeOK, NEW p \in Procs, NEW step, Goto(p, step)
    PROVE  me'[p].pc = step /\ me'[p].at = me[p].at /\ me'[p].list = me[p].list /\ me'[p].nlist = me[p].nlist
<1>1. me'[p] = [me[p] EXCEPT !.pc = step]
  BY Became DEF Goto, TypeOK
<1> QED
  BY <1>1, Fields DEF Handler, TypeOK

\* The sweep finds no silent node and no lease that ran out.
LEMMA SweepReserves ==
    ASSUME Undisturbed, TypeOK, OthersCalm, \A t \in Tasks : Leased(t), NEW s \in Sweepers, SweepBegin(s) \/ Sweep(s)
    PROVE  SweepCalm(s)' /\ UNCHANGED task /\ SameLoads
<1>1. s \in Procs /\ me[s] \in Handler /\ SweepCalm(s)
  BY Fields DEF Procs, TypeOK, OthersCalm
<1>2. ~Migration(s)
  BY <1>1 DEF Migration, MigrateRead, MigrateRelease, MigrateMark, MigrateQueue, At, SweepCalm, SweepSteps
<1>3. ASSUME UNCHANGED node PROVE SameLoads
  BY <1>3 DEF SameLoads
<1>4. CASE SweepBegin(s)
  <2>1. Become(s, [Blank EXCEPT !.pc = "nodes", !.nlist = {}]) /\ UNCHANGED <<task, node>>
    BY <1>4 DEF SweepBegin, Undisturbed
  <2>2. me'[s] = [Blank EXCEPT !.pc = "nodes", !.nlist = {}]
    BY <1>1, <2>1, Became DEF TypeOK
  <2>3. me'[s].pc = "nodes" /\ me'[s].nlist = {} /\ me'[s].list = {}
    BY <2>2 DEF Blank
  <2> QED
    BY <1>3, <2>1, <2>3 DEF SweepCalm, SweepSteps
<1>5. CASE SweepOffline(s)
  <2>1. Become(s, [Blank EXCEPT !.pc = "leases", !.moved = me[s].moved]) /\ UNCHANGED <<task, node>>
    BY <1>1, <1>5 DEF SweepOffline, At, SweepCalm
  <2>2. me'[s] = [Blank EXCEPT !.pc = "leases", !.moved = me[s].moved]
    BY <1>1, <2>1, Became DEF TypeOK
  <2>3. me'[s].pc = "leases" /\ me'[s].list = {}
    BY <2>2 DEF Blank
  <2> QED
    BY <1>3, <2>1, <2>3 DEF SweepCalm, SweepSteps
<1>6. CASE SweepTasks(s)
  <2>1. Overdue = {}
    BY DEF Overdue, Leased
  <2>2. UNCHANGED <<task, node>>
    BY <1>6 DEF SweepTasks, ListTasks, WalkTasks
  <2>3. CASE ListTasks(s, "leases", Overdue \ me[s].moved, "lease")
    <3>1. Become(s, [me[s] EXCEPT !.pc = "lease", !.list = {}])
      BY <2>1, <2>3 DEF ListTasks
    <3>2. me'[s] = [me[s] EXCEPT !.pc = "lease", !.list = {}]
      BY <1>1, <3>1, Became DEF TypeOK
    <3>3. me'[s].pc = "lease" /\ me'[s].list = {}
      BY <1>1, <3>2 DEF Handler
    <3> QED
      BY <1>3, <2>2, <3>3 DEF SweepCalm, SweepSteps
  <2>4. CASE WalkTasks(s, "lease", "lift")
    <3>1. Goto(s, "lift")
      BY <1>1, <2>4 DEF WalkTasks, SweepCalm
    <3>2. me'[s].pc = "lift" /\ me'[s].list = {}
      BY <1>1, <3>1, MovedAt DEF SweepCalm
    <3> QED
      BY <1>3, <2>2, <3>2 DEF SweepCalm, SweepSteps
  <2>5. me[s].pc \notin {"orphans", "orphan"}
    BY <1>1 DEF SweepCalm, SweepSteps
  <2> QED
    BY <1>6, <2>3, <2>4, <2>5 DEF SweepTasks, ListTasks, WalkTasks, At
<1>7. CASE SweepLift(s)
  <2>1. PICK N : N = {n \in Nodes : node[n].status = "QUARANTINED" /\ node[n].bench = "over"}
    OBVIOUS
  <2>2. me'[s] = [Blank EXCEPT !.pc = "lifting", !.nlist = N] /\ UNCHANGED <<task, node>>
    BY <1>1, <1>7, <2>1, Became DEF SweepLift, TypeOK
  <2>3. me'[s].pc = "lifting" /\ me'[s].list = {}
    BY <2>2 DEF Blank
  <2> QED
    BY <1>3, <2>2, <2>3 DEF SweepCalm, SweepSteps
<1>8. CASE SweepLifting(s)
  <2>1. CASE End(s) /\ UNCHANGED <<task, node>>
    BY <1>1, <1>3, <2>1, Ended DEF SweepCalm, SweepSteps
  <2>2. ASSUME NEW n \in me[s].nlist,
               SetNode(n, [node[n] EXCEPT !.status = "DEGRADED", !.bench = "none", !.failures = 0]),
               Become(s, [me[s] EXCEPT !.nlist = me[s].nlist \ {n}]), UNCHANGED task
        PROVE  SweepCalm(s)' /\ UNCHANGED task /\ SameLoads
    <3>1. n \in Nodes
      BY <1>1 DEF Handler
    <3>2. [node[n] EXCEPT !.status = "DEGRADED", !.bench = "none", !.failures = 0].load = node[n].load
      BY <3>1 DEF TypeOK, NodeRow
    <3>3. SameLoads
      BY <2>2, <3>1, <3>2, LoadKept
    <3>4. me'[s] = [me[s] EXCEPT !.nlist = me[s].nlist \ {n}]
      BY <1>1, <2>2, Became DEF TypeOK
    <3>5. me'[s].pc = me[s].pc /\ me'[s].list = me[s].list /\ me[s].pc = "lifting"
      BY <1>1, <1>8, <3>4 DEF Handler, SweepLifting, At
    <3> QED
      BY <1>1, <2>2, <3>3, <3>5 DEF SweepCalm
  <2> QED
    BY <1>8, <2>1, <2>2 DEF SweepLifting
<1> QED
  BY <1>2, <1>4, <1>5, <1>6, <1>7, <1>8 DEF Sweep

\* Requests write the status of a node, or give a task back.
LEMMA RequestReserves ==
    ASSUME Undisturbed, TypeOK, OthersCalm, NEW c \in Calls, Request(c) \/ \E request \in Ops : CallBegin(c, request)
    PROVE  /\ CallCalm(c)' /\ SameLoads
           /\ \A t \in Tasks : task'[t].lease \in {task[t].lease, "none"}
<1>1. c \in Procs /\ me[c] \in Handler /\ CallCalm(c)
  BY Fields DEF Procs, TypeOK, OthersCalm
<1>2. ASSUME UNCHANGED node PROVE SameLoads
  BY <1>2 DEF SameLoads
<1>3. CASE \E request \in Ops : CallBegin(c, request)
  <2>1. PICK request \in {"drain", "resume", "decommission", "requeue"} : CallBegin(c, request)
    BY <1>3 DEF Undisturbed
  <2>2. UNCHANGED <<task, node>>
    BY <2>1 DEF CallBegin
  <2>3. me'[c].pc = request
    <3>1. \/ \E t, m : Become(c, [Blank EXCEPT !.pc = request, !.cur = t, !.aim = m])
          \/ \E n : Become(c, [Blank EXCEPT !.pc = request, !.at = n])
      BY <2>1 DEF CallBegin
    <3>2. ASSUME NEW t, NEW m PROVE [Blank EXCEPT !.pc = request, !.cur = t, !.aim = m].pc = request
      BY DEF Blank
    <3>3. ASSUME NEW n PROVE [Blank EXCEPT !.pc = request, !.at = n].pc = request
      BY DEF Blank
    <3>4. \E t, m : me'[c] = [Blank EXCEPT !.pc = request, !.cur = t, !.aim = m]
          \/ \E n : me'[c] = [Blank EXCEPT !.pc = request, !.at = n]
      BY <1>1, <3>1, Became DEF TypeOK
    <3> QED
      BY <3>2, <3>3, <3>4
  <2> QED
    BY <1>2, <2>2, <2>3 DEF CallCalm, RequestSteps
<1>4. CASE Request(c)
  <2>1. RequeueRead(c) \/ RequeueWrite(c) \/ NodeWrite(c)
    BY <1>1, <1>4
    DEF Request, Migration, MigrateRead, MigrateRelease, MigrateMark, MigrateQueue, CancelRead, CancelRelease,
        CancelWrite, Recover, ListTasks, RecoverTask, RecoverNode, Rebalance, RebalanceRead, RebalanceNode,
        RebalanceTask, HeartbeatRead, HeartbeatWrite, HeartbeatClear, At, CallCalm, RequestSteps
  <2>2. End(c) \/ Goto(c, "requeueWrite")
    BY <2>1 DEF RequeueRead, RequeueWrite, NodeWrite
  <2>3. CallCalm(c)'
    BY <1>1, <2>2, Ended, MovedAt DEF CallCalm, RequestSteps
  <2>4. CASE RequeueRead(c)
    BY <1>2, <2>3, <2>4 DEF RequeueRead
  <2>5. CASE RequeueWrite(c)
    <3>1. ASSUME NEW t \in Tasks
          PROVE  [task[t] EXCEPT !.status = "QUEUED", !.node = NoNode, !.attempts = 0, !.ready = TRUE,
                                 !.lease = "none"].lease = "none"
      BY DEF TypeOK, TaskRow
    <3>2. ASSUME NEW t \in Tasks PROVE task'[t].lease \in {task[t].lease, "none"}
      <4>1. PICK u : u = Cur(c)
        OBVIOUS
      <4>2. SetTask(u, [task[u] EXCEPT !.status = "QUEUED", !.node = NoNode, !.attempts = 0, !.ready = TRUE,
                                       !.lease = "none"])
        BY <2>5, <4>1 DEF RequeueWrite
      <4>3. CASE u = t
        <5>1. task'[t] = [task[t] EXCEPT !.status = "QUEUED", !.node = NoNode, !.attempts = 0, !.ready = TRUE,
                                         !.lease = "none"]
          BY <4>2, <4>3, Rewritten
        <5> QED
          BY <3>1, <5>1
      <4>4. CASE u # t
        BY <4>2, <4>4, Rewritten
      <4> QED
        BY <4>3, <4>4
    <3> QED
      BY <1>2, <2>3, <2>5, <3>2 DEF RequeueWrite
  <2>6. CASE NodeWrite(c)
    <3>1. PICK n : n = me[c].at
      OBVIOUS
    <3>2. PICK q \in {"drain", "resume", "decommission"} : q = me[c].pc
      BY <2>6 DEF NodeWrite
    <3>3. SetNode(n, Written(node[n], q)) /\ UNCHANGED task
      BY <2>6, <3>1, <3>2 DEF NodeWrite
    <3>4. ASSUME n \in Nodes PROVE SameLoads
      <4>1. Written(node[n], q).load = node[n].load
        BY <3>2, <3>4 DEF Written, TypeOK, NodeRow
      <4> QED
        BY <3>3, <3>4, <4>1, LoadKept
    <3>5. ASSUME n \notin Nodes PROVE SameLoads
      BY <3>3, <3>5 DEF SetNode, TypeOK, SameLoads
    <3> QED
      BY <2>3, <3>3, <3>4, <3>5
  <2> QED
    BY <2>1, <2>4, <2>5, <2>6
<1> QED
  BY <1>3, <1>4

\* What a step of a driver does to its reservation, and to a lease.
HoldStep(d) ==
    \/ KeepsHold(d) /\ SameLoads
    \/ \E n \in Nodes :
          /\ me[d].at = n /\ me'[d].at = n
          /\ \/ me[d].pc \notin Held /\ me'[d].pc \in Held /\ AdjustLoad(n, 1)
             \/ me[d].pc \in Held /\ me'[d].pc \notin Held /\ AdjustLoad(n, -1)
LeaseStep(d, t) ==
    /\ Owes(d, t) => Owes(d, t)' \/ task'[t].lease = "none"
    /\ \/ task'[t].lease \in {task[t].lease, "none"}
       \/ task'[t].lease = "live" /\ Owes(d, t)'

LEMMA DriverReserves ==
    ASSUME TypeOK, NEW d \in Drivers, Lookup(d) \/ Tick(d) \/ Driver(d)
    PROVE  HoldStep(d)
<1>1. d \in Procs /\ HandlersOK /\ me[d] \in Handler /\ d \notin Calls
  BY Fields DEF TypeOK, Procs
<1>2. ASSUME UNCHANGED node PROVE SameLoads
  BY <1>2 DEF SameLoads
<1>3. ASSUME me[d].pc \notin Held, me'[d].pc \notin Held, UNCHANGED node PROVE HoldStep(d)
  BY <1>2, <1>3 DEF HoldStep, KeepsHold
<1>4. CASE Lookup(d)
  <2>1. \/ \E t : Become(d, [Blank EXCEPT !.pc = "create", !.cur = t])
        \/ \E t, k : Become(d, [Blank EXCEPT !.pc = "place", !.cur = t, !.copy = k])
    BY <1>4 DEF Lookup
  <2>2. ASSUME NEW t, NEW k
        PROVE  /\ [Blank EXCEPT !.pc = "create", !.cur = t].pc = "create"
               /\ [Blank EXCEPT !.pc = "place", !.cur = t, !.copy = k].pc = "place"
    BY DEF Blank
  <2>3. me'[d].pc \notin Held
    <3>1. ASSUME NEW t, Become(d, [Blank EXCEPT !.pc = "create", !.cur = t]) PROVE me'[d].pc = "create"
      <4>1. me'[d] = [Blank EXCEPT !.pc = "create", !.cur = t]
        BY <1>1, <3>1, Became
      <4> QED
        BY <2>2, <4>1
    <3>2. ASSUME NEW t, NEW k, Become(d, [Blank EXCEPT !.pc = "place", !.cur = t, !.copy = k])
          PROVE  me'[d].pc = "place"
      <4>1. me'[d] = [Blank EXCEPT !.pc = "place", !.cur = t, !.copy = k]
        BY <1>1, <3>2, Became
      <4> QED
        BY <2>2, <4>1
    <3> QED
      BY <2>1, <3>1, <3>2 DEF Held
  <2> QED
    BY <1>3, <1>4, <2>3 DEF Lookup, At, Held
<1>5. CASE Tick(d)
  <2>1. PICK L, k : me'[d] = [Blank EXCEPT !.pc = "next", !.list = L, !.copy = k]
    BY <1>1, <1>5, Became DEF Tick
  <2>2. me'[d].pc \notin Held
    BY <2>1 DEF Blank, Held
  <2> QED
    BY <1>3, <1>5, <2>2 DEF Tick, At, Held
<1>6. CASE Create(d)
  <2>1. End(d) \/ \E r : me'[d] = [me[d] EXCEPT !.pc = "place", !.copy[Cur(d)] = r]
    BY <1>1, <1>6, Became DEF Create
  <2>2. ASSUME NEW r PROVE [me[d] EXCEPT !.pc = "place", !.copy[Cur(d)] = r].pc = "place"
    BY <1>1 DEF Handler
  <2>3. me'[d].pc \notin Held
    BY <1>1, <2>1, <2>2, Ended DEF Held
  <2> QED
    BY <1>3, <1>6, <2>3 DEF Create, At, Held
<1>7. CASE NextTask(d)
  <2>1. ASSUME NEW t, NEW k, NEW L
        PROVE  [Blank EXCEPT !.pc = "place", !.cur = t, !.copy = k, !.list = L].pc = "place"
    BY DEF Blank
  <2>2. ASSUME NEW t, NEW k, NEW L, Become(d, [Blank EXCEPT !.pc = "place", !.cur = t, !.copy = k, !.list = L])
        PROVE  me'[d].pc = "place"
    <3>1. me'[d] = [Blank EXCEPT !.pc = "place", !.cur = t, !.copy = k, !.list = L]
      BY <1>1, <2>2, Became
    <3> QED
      BY <2>1, <3>1
  <2>a. End(d) => me'[d].pc \notin Held
    BY <1>1, Ended DEF Held
  <2>3. me'[d].pc \notin Held
    BY <1>7, <2>2, <2>a DEF NextTask, Held
  <2> QED
    BY <1>3, <1>7, <2>3 DEF NextTask, At, Held
<1>8. CASE Place(d)
  <2>1. Return(d) \/ Goto(d, "defer") \/ \E n : me'[d] = [me[d] EXCEPT !.pc = "assign", !.at = n]
    BY <1>1, <1>8, Became DEF Place
  <2>2. ASSUME NEW n PROVE [me[d] EXCEPT !.pc = "assign", !.at = n].pc = "assign"
    BY <1>1 DEF Handler
  <2>3. me'[d].pc \notin Held
    <3>1. Return(d) \/ Goto(d, "defer") => me'[d].pc \notin Held
      BY <1>1, Returned, MovedAt DEF Held
    <3>2. (\E n : me'[d] = [me[d] EXCEPT !.pc = "assign", !.at = n]) => me'[d].pc \notin Held
      BY <2>2 DEF Held
    <3> QED
      BY <2>1, <3>1, <3>2
  <2> QED
    BY <1>3, <1>8, <2>3 DEF Place, At, Held
<1>9. CASE Defer(d) \/ Settle(d)
  <2>1. me'[d].pc \notin Held
    BY <1>1, <1>9, Returned, MovedAt DEF Defer, Settle, Held
  <2> QED
    BY <1>3, <1>9, <2>1 DEF Defer, Settle, At, Held
<1>10. CASE Assign(d)
  <2>1. me'[d] = [me[d] EXCEPT !.pc = "assigned", !.tried = me[d].tried \union {me[d].at}]
    BY <1>1, <1>10, Became DEF Assign
  <2>2. me'[d].pc \notin Held
    BY <1>1, <2>1 DEF Handler, Held
  <2> QED
    BY <1>3, <1>10, <2>2 DEF Assign, At, Held
<1>11. CASE Assigned(d)
  <2>1. PICK r : me'[d] = [me[d] EXCEPT !.pc = "load", !.copy[Cur(d)] = r]
    BY <1>1, <1>11, Became DEF Assigned
  <2>2. me'[d].pc \notin Held
    BY <1>1, <2>1 DEF Handler, Held
  <2> QED
    BY <1>3, <1>11, <2>2 DEF Assigned, At, Held
<1>12. CASE Load(d)
  <2>1. me[d].pc = "load" /\ me'[d].pc = "dispatch" /\ me'[d].at = me[d].at /\ AdjustLoad(me[d].at, 1)
    BY <1>1, <1>12, MovedAt DEF Load, At
  <2>2. me[d].at \in Nodes
    BY <1>1, <2>1, Fields DEF NodeSteps
  <2> QED
    BY <2>1, <2>2 DEF HoldStep, Held
<1>13. CASE Dispatch(d)
  <2>1. me[d].pc = "dispatch" /\ me'[d].pc = "waiting" /\ me'[d].at = me[d].at /\ UNCHANGED node
    BY <1>1, <1>13, MovedAt DEF Dispatch, At
  <2> QED
    BY <1>2, <2>1 DEF HoldStep, KeepsHold, Held
<1>14. CASE Verdict(d)
  <2>1. PICK v : me'[d] = [me[d] EXCEPT !.pc = "unload", !.result = v] /\ me[d].pc = "waiting" /\ UNCHANGED node
    BY <1>1, <1>14, Became DEF Verdict, At
  <2>2. me'[d].pc = "unload" /\ me'[d].at = me[d].at
    BY <1>1, <2>1 DEF Handler
  <2> QED
    BY <1>2, <2>1, <2>2 DEF HoldStep, KeepsHold, Held
<1>15. CASE Unload(d)
  <2>1. PICK step \in {"credit", "blame"} : Goto(d, step)
    BY <1>15 DEF Unload
  <2>2. me[d].pc = "unload" /\ me'[d].pc \notin Held /\ me'[d].at = me[d].at /\ AdjustLoad(me[d].at, -1)
    BY <1>1, <1>15, <2>1, MovedAt DEF Unload, At, Released, Held
  <2>3. me[d].at \in Nodes
    BY <1>1, <2>2, Fields DEF NodeSteps
  <2> QED
    BY <2>2, <2>3 DEF HoldStep, Held
<1>16. CASE CountRead(d)
  <2>1. Goto(d, "settle") \/ Goto(d, "creditWrite") \/ \E r : me'[d] = [me[d] EXCEPT !.pc = "blameWrite", !.seen = r]
    BY <1>1, <1>16, Became DEF CountRead
  <2>2. ASSUME NEW r PROVE [me[d] EXCEPT !.pc = "blameWrite", !.seen = r].pc = "blameWrite"
    BY <1>1 DEF Handler
  <2>3. me'[d].pc \notin Held
    <3>1. Goto(d, "settle") \/ Goto(d, "creditWrite") => me'[d].pc \notin Held
      BY <1>1, MovedAt DEF Held
    <3>2. (\E r : me'[d] = [me[d] EXCEPT !.pc = "blameWrite", !.seen = r]) => me'[d].pc \notin Held
      BY <2>2 DEF Held
    <3> QED
      BY <2>1, <3>1, <3>2
  <2> QED
    BY <1>3, <1>16, <2>3 DEF CountRead, At, Held
<1>17. CASE CreditWrite(d) \/ BlameWrite(d)
  <2>1. Goto(d, "settle") \/ me'[d] = [me[d] EXCEPT !.pc = "settle", !.seen = NewNode]
    BY <1>1, <1>17, Became DEF CreditWrite, BlameWrite
  <2>2. [me[d] EXCEPT !.pc = "settle", !.seen = NewNode].pc = "settle"
    BY <1>1 DEF Handler
  <2>3. me[d].pc \in {"creditWrite", "blameWrite"} /\ me'[d].pc = "settle"
    BY <1>1, <1>17, <2>1, <2>2, MovedAt DEF CreditWrite, BlameWrite, At
  <2>4. PICK n \in Nodes : n = me[d].at
    BY <1>1, <2>3, Fields DEF NodeSteps
  <2>5. PICK r : SetNode(n, r) /\ (r = Credited(node[n]) \/ \E f : r = Blamed(node[n], f))
    BY <1>17, <2>4 DEF CreditWrite, BlameWrite
  <2>6. node[n] \in NodeRow
    BY DEF TypeOK
  <2>7. r.load = node[n].load
    BY <2>5, <2>6 DEF Credited, Blamed, NodeRow
  <2>8. SameLoads
    BY <2>5, <2>7, LoadKept
  <2> QED
    BY <2>3, <2>8 DEF HoldStep, KeepsHold, Held
<1>18. CASE Settled(d)
  <2>1. Return(d) \/ \E r : me'[d] = [me[d] EXCEPT !.pc = "place", !.copy[Cur(d)] = r, !.at = NoNode, !.result = "ok"]
    BY <1>1, <1>18, Became DEF Settled
  <2>2. ASSUME NEW r
        PROVE  [me[d] EXCEPT !.pc = "place", !.copy[Cur(d)] = r, !.at = NoNode, !.result = "ok"].pc = "place"
    BY <1>1 DEF Handler
  <2>3. me'[d].pc \notin Held
    BY <1>1, <2>1, <2>2, Returned DEF Held
  <2> QED
    BY <1>3, <1>18, <2>3 DEF Settled, At, Held
<1> QED
  BY <1>4, <1>5, <1>6, <1>7, <1>8, <1>9, <1>10, <1>11, <1>12, <1>13, <1>14, <1>15, <1>16, <1>17, <1>18 DEF Driver

LEMMA DriverLeases ==
    ASSUME TypeOK, NEW d \in Drivers, Lookup(d) \/ Tick(d) \/ Driver(d), NEW t \in Tasks
    PROVE  LeaseStep(d, t)
<1>1. d \in Procs /\ HandlersOK /\ me[d] \in Handler /\ task[t] \in TaskRow
  BY Fields DEF TypeOK, Procs
<1>2. ASSUME me[d].pc \notin Underway, task'[t].lease \in {task[t].lease, "none"} PROVE LeaseStep(d, t)
  BY <1>1, <1>2, OwesDef DEF LeaseStep
<1>3. ASSUME me'[d].pc \in Underway, me'[d].cur = me[d].cur,
             task'[t].lease = task[t].lease \/ (me[d].cur = t /\ task'[t].lease = "live")
      PROVE  LeaseStep(d, t)
  BY <1>1, <1>3, OwesDef DEF LeaseStep
<1>4. CASE Lookup(d) \/ Tick(d) \/ NextTask(d) \/ Place(d) \/ Settled(d)
  BY <1>2, <1>4 DEF Lookup, Tick, NextTask, Place, Settled, At, Underway
<1>5. CASE Create(d)
  <2>1. [NewTask EXCEPT !.status = "QUEUED"].lease = "none"
    BY DEF NewTask
  <2>2. task'[t].lease \in {task[t].lease, "none"}
    BY <1>5, <2>1, Rewritten DEF Create
  <2> QED
    BY <1>2, <1>5, <2>2 DEF Create, At, Underway
<1>6. CASE Defer(d)
  <2>1. [task[t] EXCEPT !.status = "QUEUED", !.ready = FALSE].lease = task[t].lease
    BY <1>1 DEF TaskRow
  <2>2. task'[t].lease = task[t].lease
    BY <1>6, <2>1, Rewritten DEF Defer
  <2> QED
    BY <1>2, <1>6, <2>2 DEF Defer, At, Underway
<1>7. CASE Assign(d)
  <2>1. me'[d] = [me[d] EXCEPT !.pc = "assigned", !.tried = me[d].tried \union {me[d].at}]
    BY <1>1, <1>7, Became DEF Assign
  <2>2. me'[d].pc \in Underway /\ me'[d].cur = me[d].cur
    BY <1>1, <2>1 DEF Handler, Underway
  <2>3. ASSUME NEW n, NEW a PROVE Bound(task[t], n, a).lease = "live"
    BY <1>1 DEF Bound, TaskRow
  <2>4. task'[t] = task[t] \/ (me[d].cur = t /\ task'[t].lease = "live")
    <3>1. PICK n, a : SetTask(me[d].cur, Bound(task[me[d].cur], n, a))
      BY <1>7 DEF Assign, Cur
    <3>2. CASE me[d].cur = t
      BY <2>3, <3>1, <3>2, Rewritten
    <3>3. CASE me[d].cur # t
      BY <3>1, <3>3, Rewritten
    <3> QED
      BY <3>2, <3>3
  <2> QED
    BY <1>3, <2>2, <2>4
<1>8. CASE Assigned(d)
  <2>1. PICK r : me'[d] = [me[d] EXCEPT !.pc = "load", !.copy[Cur(d)] = r]
    BY <1>1, <1>8, Became DEF Assigned
  <2>2. me'[d].pc \in Underway /\ me'[d].cur = me[d].cur
    BY <1>1, <2>1 DEF Handler, Underway
  <2> QED
    BY <1>3, <1>8, <2>2 DEF Assigned
<1>9. CASE Verdict(d)
  <2>1. PICK v : me'[d] = [me[d] EXCEPT !.pc = "unload", !.result = v]
    BY <1>1, <1>9, Became DEF Verdict
  <2>2. me'[d].pc \in Underway /\ me'[d].cur = me[d].cur
    BY <1>1, <2>1 DEF Handler, Underway
  <2> QED
    BY <1>3, <1>9, <2>2 DEF Verdict
<1>10. CASE Load(d) \/ Unload(d) \/ CreditWrite(d)
  <2>1. me'[d].pc \in Underway /\ me'[d].cur = me[d].cur
    BY <1>1, <1>10, Moved DEF Load, Unload, CreditWrite, Underway
  <2> QED
    BY <1>3, <1>10, <2>1 DEF Load, Unload, CreditWrite
<1>11. CASE CountRead(d) \/ BlameWrite(d)
  <2>1. \/ Goto(d, "settle") \/ Goto(d, "creditWrite")
        \/ \E step \in {"blameWrite", "settle"}, r \in NodeRow : me'[d] = [me[d] EXCEPT !.pc = step, !.seen = r]
    <3>1. me[d].pc \in {"blame", "blameWrite"} => me[d].at \in Nodes
      BY <1>1, Fields DEF NodeSteps
    <3>2. me[d].at \in Nodes => node[me[d].at] \in NodeRow
      BY DEF TypeOK
    <3> QED
      BY <1>1, <1>11, <3>1, <3>2, NewRows, Became DEF CountRead, BlameWrite, At
  <2>2. ASSUME NEW step \in {"blameWrite", "settle"}, NEW r
        PROVE  /\ [me[d] EXCEPT !.pc = step, !.seen = r].pc = step
               /\ [me[d] EXCEPT !.pc = step, !.seen = r].cur = me[d].cur
    BY <1>1 DEF Handler
  <2>3. me'[d].pc \in Underway /\ me'[d].cur = me[d].cur
    <3>1. CASE Goto(d, "settle") \/ Goto(d, "creditWrite")
      BY <1>1, <3>1, Moved DEF Underway
    <3>2. CASE \E step \in {"blameWrite", "settle"}, r \in NodeRow : me'[d] = [me[d] EXCEPT !.pc = step, !.seen = r]
      BY <2>2, <3>2 DEF Underway
    <3> QED
      BY <2>1, <3>1, <3>2
  <2> QED
    BY <1>3, <1>11, <2>3 DEF CountRead, BlameWrite
<1>12. CASE Dispatch(d)
  <2>1. me'[d].pc \in Underway /\ me'[d].cur = me[d].cur
    BY <1>1, <1>12, Moved DEF Dispatch, Underway
  <2>2. [task[t] EXCEPT !.status = "RUNNING"].lease = task[t].lease
    BY <1>1 DEF TaskRow
  <2>3. task'[t].lease = task[t].lease
    <3>1. PICK u : u = me[d].cur
      OBVIOUS
    <3>2. SetTask(u, [task[u] EXCEPT !.status = "RUNNING"])
      BY <1>12, <3>1 DEF Dispatch, Cur
    <3>3. CASE u = t
      <4>1. task'[t] = [task[t] EXCEPT !.status = "RUNNING"]
        BY <3>2, <3>3, Rewritten
      <4> QED
        BY <2>2, <4>1
    <3>4. CASE u # t
      BY <3>2, <3>4, Rewritten
    <3> QED
      BY <3>3, <3>4
  <2> QED
    BY <1>3, <2>1, <2>3
<1>13. CASE Settle(d)
  <2>1. ASSUME NEW v, NEW e PROVE SettledRow(task[t], v, e).lease = "none"
    BY <1>1 DEF SettledRow, Requeued, TaskRow
  <2>2. PICK v, e : SetTask(me[d].cur, SettledRow(task[me[d].cur], v, e))
    BY <1>13 DEF Settle, Cur
  <2>3. CASE me[d].cur = t
    <3>1. task'[t].lease = "none"
      BY <2>1, <2>2, <2>3, Rewritten
    <3> QED
      BY <3>1 DEF LeaseStep
  <2>4. CASE me[d].cur # t
    <3>1. task'[t] = task[t] /\ ~Owes(d, t)
      BY <1>1, <2>2, <2>4, Rewritten, OwesDef
    <3> QED
      BY <3>1 DEF LeaseStep
  <2> QED
    BY <2>3, <2>4
<1> QED
  BY <1>4, <1>5, <1>6, <1>7, <1>8, <1>9, <1>10, <1>11, <1>12, <1>13 DEF Driver

\* One reservation more, or one less.
LEMMA ExactHold ==
    ASSUME TypeOK, Exact, NEW d \in Drivers, HoldStep(d), \A e \in Drivers \ {d} : me'[e] = me[e]
    PROVE  Exact'
<1>1. \A e \in Drivers \ {d} : KeepsHold(e)
  BY DEF KeepsHold
<1>2. CASE KeepsHold(d) /\ SameLoads
  BY <1>1, <1>2, ExactOn
<1>3. ASSUME NEW n \in Nodes, me[d].at = n, me'[d].at = n,
             \/ me[d].pc \notin Held /\ me'[d].pc \in Held /\ AdjustLoad(n, 1)
             \/ me[d].pc \in Held /\ me'[d].pc \notin Held /\ AdjustLoad(n, -1)
      PROVE  Exact'
  <2>1. ASSUME NEW m \in Nodes, m # n PROVE node'[m].load = Cardinality(Reserving(m)')
    <3>1. Reserving(m)' = Reserving(m)
      BY <1>1, <1>3, <2>1 DEF Reserving, KeepsHold, Held
    <3>2. node'[m] = node[m]
      BY <1>3, <2>1 DEF AdjustLoad, SetNode, TypeOK
    <3> QED
      BY <3>1, <3>2 DEF Exact
  <2>2. IsFiniteSet(Reserving(n)) /\ node[n].load = Cardinality(Reserving(n))
    <3>1. Reserving(n) \subseteq Drivers
      BY DEF Reserving
    <3> QED
      BY <3>1, FS_Subset DEF Exact
  <2>3. Cardinality(Reserving(n)) \in Nat /\ node[n] \in NodeRow
    BY <2>2, FS_CardinalityType DEF TypeOK
  <2>4. ASSUME NEW k \in Int, AdjustLoad(n, k) PROVE node'[n].load = node[n].load + k
    <3>1. node'[n] = [node[n] EXCEPT !.load = node[n].load + k]
      BY <2>4 DEF AdjustLoad, SetNode, TypeOK
    <3> QED
      BY <2>3, <3>1 DEF NodeRow
  <2>5. CASE me[d].pc \notin Held /\ me'[d].pc \in Held /\ AdjustLoad(n, 1)
    <3>1. Reserving(n)' = Reserving(n) \union {d} /\ d \notin Reserving(n)
      BY <1>1, <1>3, <2>5 DEF Reserving, KeepsHold, Held
    <3>2. Cardinality(Reserving(n) \union {d}) = Cardinality(Reserving(n)) + 1
      BY <2>2, <3>1, FS_AddElement
    <3>3. node'[n].load = node[n].load + 1
      BY <2>4, <2>5
    <3> QED
      BY <2>1, <2>2, <3>1, <3>2, <3>3 DEF Exact
  <2>6. CASE me[d].pc \in Held /\ me'[d].pc \notin Held /\ AdjustLoad(n, -1)
    <3>1. Reserving(n)' = Reserving(n) \ {d} /\ d \in Reserving(n)
      BY <1>1, <1>3, <2>6 DEF Reserving, KeepsHold, Held
    <3>2. Cardinality(Reserving(n) \ {d}) = Cardinality(Reserving(n)) - 1
      BY <2>2, <3>1, FS_RemoveElement
    <3>3. node'[n].load = node[n].load - 1
      <4>1. -1 \in Int /\ node[n].load \in Int
        BY <2>3 DEF NodeRow
      <4>2. node'[n].load = node[n].load + (-1)
        BY <2>4, <2>6, <4>1
      <4> QED
        BY <4>1, <4>2
    <3> QED
      BY <2>1, <2>2, <3>1, <3>2, <3>3 DEF Exact
  <2> QED
    BY <1>3, <2>5, <2>6
<1> QED
  BY <1>2, <1>3 DEF HoldStep

LEMMA ReservedStep ==
    ASSUME Undisturbed, TypeOK, Reserved, [Next]_vars
    PROVE  Reserved'
<1>1. SUFFICES ASSUME crashes' = 0 PROVE OthersCalm' /\ (\A t \in Tasks : Leased(t)') /\ Exact'
  BY DEF Reserved
<1>2. OthersCalm /\ (\A t \in Tasks : Leased(t)) /\ Exact /\ \A p \in Procs : ~Crash(p)
  BY <1>1, CrashesStep DEF Reserved
<1>3. Drivers \subseteq Procs /\ Sweepers \subseteq Procs /\ Calls \subseteq Procs
  BY DEF Procs
<1>4. ASSUME NEW p \in Procs \ Drivers, \A q \in Procs \ {p} : me'[q] = me[q],
             SameLoads, \A t \in Tasks : task'[t].lease \in {task[t].lease, "none"}
      PROVE  (\A t \in Tasks : Leased(t)') /\ Exact'
  <2>1. \A d \in Drivers : me'[d] = me[d]
    BY <1>3, <1>4
  <2>2. Exact'
    BY <1>2, <1>4, <2>1, ExactOn DEF KeepsHold
  <2>3. ASSUME NEW t \in Tasks PROVE Leased(t)'
    <3>1. \A d \in Drivers : Owes(d, t) => Owes(d, t)'
      BY <1>3, <2>1, OwesDef
    <3> QED
      BY <1>2, <1>4, <3>1 DEF Leased
  <2> QED
    BY <2>2, <2>3
<1>5. ASSUME NEW d \in Drivers, \A q \in Procs \ {d} : me'[q] = me[q], Lookup(d) \/ Tick(d) \/ Driver(d)
      PROVE  OthersCalm' /\ (\A t \in Tasks : Leased(t)') /\ Exact'
  <2>1. OthersCalm'
    BY <1>2, <1>3, <1>5 DEF OthersCalm, CallCalm, SweepCalm
  <2>2. Exact'
    BY <1>2, <1>3, <1>5, DriverReserves, ExactHold
  <2>3. ASSUME NEW t \in Tasks PROVE Leased(t)'
    <3>1. LeaseStep(d, t)
      BY <1>5, DriverLeases
    <3>2. \A e \in Drivers \ {d} : Owes(e, t) => Owes(e, t)'
      BY <1>3, <1>5, OwesDef
    <3> QED
      BY <1>2, <3>1, <3>2 DEF Leased, LeaseStep
  <2> QED
    BY <2>1, <2>2, <2>3
<1>6. ASSUME NEW s \in Sweepers, \A q \in Procs \ {s} : me'[q] = me[q], SweepBegin(s) \/ Sweep(s)
      PROVE  OthersCalm' /\ (\A t \in Tasks : Leased(t)') /\ Exact'
  <2>1. SweepCalm(s)' /\ UNCHANGED task /\ SameLoads
    BY <1>2, <1>6, SweepReserves
  <2>2. OthersCalm'
    BY <1>2, <1>3, <1>6, <2>1 DEF OthersCalm, CallCalm, SweepCalm
  <2> QED
    BY <1>3, <1>4, <1>6, <2>1, <2>2
<1>7. ASSUME NEW c \in Calls, \A q \in Procs \ {c} : me'[q] = me[q],
             Request(c) \/ \E request \in Ops : CallBegin(c, request)
      PROVE  OthersCalm' /\ (\A t \in Tasks : Leased(t)') /\ Exact'
  <2>1. CallCalm(c)' /\ SameLoads /\ \A t \in Tasks : task'[t].lease \in {task[t].lease, "none"}
    BY <1>2, <1>7, RequestReserves
  <2>2. OthersCalm'
    BY <1>2, <1>3, <1>7, <2>1 DEF OthersCalm, CallCalm, SweepCalm
  <2> QED
    BY <1>3, <1>4, <1>7, <2>1, <2>2
<1>8. ASSUME UNCHANGED me, Passive PROVE OthersCalm' /\ (\A t \in Tasks : Leased(t)') /\ Exact'
  <2>1. OthersCalm'
    BY <1>2, <1>8 DEF OthersCalm, CallCalm, SweepCalm
  <2>2. SameLoads
    <3>1. ASSUME NEW n \in Nodes, BenchPasses(n) PROVE SameLoads
      <4>1. [node[n] EXCEPT !.bench = "over"].load = node[n].load
        BY <3>1 DEF TypeOK, NodeRow
      <4> QED
        BY <3>1, <4>1, LoadKept DEF BenchPasses
    <3>2. UNCHANGED node => SameLoads
      BY DEF SameLoads
    <3> QED
      BY <1>8, <3>1, <3>2 DEF Passive, LeaseExpires, BackoffPasses, vars
  <2>3. ASSUME NEW t \in Tasks PROVE task'[t].lease = task[t].lease
    <3>1. ASSUME NEW u \in Tasks PROVE ~LeaseExpires(u)
      <4>1. SUFFICES ASSUME LeaseExpires(u) PROVE FALSE
        OBVIOUS
      <4>2. PICK d \in Drivers : Owes(d, u)
        BY <1>2, <4>1 DEF Leased, LeaseExpires
      <4> QED
        BY <4>1, <4>2 DEF LeaseExpires, Undisturbed, Owes
    <3>2. ASSUME NEW u \in Tasks, BackoffPasses(u) PROVE task'[t].lease = task[t].lease
      <4>1. task[t] \in TaskRow /\ SetTask(u, [task[u] EXCEPT !.ready = TRUE])
        BY <3>2 DEF TypeOK, BackoffPasses
      <4>2. CASE u = t
        <5>1. task'[t] = [task[t] EXCEPT !.ready = TRUE]
          BY <4>1, <4>2, Rewritten
        <5> QED
          BY <4>1, <5>1 DEF TaskRow
      <4>3. CASE u # t
        BY <4>1, <4>3, Rewritten
      <4> QED
        BY <4>2, <4>3
    <3> QED
      BY <1>8, <3>1, <3>2 DEF Passive, BenchPasses, vars
  <2>4. Exact'
    BY <1>2, <1>8, <2>2, ExactOn DEF KeepsHold
  <2>5. ASSUME NEW t \in Tasks PROVE Leased(t)'
    <3>1. \A d \in Drivers : Owes(d, t) => Owes(d, t)'
      BY <1>3, <1>8, OwesDef
    <3> QED
      BY <1>2, <2>3, <3>1 DEF Leased
  <2> QED
    BY <2>1, <2>4, <2>5
<1> QED
  BY <1>2, <1>5, <1>6, <1>7, <1>8, OthersKeep

\* Whatever the drivers do, and while nodes are drained, resumed and retired and
\* tasks requeued: without migrations, cancellations, recoveries, heartbeats and
\* deaths a node's load counts the attempts it holds.
THEOREM FleetLoadExact == Undisturbed => (Spec => []LoadExact)
<1> SUFFICES ASSUME Undisturbed PROVE Spec => []LoadExact
  OBVIOUS
<1>1. Init => Reserved
  <2> SUFFICES ASSUME Init PROVE OthersCalm /\ (\A t \in Tasks : Leased(t)) /\ Exact
    BY DEF Reserved
  <2>1. \A p \in Procs : me[p].pc = "idle" /\ me[p].list = {}
    BY DEF Init, Blank
  <2>2. OthersCalm
    BY <2>1 DEF OthersCalm, CallCalm, SweepCalm, RequestSteps, SweepSteps, Procs
  <2>3. \A t \in Tasks : Leased(t)
    BY DEF Init, NewTask, Leased
  <2>4. \A n \in Nodes : Reserving(n) = {}
    BY <2>1 DEF Reserving, Procs
  <2>5. Exact
    BY <2>4, FS_EmptySet DEF Exact, Init, NewNode
  <2> QED
    BY <2>2, <2>3, <2>5
<1>2. TypeOK /\ Reserved /\ [Next]_vars => Reserved'
  BY ReservedStep
<1>3. Reserved => LoadExact
  BY DEF Reserved, LoadExact, Exact
<1> QED
  BY <1>1, <1>2, <1>3, TypeInit, TypeStep, PTL DEF Spec
=============================================================================

--------------------------- MODULE InstanceProofs ---------------------------
(***************************************************************************)
(* What the services that several instances share promise, for any number  *)
(* of instances and calls.                                                 *)
(*                                                                         *)
(* Scheduler: the types, that believing in the lease means holding it      *)
(* alone, and that the hand-over of the lease starts nothing twice. Append *)
(* buffer: no row is left in the buffer with nobody coming for it, and a   *)
(* drain that no other call overtook finds every earlier row written or    *)
(* given up. Provider manager: the types, that a provider is benched only  *)
(* after enough failures, that the limiter holds where its two statements  *)
(* are not interleaved, and that one completion asks a bounded number of   *)
(* times. Memory synchronisation: a node that pulls is never carried past  *)
(* an entry it was not given, unless its answer was lost or the entry      *)
(* became visible after a later one; MsInv says which number each call has *)
(* drawn, how far the cursors may have come, and what every call holds in  *)
(* hand for its node. GreatestOf supplies the entry an answer ends at.     *)
(***************************************************************************)
EXTENDS Scheduler, AppendBuffer, Providers, MemorySync, Backups, FiniteSetTheorems, WellFoundedInduction, TLAPS

-----------------------------------------------------------------------------
(* The scheduler lease.                                                    *)

TickRows == [pc : {"idle", "next", "renew", "done"}, inst : Instances, left : SUBSET Schedules]

\* The figures SsTypeOK leaves out.
FiguresOK == started \in [Schedules -> Nat] /\ dues \in [Schedules -> Nat]
SsTypes == SsTypeOK /\ FiguresOK

LEMMA TickRowType ==
    ASSUME NEW step \in {"idle", "next", "renew", "done"} PROVE TickRow(step) \in TickRows
<1>1. (CHOOSE i \in Instances : TRUE) \in Instances BY SchedulerAssumption
<1> QED BY <1>1 DEF TickRow, TickRows

\* A tick whose list is not empty has a turn.
LEMMA TurnInLeft == ASSUME NEW k, tick[k].left # {} PROVE Turn(k) \in tick[k].left
BY DEF Turn

-----------------------------------------------------------------------------
(* Types                                                                    *)

LEMMA SsTypesInit == SsInit => SsTypes
<1> SUFFICES ASSUME SsInit PROVE SsTypes OBVIOUS
<1>1. tick \in [Ticks -> TickRows] BY TickRowType DEF SsInit
<1> QED BY <1>1 DEF SsInit, SsTypes, SsTypeOK, FiguresOK, TickRows, Disturbances

\* The heartbeat, the drain and the end of a lease.
LEMMA LeaseTypes ==
    ASSUME SsTypes, NEW i \in Instances,
           ClaimSees(i) \/ ClaimWrites(i) \/ BeatFails(i) \/ Drain(i) \/ LeaseEnds(i)
    PROVE  SsTypes'
<1>1. UNCHANGED tickVars
    BY DEF ClaimSees, ClaimWrites, BeatFails, Drain, LeaseEnds
<1>2. FiguresOK' BY <1>1 DEF SsTypes, FiguresOK, tickVars
<1>3. SsTypeOK'
  <2>1. CASE ClaimSees(i) BY <1>1, <2>1 DEF ClaimSees, SsTypes, SsTypeOK, tickVars, Disturbances
  <2>2. CASE ClaimWrites(i)
    <3>1. (lease[i] \/ beat[i] = "won") \in BOOLEAN /\ (beat[i] = "won") \in BOOLEAN
        BY DEF SsTypes, SsTypeOK
    <3>2. lease' \in [Instances -> BOOLEAN] /\ leader' \in [Instances -> BOOLEAN]
        BY <2>2, <3>1 DEF ClaimWrites, SsTypes, SsTypeOK
    <3> QED BY <1>1, <2>2, <3>2 DEF ClaimWrites, SsTypes, SsTypeOK, tickVars
  <2>3. CASE BeatFails(i) BY <1>1, <2>3 DEF BeatFails, SsTypes, SsTypeOK, tickVars
  <2>4. CASE Drain(i) BY <1>1, <2>4 DEF Drain, SsTypes, SsTypeOK, tickVars
  <2>5. CASE LeaseEnds(i) BY <1>1, <2>5 DEF LeaseEnds, SsTypes, SsTypeOK, tickVars
  <2> QED BY <2>1, <2>2, <2>3, <2>4, <2>5
<1> QED BY <1>2, <1>3 DEF SsTypes

\* An instance stops, in either way.
LEMMA StopTypes ==
    ASSUME SsTypes, NEW i \in Instances, ShutDown(i) \/ Die(i)
    PROVE  SsTypes'
<1>1. Stop(i) BY DEF ShutDown, Die
<1>2. lease' \in [Instances -> BOOLEAN] BY DEF ShutDown, Die, SsTypes, SsTypeOK
<1>3. tick' \in [Ticks -> TickRows]
    BY <1>1, TickRowType DEF Stop, SsTypes, SsTypeOK, TickRows
<1>4. disturbed' \subseteq Disturbances
    BY <1>1 DEF Stop, SsTypes, SsTypeOK, Disturbances
<1> QED BY <1>1, <1>2, <1>3, <1>4 DEF Stop, SsTypes, SsTypeOK, FiguresOK, TickRows

\* The steps of a tick, and a schedule that becomes due.
LEMMA BeginTypes == ASSUME SsTypes, NEW k \in Ticks, TickBegin(k) PROVE SsTypes'
<1>1. PICK i \in Instances : tick' = [tick EXCEPT ![k] = [pc |-> "next", inst |-> i, left |-> due]]
    BY DEF TickBegin
<1>2. [pc |-> "next", inst |-> i, left |-> due] \in TickRows BY DEF SsTypes, SsTypeOK, TickRows
<1>3. tick' \in [Ticks -> TickRows] BY <1>1, <1>2 DEF SsTypes, SsTypeOK, TickRows
<1>4. disturbed' \subseteq Disturbances BY DEF TickBegin, SsTypes, SsTypeOK, Disturbances
<1> QED BY <1>3, <1>4 DEF TickBegin, leaseVars, SsTypes, SsTypeOK, FiguresOK, TickRows

LEMMA FireTypes == ASSUME SsTypes, NEW k \in Ticks, TickFire(k) PROVE SsTypes'
<1>1. tick' \in [Ticks -> TickRows] BY DEF TickFire, SsTypes, SsTypeOK, TickRows
<1>2. Turn(k) \in Schedules
  <2>1. tick[k].left \subseteq Schedules BY DEF SsTypes, SsTypeOK
  <2> QED BY <2>1, TurnInLeft DEF TickFire
<1>3. started' \in [Schedules -> Nat] BY <1>2 DEF TickFire, SsTypes, FiguresOK
<1> QED BY <1>1, <1>3 DEF TickFire, leaseVars, SsTypes, SsTypeOK, FiguresOK, TickRows

LEMMA RenewTypes == ASSUME SsTypes, NEW k \in Ticks, TickRenew(k) PROVE SsTypes'
<1>1. tick' = [tick EXCEPT ![k] = [tick[k] EXCEPT !.pc = "next", !.left = @ \ {Turn(k)}]]
    BY DEF TickRenew
<1>2. tick[k] \in TickRows BY DEF SsTypes, SsTypeOK, TickRows
<1>3. [tick[k] EXCEPT !.pc = "next", !.left = @ \ {Turn(k)}] \in TickRows BY <1>2 DEF TickRows
<1>4. tick' \in [Ticks -> TickRows] BY <1>1, <1>3 DEF SsTypes, SsTypeOK, TickRows
<1>5. due' \subseteq Schedules /\ disturbed' \subseteq Disturbances
    BY DEF TickRenew, Renewed, Note, SsTypes, SsTypeOK, Disturbances
<1> QED BY <1>4, <1>5 DEF TickRenew, leaseVars, SsTypes, SsTypeOK, FiguresOK, TickRows

LEMMA EndTypes == ASSUME SsTypes, NEW k \in Ticks, TickEnd(k) PROVE SsTypes'
<1>1. tick' \in [Ticks -> TickRows] BY TickRowType DEF TickEnd, SsTypes, SsTypeOK, TickRows
<1> QED BY <1>1 DEF TickEnd, leaseVars, SsTypes, SsTypeOK, FiguresOK, TickRows

LEMMA DueTypes == ASSUME SsTypes, NEW s \in Schedules, BecomesDue(s) PROVE SsTypes'
BY DEF BecomesDue, leaseVars, SsTypes, SsTypeOK, FiguresOK

LEMMA SsTypesStep == SsTypes /\ [SsNext]_ssVars => SsTypes'
<1> SUFFICES ASSUME SsTypes, [SsNext]_ssVars PROVE SsTypes' OBVIOUS
<1>1. CASE UNCHANGED ssVars BY <1>1 DEF ssVars, SsTypes, SsTypeOK, FiguresOK
<1> QED BY <1>1, LeaseTypes, StopTypes, BeginTypes, FireTypes, RenewTypes, EndTypes, DueTypes DEF SsNext

LEMMA SsTypesAlways == SsSpec => []SsTypes
BY SsTypesInit, SsTypesStep, PTL DEF SsSpec

\* The rows, the instances and the ticks keep their types, for any number of them.
THEOREM SchedulerTypeCorrect == SsSpec => []SsTypeOK
BY SsTypesAlways, PTL DEF SsTypes

-----------------------------------------------------------------------------
(* The lease                                                                *)

\* One lease at most lies ahead; whoever has won has no competitor; whoever
\* believes in the lease has it.
OneLease == \A i, j \in Instances : lease[i] /\ lease[j] => i = j
WonAlone == \A i, j \in Instances : beat[i] = "won" /\ i # j => ~lease[j] /\ beat[j] # "won"
LeadersHold == \A i \in Instances : IsLeader(i) => lease[i]

LeaseInv == "race" \notin disturbed => OneLease /\ WonAlone /\ LeadersHold

LEMMA LeaseInvInit == SsInit => LeaseInv
BY DEF SsInit, LeaseInv, OneLease, WonAlone, LeadersHold, IsLeader

LEMMA LeaseInvStep == SsTypes /\ LeaseInv /\ [SsNext]_ssVars => LeaseInv'
<1> SUFFICES ASSUME SsTypes, LeaseInv, [SsNext]_ssVars, "race" \notin disturbed'
             PROVE  (OneLease /\ WonAlone /\ LeadersHold)'
    BY DEF LeaseInv
<1> USE DEF OneLease, WonAlone, LeadersHold, IsLeader
<1>1. ASSUME NEW i \in Instances, ClaimSees(i) PROVE (OneLease /\ WonAlone /\ LeadersHold)'
  <2>1. "race" \notin disturbed /\ \A j \in Instances \ {i} : beat[j] # "won"
      BY <1>1 DEF ClaimSees
  <2>2. \A j \in Instances : beat'[j] = IF j = i THEN IF Unheld(i) THEN "won" ELSE "lost" ELSE beat[j]
      BY <1>1 DEF ClaimSees, SsTypes, SsTypeOK
  <2>3. UNCHANGED <<lease, leader, state>> BY <1>1 DEF ClaimSees
  <2> QED BY <2>1, <2>2, <2>3 DEF LeaseInv, Unheld
<1>2. ASSUME NEW i \in Instances, ClaimWrites(i) PROVE (OneLease /\ WonAlone /\ LeadersHold)'
  <2>1. UNCHANGED <<state, disturbed>> BY <1>2 DEF ClaimWrites
  <2>2. \A j \in Instances : /\ lease'[j] = IF j = i THEN lease[i] \/ beat[i] = "won" ELSE lease[j]
                             /\ leader'[j] = IF j = i THEN beat[i] = "won" ELSE leader[j]
                             /\ beat'[j] = IF j = i THEN "idle" ELSE beat[j]
      BY <1>2, Zenon DEF ClaimWrites, SsTypes, SsTypeOK
  <2>3. OneLease /\ WonAlone /\ LeadersHold BY <2>1 DEF LeaseInv
  <2>4. CASE beat[i] = "won" BY <2>1, <2>2, <2>3, <2>4
  <2>5. CASE beat[i] # "won" BY <2>1, <2>2, <2>3, <2>5
  <2> QED BY <2>4, <2>5
<1>3. ASSUME NEW i \in Instances, BeatFails(i) \/ Drain(i) \/ LeaseEnds(i)
      PROVE (OneLease /\ WonAlone /\ LeadersHold)'
  <2>1. "race" \notin disturbed BY <1>3 DEF BeatFails, Drain, LeaseEnds
  <2>2. CASE BeatFails(i) BY <2>1, <2>2 DEF BeatFails, LeaseInv, SsTypes, SsTypeOK
  <2>3. CASE Drain(i) BY <2>1, <2>3 DEF Drain, LeaseInv, SsTypes, SsTypeOK
  <2>4. CASE LeaseEnds(i) BY <2>1, <2>4 DEF LeaseEnds, LeaseInv, SsTypes, SsTypeOK
  <2> QED BY <1>3, <2>2, <2>3, <2>4
<1>4. ASSUME NEW i \in Instances, ShutDown(i) \/ Die(i) PROVE (OneLease /\ WonAlone /\ LeadersHold)'
  <2>1. Stop(i) BY <1>4 DEF ShutDown, Die
  <2>2. "race" \notin disturbed /\ UNCHANGED beat BY <2>1 DEF Stop
  <2>3. \A j \in Instances : /\ state'[j] = IF j = i THEN "gone" ELSE state[j]
                             /\ leader'[j] = IF j = i THEN FALSE ELSE leader[j]
      BY <2>1 DEF Stop, SsTypes, SsTypeOK
  <2>4. \A j \in Instances : (lease'[j] => lease[j]) /\ (j # i => lease'[j] = lease[j])
      BY <1>4 DEF ShutDown, Die, SsTypes, SsTypeOK
  <2> QED BY <2>2, <2>3, <2>4 DEF LeaseInv
<1>5. ASSUME UNCHANGED leaseVars, disturbed \subseteq disturbed'
      PROVE  (OneLease /\ WonAlone /\ LeadersHold)'
    BY <1>5 DEF LeaseInv, leaseVars
<1>6. ASSUME NEW k \in Ticks, TickBegin(k) \/ TickFire(k) \/ TickRenew(k) \/ TickEnd(k)
      PROVE  UNCHANGED leaseVars /\ disturbed \subseteq disturbed'
    BY <1>6 DEF TickBegin, TickFire, TickRenew, TickEnd, Note
<1>7. ASSUME NEW s \in Schedules, BecomesDue(s)
      PROVE  UNCHANGED leaseVars /\ disturbed \subseteq disturbed'
    BY <1>7 DEF BecomesDue
<1>8. CASE UNCHANGED ssVars
    BY <1>5, <1>8 DEF ssVars, leaseVars
<1> QED BY <1>1, <1>2, <1>3, <1>4, <1>5, <1>6, <1>7, <1>8 DEF SsNext

\* A set without two members has at most one.
LEMMA AtMostOne ==
    ASSUME NEW S, \A x, y \in S : x = y PROVE Cardinality(S) <= 1
<1>1. CASE S = {} BY <1>1, FS_EmptySet
<1>2. CASE S # {}
  <2>1. PICK x \in S : TRUE BY <1>2
  <2>2. S = {x} BY <2>1
  <2>3. Cardinality({x}) = 1 BY FS_Singleton
  <2> QED BY <2>2, <2>3
<1> QED BY <1>1, <1>2

\* Without a race of two claims one instance at most believes in the lease, and
\* its row holds it: for any number of instances, whatever fails.
THEOREM LeaderHolds == SsSpec => []LeaderHoldsLease
<1>1. SsTypes /\ LeaseInv => LeaderHoldsLease
  <2> SUFFICES ASSUME LeaseInv, "race" \notin disturbed
               PROVE  OneLeader /\ \A i \in Leaders : lease[i]
      BY DEF LeaderHoldsLease
  <2>1. \A i \in Leaders : i \in Instances /\ lease[i] BY DEF LeaseInv, LeadersHold, Leaders
  <2>2. \A i, j \in Leaders : i = j BY <2>1 DEF LeaseInv, OneLease
  <2>3. OneLeader BY <2>2, AtMostOne DEF OneLeader
  <2> QED BY <2>1, <2>3
<1> QED BY <1>1, LeaseInvInit, LeaseInvStep, SsTypesAlways, PTL DEF SsSpec

-----------------------------------------------------------------------------
(* The schedules                                                            *)

Quiet == disturbed \intersect {"overlap", "failure"} = {}

\* One tick at a time; what it has left is due; a due schedule that has started
\* a run is the one whose next time the tick is about to write.
OneTick == \A k, j \in Ticks : Ticking(k) /\ Ticking(j) => k = j
LeftIsDue == \A k \in Ticks : Ticking(k) => tick[k].left \subseteq due
RenewHasTurn == \A k \in Ticks : tick[k].pc = "renew" => tick[k].left # {}
StartedOnce == \A s \in Schedules : started[s] <= 1
DueIsFresh ==
    \A s \in due : started[s] > 0 => \E k \in Ticks : tick[k].pc = "renew" /\ Turn(k) = s

TickParts == OneTick /\ LeftIsDue /\ RenewHasTurn /\ StartedOnce /\ DueIsFresh
TickInv == Quiet => TickParts

LEMMA TickInvInit == SsInit => TickInv
BY DEF SsInit, TickInv, TickParts, OneTick, LeftIsDue, RenewHasTurn, StartedOnce, DueIsFresh, Ticking, TickRow

\* Steps that leave the ticks and the schedules alone.
LEMMA TickRests == ASSUME TickParts, UNCHANGED tickVars PROVE TickParts'
BY DEF TickParts, tickVars, OneTick, LeftIsDue, RenewHasTurn, StartedOnce, DueIsFresh, Ticking, Turn

\* An instance stops: without a failure, none of its ticks was under way.
LEMMA StopQuiet ==
    ASSUME SsTypes, TickParts, NEW i \in Instances, Stop(i), Quiet' PROVE TickParts' /\ Quiet
<1>1. ~ \E k \in Ticks : tick[k].inst = i /\ Ticking(k) BY DEF Stop, Quiet
<1>2. Quiet BY <1>1 DEF Stop, Quiet
<1>3. tick' = [k \in Ticks |-> tick[k]] BY <1>1 DEF Stop
<1>4. tick' = tick BY <1>3 DEF SsTypes, SsTypeOK
<1> QED BY <1>2, <1>4, TickRests DEF Stop, tickVars

LEMMA BeginQuiet ==
    ASSUME SsTypes, TickParts, NEW k \in Ticks, TickBegin(k), Quiet' PROVE TickParts'
<1>1. \A j \in Ticks : ~Ticking(j) BY DEF TickBegin, Quiet
<1>2. PICK i \in Instances : tick' = [tick EXCEPT ![k] = [pc |-> "next", inst |-> i, left |-> due]]
    BY DEF TickBegin
<1>3. \A j \in Ticks \ {k} : tick'[j] = tick[j] BY <1>2 DEF SsTypes, SsTypeOK
<1>4. tick'[k].pc = "next" /\ tick'[k].left = due BY <1>2 DEF SsTypes, SsTypeOK
<1>5. UNCHANGED <<due, started>> BY DEF TickBegin
<1>6. \A j \in Ticks : tick[j].pc # "renew" BY <1>1 DEF Ticking
<1>7. \A s \in due : ~ started[s] > 0 BY <1>6 DEF TickParts, DueIsFresh
<1>8. DueIsFresh' BY <1>5, <1>7 DEF DueIsFresh
<1> QED BY <1>1, <1>3, <1>4, <1>5, <1>6, <1>8
        DEF TickParts, OneTick, LeftIsDue, RenewHasTurn, StartedOnce, Ticking

LEMMA FireQuiet ==
    ASSUME SsTypes, TickParts, NEW k \in Ticks, TickFire(k) PROVE TickParts'
<1>1. Ticking(k) /\ tick[k].pc = "next" BY DEF TickFire, TickAt, Ticking
<1>2. \A j \in Ticks : j # k => ~Ticking(j) /\ tick[j].pc # "renew"
    BY <1>1 DEF TickParts, OneTick, Ticking
<1>3. \A j \in Ticks \ {k} : tick'[j] = tick[j] BY DEF TickFire, SsTypes, SsTypeOK
<1>4. tick'[k].pc = "renew" /\ tick'[k].left = tick[k].left
    BY DEF TickFire, SsTypes, SsTypeOK
<1>5. Turn(k) \in tick[k].left /\ Turn(k)' = Turn(k)
    BY <1>4, TurnInLeft DEF TickFire, Turn
<1>6. Turn(k) \in due /\ tick[k].left \subseteq due BY <1>1, <1>5 DEF TickParts, LeftIsDue
<1>7. \A s \in due : ~ started[s] > 0 BY <1>1, <1>2 DEF TickParts, DueIsFresh
<1>8. due' = due BY DEF TickFire
<1>9. Turn(k) \in Schedules BY <1>6 DEF SsTypes, SsTypeOK
<1>10. started[Turn(k)] = 0 BY <1>6, <1>7, <1>9 DEF SsTypes, FiguresOK
<1>11. \A s \in Schedules : s # Turn(k) => started'[s] = started[s]
    BY DEF TickFire, SsTypes, FiguresOK
<1>12. started'[Turn(k)] <= 1 BY <1>9, <1>10 DEF TickFire, SsTypes, FiguresOK
<1>13. StartedOnce' BY <1>11, <1>12 DEF StartedOnce, TickParts
<1>14. DueIsFresh'
  <2> SUFFICES ASSUME NEW s \in due, started'[s] > 0
               PROVE  tick'[k].pc = "renew" /\ Turn(k)' = s
      BY <1>8 DEF DueIsFresh
  <2>1. s \in Schedules BY DEF SsTypes, SsTypeOK
  <2> QED BY <1>4, <1>5, <1>7, <1>11, <2>1
<1>15. OneTick' BY <1>2, <1>3 DEF OneTick, Ticking
<1>16. LeftIsDue' BY <1>2, <1>3, <1>4, <1>6, <1>8 DEF LeftIsDue, Ticking
<1>17. RenewHasTurn' BY <1>3, <1>4, <1>5 DEF TickParts, RenewHasTurn
<1> QED BY <1>13, <1>14, <1>15, <1>16, <1>17 DEF TickParts

LEMMA RenewQuiet ==
    ASSUME SsTypes, TickParts, NEW k \in Ticks, TickRenew(k), Quiet' PROVE TickParts' /\ Quiet
<1>1. Ticking(k) /\ tick[k].pc = "renew" BY DEF TickRenew, TickAt, Ticking
<1>2. due' = due \ {Turn(k)} /\ disturbed' = disturbed BY DEF TickRenew, Note, Quiet, Renewed
<1>3. \A j \in Ticks : j # k => ~Ticking(j) /\ tick[j].pc # "renew"
    BY <1>1 DEF TickParts, OneTick, Ticking
<1>4. \A j \in Ticks \ {k} : tick'[j] = tick[j] BY DEF TickRenew, SsTypes, SsTypeOK
<1>5. tick'[k].pc = "next" /\ tick'[k].left = tick[k].left \ {Turn(k)}
    BY DEF TickRenew, SsTypes, SsTypeOK
<1>6. UNCHANGED started BY DEF TickRenew
<1>7. \A s \in due : started[s] > 0 => s = Turn(k) BY <1>3 DEF TickParts, DueIsFresh
<1>8. DueIsFresh' BY <1>2, <1>6, <1>7 DEF DueIsFresh
<1>9. tick[k].left \subseteq due BY <1>1 DEF TickParts, LeftIsDue
<1>10. LeftIsDue' BY <1>2, <1>3, <1>4, <1>5, <1>9 DEF LeftIsDue, Ticking
<1>11. OneTick' BY <1>3, <1>4 DEF OneTick, Ticking
<1>12. RenewHasTurn' BY <1>3, <1>4, <1>5 DEF RenewHasTurn
<1> QED BY <1>2, <1>6, <1>8, <1>10, <1>11, <1>12 DEF TickParts, StartedOnce, Quiet

LEMMA EndQuiet == ASSUME SsTypes, TickParts, NEW k \in Ticks, TickEnd(k) PROVE TickParts'
<1>1. tick[k].pc = "next" BY DEF TickEnd, TickAt
<1>2. \A j \in Ticks \ {k} : tick'[j] = tick[j] BY DEF TickEnd, SsTypes, SsTypeOK
<1>3. tick'[k].pc = "done" BY DEF TickEnd, TickRow, SsTypes, SsTypeOK
<1>4. UNCHANGED <<due, started>> BY DEF TickEnd
<1>5. \A j \in Ticks : j # k => Turn(j)' = Turn(j) BY <1>2 DEF Turn
<1>6. DueIsFresh' BY <1>1, <1>2, <1>4, <1>5 DEF TickParts, DueIsFresh
<1> QED BY <1>2, <1>3, <1>4, <1>6
        DEF TickParts, OneTick, LeftIsDue, RenewHasTurn, StartedOnce, Ticking

LEMMA DueQuiet == ASSUME SsTypes, TickParts, NEW s \in Schedules, BecomesDue(s) PROVE TickParts'
<1>1. UNCHANGED tick /\ due' = due \union {s} BY DEF BecomesDue
<1>2. \A r \in Schedules : started'[r] = IF r = s THEN 0 ELSE started[r]
    BY DEF BecomesDue, SsTypes, FiguresOK
<1>3. due' \subseteq Schedules BY <1>1 DEF SsTypes, SsTypeOK
<1>4. DueIsFresh'
  <2> SUFFICES ASSUME NEW r \in due', started'[r] > 0
               PROVE  \E k \in Ticks : tick'[k].pc = "renew" /\ Turn(k)' = r
      BY DEF DueIsFresh
  <2>1. r # s /\ r \in due /\ started[r] > 0 BY <1>1, <1>2, <1>3
  <2> QED BY <1>1, <2>1 DEF TickParts, DueIsFresh, Turn
<1> QED BY <1>1, <1>2, <1>4
        DEF TickParts, OneTick, LeftIsDue, RenewHasTurn, StartedOnce, Ticking

LEMMA TickInvStep == SsTypes /\ TickInv /\ [SsNext]_ssVars => TickInv'
<1> SUFFICES ASSUME SsTypes, TickInv, [SsNext]_ssVars, Quiet' PROVE TickParts'
    BY DEF TickInv
<1>1. ASSUME NEW i \in Instances,
             ClaimSees(i) \/ ClaimWrites(i) \/ BeatFails(i) \/ Drain(i) \/ LeaseEnds(i)
      PROVE  TickParts'
  <2>1. UNCHANGED tickVars /\ disturbed \subseteq disturbed'
      BY <1>1 DEF ClaimSees, ClaimWrites, BeatFails, Drain, LeaseEnds
  <2> QED BY <2>1, TickRests DEF TickInv, Quiet
<1>2. ASSUME NEW i \in Instances, ShutDown(i) \/ Die(i) PROVE TickParts'
  <2>1. Stop(i) BY <1>2 DEF ShutDown, Die
  <2>2. Quiet BY <2>1 DEF Stop, Quiet
  <2> QED BY <2>1, <2>2, StopQuiet DEF TickInv
<1>3. ASSUME NEW k \in Ticks, TickBegin(k) \/ TickFire(k) \/ TickRenew(k) \/ TickEnd(k) PROVE TickParts'
  <2>1. disturbed \subseteq disturbed' BY <1>3 DEF TickBegin, TickFire, TickRenew, TickEnd, Note
  <2>2. TickParts BY <2>1 DEF TickInv, Quiet
  <2> QED BY <1>3, <2>2, BeginQuiet, FireQuiet, RenewQuiet, EndQuiet
<1>4. ASSUME NEW s \in Schedules, BecomesDue(s) PROVE TickParts'
    BY <1>4, DueQuiet DEF BecomesDue, TickInv, Quiet
<1>5. CASE UNCHANGED ssVars
    BY <1>5, TickRests DEF ssVars, tickVars, TickInv, Quiet
<1> QED BY <1>1, <1>2, <1>3, <1>4, <1>5 DEF SsNext

\* A schedule that became due starts one run, where ticks do not overlap and none
\* is cut short or fails to write: for any number of instances that hand the
\* lease to each other.
THEOREM StartedOncePerDue == SsSpec => []OncePerDue
<1>1. TickInv => OncePerDue BY DEF TickInv, TickParts, StartedOnce, OncePerDue, Quiet
<1> QED BY <1>1, TickInvInit, TickInvStep, SsTypesAlways, PTL DEF SsSpec

-----------------------------------------------------------------------------
(* The append buffer.                                                      *)

FlushRow == [pc : {"idle", "waiting", "writing", "ended", "returned"},
             on : Flushes \union {NoFlush}, batch : SUBSET AbRows, before : 0 .. MaxAdded]

\* The parts of the types that the argument needs.
AbTypes ==
    /\ added \in 0 .. MaxAdded /\ buffer \subseteq AbRows
    /\ armed \in BOOLEAN /\ inFlight \in Flushes \union {NoFlush}
    /\ flush \in [Flushes -> FlushRow]

\* The batch in flight is being written, and whoever waits waits for one that
\* has not yet returned.
AbWaits ==
    /\ inFlight # NoFlush => flush[inFlight].pc = "writing"
    /\ \A p \in Flushes : flush[p].pc = "waiting" =>
          /\ flush[p].on \in Flushes
          /\ flush[flush[p].on].pc \in {"writing", "ended"}

\* Somebody comes for what is in the buffer.
AbSeen == buffer # {} => armed \/ \E p \in Flushes : flush[p].pc = "waiting"

AbInv == AbTypes /\ AbWaits /\ AbSeen

LEMMA AbInitInv == AbInit => AbInv
<1> SUFFICES ASSUME AbInit PROVE AbInv
    OBVIOUS
<1> DEFINE row == [pc |-> "idle", on |-> NoFlush, batch |-> {}, before |-> 0]
<1>0. row \in FlushRow
    BY AppendBufferAssumption DEF FlushRow
<1>1. AbTypes
    <2>1. flush = [p \in Flushes |-> row]
        BY DEF AbInit
    <2> HIDE DEF row
    <2>2. flush \in [Flushes -> FlushRow]
        BY <1>0, <2>1
    <2>3. added = 0 /\ buffer = {} /\ armed = FALSE /\ inFlight = NoFlush
        BY DEF AbInit
    <2>4. added \in 0 .. MaxAdded
        BY <2>3, AppendBufferAssumption
    <2> QED BY <2>2, <2>3, <2>4 DEF AbTypes
<1>2. AbWaits /\ AbSeen
    BY DEF AbInit, AbWaits, AbSeen
<1> QED BY <1>1, <1>2 DEF AbInv

\* One record replaced: the calls stay what they are.
LEMMA AbOneRow ==
    ASSUME flush \in [Flushes -> FlushRow], NEW p \in Flushes, NEW r \in FlushRow,
           flush' = [flush EXCEPT ![p] = r]
    PROVE  /\ flush' \in [Flushes -> FlushRow]
           /\ flush'[p] = r
           /\ \A q \in Flushes \ {p} : flush'[q] = flush[q]
OBVIOUS

\* flush(), whoever calls it with whatever has been pushed.
LEMMA AbFlushKeeps ==
    ASSUME AbTypes, AbWaits,
           NEW p \in Flushes, NEW rows \in SUBSET AbRows, NEW n \in 0 .. MaxAdded, NEW timer \in BOOLEAN,
           Flush(p, rows, n, timer), added' \in 0 .. MaxAdded
    PROVE  AbInv'
<1>0. flush[p].pc = "idle"
    BY DEF Flush, AbAt
<1>1. CASE FlushWait(p, rows, n, timer)
    <2> DEFINE r == [flush[p] EXCEPT !.pc = "waiting", !.on = inFlight, !.before = n]
    <2>1. r \in FlushRow /\ r.pc = "waiting" /\ r.on = inFlight
        BY DEF AbTypes, FlushRow
    <2>2. flush' = [flush EXCEPT ![p] = r]
        BY <1>1 DEF FlushWait
    <2> HIDE DEF r
    <2>3. /\ flush' \in [Flushes -> FlushRow] /\ flush'[p] = r
          /\ \A q \in Flushes \ {p} : flush'[q] = flush[q]
        BY <2>1, <2>2, AbOneRow DEF AbTypes
    <2>4. AbTypes'
        BY <1>1, <2>3 DEF FlushWait, AbTypes
    <2>5. inFlight \in Flushes /\ inFlight' = inFlight /\ inFlight # p /\ flush[inFlight].pc = "writing"
        BY <1>0, <1>1 DEF FlushWait, AbTypes, AbWaits
    <2>6. \A q \in Flushes : flush[q].pc = "waiting" => flush[q].on # p
        BY <1>0 DEF AbWaits
    <2>7. AbWaits'
        <3>1. flush'[inFlight].pc = "writing"
            BY <2>3, <2>5
        <3>2. ASSUME NEW q \in Flushes, flush'[q].pc = "waiting"
              PROVE  flush'[q].on \in Flushes /\ flush'[flush'[q].on].pc \in {"writing", "ended"}
            <4>1. CASE q = p
                BY <2>1, <2>3, <2>5, <3>1, <4>1
            <4>2. CASE q # p
                BY <2>3, <2>6, <3>2, <4>2 DEF AbWaits
            <4> QED BY <4>1, <4>2
        <3> QED BY <2>5, <3>1, <3>2 DEF AbWaits
    <2>8. AbSeen'
        BY <2>1, <2>3 DEF AbSeen
    <2> QED BY <2>4, <2>7, <2>8 DEF AbInv
<1>2. CASE FlushTake(p, rows, n)
    <2> DEFINE r == [flush[p] EXCEPT !.pc = "writing", !.batch = rows, !.before = n]
    <2>1. r \in FlushRow /\ r.pc = "writing"
        BY DEF AbTypes, FlushRow
    <2>2. flush' = [flush EXCEPT ![p] = r]
        BY <1>2 DEF FlushTake
    <2> HIDE DEF r
    <2>3. /\ flush' \in [Flushes -> FlushRow] /\ flush'[p] = r
          /\ \A q \in Flushes \ {p} : flush'[q] = flush[q]
        BY <2>1, <2>2, AbOneRow DEF AbTypes
    <2>4. AbTypes'
        BY <1>2, <2>3 DEF FlushTake, AbTypes
    <2>5. AbWaits'
        BY <1>0, <1>2, <2>1, <2>3 DEF FlushTake, AbWaits
    <2>6. AbSeen'
        BY <1>2 DEF FlushTake, AbSeen
    <2> QED BY <2>4, <2>5, <2>6 DEF AbInv
<1>3. CASE FlushNothing(p, rows, n)
    <2> DEFINE r == [flush[p] EXCEPT !.pc = "returned", !.before = n]
    <2>1. r \in FlushRow /\ r.pc = "returned"
        BY DEF AbTypes, FlushRow
    <2>2. flush' = [flush EXCEPT ![p] = r]
        BY <1>3 DEF FlushNothing
    <2> HIDE DEF r
    <2>3. /\ flush' \in [Flushes -> FlushRow] /\ flush'[p] = r
          /\ \A q \in Flushes \ {p} : flush'[q] = flush[q]
        BY <2>1, <2>2, AbOneRow DEF AbTypes
    <2>4. buffer' = {} /\ inFlight' = NoFlush /\ armed' = FALSE
        BY <1>3 DEF FlushNothing
    <2>5. AbTypes'
        BY <2>3, <2>4 DEF AbTypes
    <2>6. AbWaits'
        BY <1>0, <2>1, <2>3, <2>4 DEF AbWaits
    <2>7. AbSeen'
        BY <2>4 DEF AbSeen
    <2> QED BY <2>5, <2>6, <2>7 DEF AbInv
<1> QED BY <1>1, <1>2, <1>3 DEF Flush

\* One batch goes on: its record changes, and who waits stays as it is.
LEMMA AbWriteKeeps ==
    ASSUME AbInv, NEW p \in Flushes, NEW o \in Tenants, WriteTenant(p, o)
    PROVE  AbInv'
<1> DEFINE rest == flush[p].batch \ {r \in flush[p].batch : TenantOf[r] = o}
           row  == [flush[p] EXCEPT !.batch = rest, !.pc = IF rest = {} THEN "ended" ELSE "writing"]
<1>0. flush[p].pc = "writing"
    BY DEF WriteTenant, AbAt
<1>1. row \in FlushRow /\ row.on = flush[p].on /\ row.pc = IF rest = {} THEN "ended" ELSE "writing"
    BY DEF AbInv, AbTypes, FlushRow
<1>2. flush' = [flush EXCEPT ![p] = row]
    BY DEF WriteTenant
<1>3. /\ inFlight' = IF rest = {} THEN NoFlush ELSE inFlight
      /\ UNCHANGED <<added, buffer, armed>>
    BY DEF WriteTenant
<1> HIDE DEF rest, row
<1>4. /\ flush' \in [Flushes -> FlushRow] /\ flush'[p] = row
      /\ \A q \in Flushes \ {p} : flush'[q] = flush[q]
    BY <1>1, <1>2, AbOneRow DEF AbInv, AbTypes
<1>5. AbTypes'
    BY <1>3, <1>4 DEF AbInv, AbTypes
<1>6. \A q \in Flushes : flush'[q].pc = "waiting" <=> flush[q].pc = "waiting"
    BY <1>0, <1>1, <1>4
<1>7. \A q \in Flushes : flush'[q].on = flush[q].on
    BY <1>1, <1>4
<1>8. \A q \in Flushes : flush[q].pc \in {"writing", "ended"} => flush'[q].pc \in {"writing", "ended"}
    BY <1>0, <1>1, <1>4
<1>9. inFlight' # NoFlush => flush'[inFlight'].pc = "writing"
    BY <1>1, <1>3, <1>4 DEF AbInv, AbTypes, AbWaits
<1>10. AbWaits'
    BY <1>6, <1>7, <1>8, <1>9 DEF AbInv, AbWaits
<1>11. AbSeen'
    BY <1>3, <1>6 DEF AbInv, AbSeen
<1> QED BY <1>5, <1>10, <1>11 DEF AbInv

\* A batch has returned and the first of those who waited takes the rest.
LEMMA AbWakeTakingKeeps ==
    ASSUME AbInv, NEW p \in Flushes, NEW w \in Flushes, WakeTaking(p, w)
    PROVE  AbInv'
<1>1. /\ flush[p].pc = "ended" /\ w \in WaitingOn(p)
      /\ flush[w].pc = "waiting" /\ flush[w].on = p /\ w # p
    BY DEF WakeTaking, AbAt, WaitingOn
<1> DEFINE Next(q) == IF q = w THEN [flush[q] EXCEPT !.pc = "writing", !.batch = buffer]
                      ELSE IF q \in WaitingOn(p) \union {p} THEN [flush[q] EXCEPT !.pc = "returned"]
                      ELSE flush[q]
<1>2. flush' = [q \in Flushes |-> Next(q)]
    BY DEF WakeTaking
<1>3. \A q \in Flushes : Next(q) \in FlushRow
    BY DEF AbInv, AbTypes, FlushRow
<1>4. flush' \in [Flushes -> FlushRow]
    BY <1>2, <1>3
<1>5. inFlight' = w /\ buffer' = {} /\ armed' = FALSE /\ added' = added
    BY DEF WakeTaking
<1>6. flush'[w].pc = "writing"
    BY <1>2 DEF AbInv, AbTypes, FlushRow
<1>7. \A q \in Flushes : flush'[q].pc = "waiting" =>
          flush[q].pc = "waiting" /\ flush'[q] = flush[q] /\ flush[q].on # p
    BY <1>2, <1>1 DEF AbInv, AbTypes, FlushRow, WaitingOn, AbAt
<1>8. \A q \in Flushes \ {p} : flush[q].pc \in {"writing", "ended"} => flush'[q] = flush[q]
    BY <1>1, <1>2 DEF WaitingOn, AbAt
<1>9. AbTypes'
    BY <1>4, <1>5 DEF AbInv, AbTypes
<1>10. AbWaits'
    BY <1>5, <1>6, <1>7, <1>8 DEF AbInv, AbWaits
<1>11. AbSeen'
    BY <1>5 DEF AbSeen
<1> QED BY <1>9, <1>10, <1>11 DEF AbInv

\* A batch has returned and nobody who waited finds anything.
LEMMA AbWakeDoneKeeps ==
    ASSUME AbInv, NEW p \in Flushes, WakeDone(p)
    PROVE  AbInv'
<1>1. /\ flush[p].pc = "ended"
      /\ WaitingOn(p) = {} \/ buffer = {}
      /\ UNCHANGED <<added, buffer, armed, inFlight>>
    BY DEF WakeDone, AbAt
<1> DEFINE Next(q) == IF q \in WaitingOn(p) \union {p} THEN [flush[q] EXCEPT !.pc = "returned"] ELSE flush[q]
<1>2. flush' = [q \in Flushes |-> Next(q)]
    BY DEF WakeDone
<1>3. \A q \in Flushes : Next(q) \in FlushRow
    BY DEF AbInv, AbTypes, FlushRow
<1>4. flush' \in [Flushes -> FlushRow]
    BY <1>2, <1>3
<1>5. \A q \in Flushes : flush'[q].pc = "waiting" =>
          flush[q].pc = "waiting" /\ flush'[q] = flush[q] /\ flush[q].on # p
    BY <1>2, <1>1 DEF AbInv, AbTypes, FlushRow, WaitingOn, AbAt
<1>6. \A q \in Flushes \ {p} : flush[q].pc \in {"writing", "ended"} => flush'[q] = flush[q]
    BY <1>1, <1>2 DEF WaitingOn, AbAt
<1>7. AbTypes'
    BY <1>1, <1>4 DEF AbInv, AbTypes
<1>8. inFlight # NoFlush => inFlight \in Flushes \ {p} /\ flush'[inFlight].pc = "writing"
    BY <1>1, <1>6 DEF AbInv, AbTypes, AbWaits
<1>9. AbWaits'
    BY <1>1, <1>5, <1>6, <1>8 DEF AbInv, AbWaits
<1>10. buffer # {} => \A q \in Flushes : flush[q].pc = "waiting" => flush'[q] = flush[q]
    BY <1>1, <1>2 DEF WaitingOn, AbAt
<1>11. AbSeen'
    BY <1>1, <1>10 DEF AbInv, AbSeen
<1> QED BY <1>7, <1>9, <1>11 DEF AbInv

\* A row comes in: it fills the buffer or a batch, or the timer is set.
LEMMA AbAddKeeps == AbInv /\ Add => AbInv'
<1> SUFFICES ASSUME AbInv, Add PROVE AbInv'
    OBVIOUS
<1> DEFINE rows == buffer \union {added + 1}
<1>1. added' = added + 1 /\ added' \in 0 .. MaxAdded /\ rows \subseteq AbRows
    BY AppendBufferAssumption DEF Add, AbInv, AbTypes, AbRows
<1>2. CASE \E p \in Flushes : Flush(p, rows, added + 1, armed)
    <2>1. PICK p \in Flushes : Flush(p, rows, added + 1, armed)
        BY <1>2
    <2> QED BY <1>1, <2>1, AbFlushKeeps DEF AbInv, AbTypes
<1>3. CASE buffer' = rows /\ Arm /\ UNCHANGED <<inFlight, flush, missed, overtaken>>
    BY <1>1, <1>3 DEF Arm, AbInv, AbTypes, AbWaits, AbSeen
<1> QED BY <1>2, <1>3 DEF Add

LEMMA AbNextKeeps == AbInv /\ [AbNext]_abVars => AbInv'
<1> SUFFICES ASSUME AbInv, [AbNext]_abVars PROVE AbInv'
    OBVIOUS
<1>1. CASE Add
    BY <1>1, AbAddKeeps
<1>2. CASE TimerFires
    <2>1. PICK p \in Flushes : Flush(p, buffer, added, FALSE)
        BY <1>2 DEF TimerFires
    <2>2. added' = added
        BY <1>2 DEF TimerFires
    <2> QED BY <2>1, <2>2, AbFlushKeeps DEF AbInv, AbTypes
<1>3. CASE ReadDrains
    <2>1. PICK p \in Flushes : Flush(p, buffer, added, armed)
        BY <1>3 DEF ReadDrains
    <2>2. added' = added
        BY <1>3 DEF ReadDrains
    <2> QED BY <2>1, <2>2, AbFlushKeeps DEF AbInv, AbTypes
<1>4. ASSUME NEW p \in Flushes, NEW o \in Tenants, WriteTenant(p, o) PROVE AbInv'
    BY <1>4, AbWriteKeeps
<1>5. ASSUME NEW p \in Flushes, NEW w \in Flushes, WakeTaking(p, w) PROVE AbInv'
    BY <1>5, AbWakeTakingKeeps
<1>6. ASSUME NEW p \in Flushes, WakeDone(p) PROVE AbInv'
    BY <1>6, AbWakeDoneKeeps
<1>7. CASE UNCHANGED abVars
    BY <1>7 DEF abVars, AbInv, AbTypes, AbWaits, AbSeen
<1> QED BY <1>1, <1>2, <1>3, <1>4, <1>5, <1>6, <1>7 DEF AbNext

\* add() leaves no row behind: whatever batch is in flight, the timer is set or a
\* call that will take the row waits for a batch that is still going.
THEOREM NothingEverStranded == AbSpec => []NothingStranded
<1>1. AbInv => NothingStranded
    BY DEF AbInv, AbSeen, AbWaits, NothingStranded, WaitingOn, AbAt
<1> QED BY <1>1, AbInitInv, AbNextKeeps, PTL DEF AbSpec

-----------------------------------------------------------------------------
(* What a call finds written when it returns                                *)

\* Every row that was added is settled, in the buffer or in a batch.
AbCovered ==
    \A r \in 1 .. added :
        r \in settled \/ r \in buffer \/ \E q \in Flushes : flush[q].pc = "writing" /\ r \in flush[q].batch

AbEndedEmpty == \A p \in Flushes : flush[p].pc = "ended" => flush[p].batch = {}

\* What was added before a call that was not overtaken is settled, or is where
\* the call will see it through.
SeesWriting(p) == flush[p].pc = "writing" => 1 .. flush[p].before \subseteq settled \union flush[p].batch
SeesWaiting(p) ==
    flush[p].pc = "waiting" =>
        1 .. flush[p].before \subseteq settled \union buffer \union flush[flush[p].on].batch
SeesEnded(p) == flush[p].pc = "ended" => 1 .. flush[p].before \subseteq settled
AbSees(p) == SeesWriting(p) /\ SeesWaiting(p) /\ SeesEnded(p) /\ missed[p] = {}

AbDrain ==
    /\ missed \in [Flushes -> SUBSET AbRows] /\ settled \subseteq AbRows
    /\ AbCovered /\ AbEndedEmpty
    /\ \A p \in Flushes \ overtaken : AbSees(p)

LEMMA AbDrainInit == AbInit => AbDrain
<1> SUFFICES ASSUME AbInit PROVE AbDrain
    OBVIOUS
<1>1. added = 0 /\ settled = {} /\ missed = [p \in Flushes |-> {}] /\ \A p \in Flushes : flush[p].pc = "idle"
    BY DEF AbInit
<1>2. 1 .. added = {}
    BY <1>1
<1> QED BY <1>1, <1>2
        DEF AbDrain, AbCovered, AbEndedEmpty, AbSees, SeesWriting, SeesWaiting, SeesEnded

\* A call of flush() that had not begun: no call waits for it.
LEMMA AbFlushBegins ==
    ASSUME AbTypes, AbWaits, NEW p \in Flushes, flush[p].pc = "idle", NEW r \in FlushRow,
           flush' = [flush EXCEPT ![p] = r]
    PROVE  /\ flush'[p] = r /\ \A q \in Flushes \ {p} : flush'[q] = flush[q]
           /\ \A q \in Flushes \ {p} : flush[q].pc = "waiting" =>
                 flush[q].on \in Flushes \ {p} /\ flush'[flush'[q].on] = flush[flush[q].on]
<1>1. flush'[p] = r /\ \A q \in Flushes \ {p} : flush'[q] = flush[q]
    BY AbOneRow DEF AbTypes
<1> QED BY <1>1 DEF AbWaits

\* flush(), whoever calls it, when `rows` is what the buffer holds and `n` rows
\* were added.
LEMMA AbFlushDrains ==
    ASSUME AbTypes, AbWaits, AbDrain,
           NEW p \in Flushes, NEW rows \in SUBSET AbRows, NEW n \in 0 .. MaxAdded, NEW timer \in BOOLEAN,
           buffer \subseteq rows, added' = n, settled' = settled,
           \A r \in 1 .. n : r \in 1 .. added \/ r \in rows,
           Flush(p, rows, n, timer)
    PROVE  AbDrain'
<1>0. flush[p].pc = "idle"
    BY DEF Flush, AbAt
<1>1. \A r \in 1 .. n :
          r \in settled \/ r \in rows \/ \E q \in Flushes : flush[q].pc = "writing" /\ r \in flush[q].batch
    BY DEF AbDrain, AbCovered
<1>2. 1 .. n \subseteq AbRows
    BY AppendBufferAssumption DEF AbRows
<1>3. CASE FlushWait(p, rows, n, timer)
    <2> DEFINE r == [flush[p] EXCEPT !.pc = "waiting", !.on = inFlight, !.before = n]
    <2>1. r \in FlushRow /\ r.pc = "waiting" /\ r.on = inFlight /\ r.before = n
        BY DEF AbTypes, FlushRow
    <2>2. flush' = [flush EXCEPT ![p] = r]
        BY <1>3 DEF FlushWait
    <2> HIDE DEF r
    <2>3. /\ flush'[p] = r /\ \A q \in Flushes \ {p} : flush'[q] = flush[q]
          /\ \A q \in Flushes \ {p} : flush[q].pc = "waiting" =>
                flush[q].on \in Flushes \ {p} /\ flush'[flush'[q].on] = flush[flush[q].on]
        BY <1>0, <2>1, <2>2, AbFlushBegins
    <2>4. /\ buffer' = rows /\ missed' = missed
          /\ overtaken' = overtaken \union {q \in {p} : Shadowed # {}}
        BY <1>3 DEF FlushWait
    <2>5. inFlight \in Flushes \ {p} /\ flush'[inFlight] = flush[inFlight]
        BY <1>0, <1>3, <2>3 DEF FlushWait, AbTypes, AbWaits
    <2>6. \A q \in Flushes : flush[q].pc = "writing" => flush'[q] = flush[q]
        BY <1>0, <2>3
    <2>7. AbCovered'
        BY <1>1, <2>4, <2>6 DEF AbCovered
    <2>8. AbEndedEmpty'
        BY <2>1, <2>3 DEF AbDrain, AbEndedEmpty
    <2>9. ASSUME NEW q \in Flushes \ overtaken', q # p PROVE AbSees(q)'
        <3>1. AbSees(q) /\ flush'[q] = flush[q]
            BY <2>3, <2>4, <2>9 DEF AbDrain
        <3>2. flush[q].pc = "waiting" => flush'[flush'[q].on] = flush[flush[q].on]
            BY <2>3, <2>9
        <3>3. SeesWaiting(q)'
            BY <2>4, <3>1, <3>2 DEF AbSees, SeesWaiting
        <3> QED BY <2>4, <3>1, <3>3 DEF AbSees, SeesWriting, SeesEnded
    <2>10. ASSUME p \notin overtaken' PROVE AbSees(p)'
        <3>1. p \notin overtaken /\ Shadowed = {}
            BY <2>4, <2>10
        <3>2. \A q \in Flushes : flush[q].pc = "writing" => q = inFlight
            BY <3>1 DEF Shadowed, AbAt
        <3>3. 1 .. n \subseteq settled \union rows \union flush[inFlight].batch
            BY <1>1, <3>2
        <3>4. SeesWaiting(p)'
            BY <2>1, <2>3, <2>4, <2>5, <3>3 DEF SeesWaiting
        <3>5. missed[p] = {}
            BY <3>1 DEF AbDrain, AbSees
        <3> QED BY <2>1, <2>3, <2>4, <3>4, <3>5 DEF AbSees, SeesWriting, SeesEnded
    <2> QED BY <2>4, <2>7, <2>8, <2>9, <2>10 DEF AbDrain
<1>4. CASE FlushTake(p, rows, n)
    <2> DEFINE r == [flush[p] EXCEPT !.pc = "writing", !.batch = rows, !.before = n]
    <2>1. r \in FlushRow /\ r.pc = "writing" /\ r.batch = rows /\ r.before = n
        BY DEF AbTypes, FlushRow
    <2>2. flush' = [flush EXCEPT ![p] = r]
        BY <1>4 DEF FlushTake
    <2> HIDE DEF r
    <2>3. flush'[p] = r /\ \A q \in Flushes \ {p} : flush'[q] = flush[q]
        BY <1>0, <2>1, <2>2, AbFlushBegins
    <2>4. /\ inFlight = NoFlush /\ buffer' = {} /\ missed' = missed
          /\ overtaken' = overtaken \union {q \in Flushes : AbAt(q, "waiting")} \union {q \in {p} : Shadowed # {}}
        BY <1>4 DEF FlushTake
    <2>5. \A q \in Flushes : flush[q].pc = "writing" => flush'[q] = flush[q]
        BY <1>0, <2>3
    <2>6. AbCovered'
        BY <1>1, <2>1, <2>3, <2>4, <2>5 DEF AbCovered
    <2>7. AbEndedEmpty'
        BY <2>1, <2>3 DEF AbDrain, AbEndedEmpty
    <2>8. ASSUME NEW q \in Flushes \ overtaken', q # p PROVE AbSees(q)'
        <3>1. AbSees(q) /\ flush'[q] = flush[q] /\ flush[q].pc # "waiting"
            BY <2>3, <2>4, <2>8 DEF AbDrain, AbAt
        <3> QED BY <2>4, <3>1 DEF AbSees, SeesWriting, SeesWaiting, SeesEnded
    <2>9. ASSUME p \notin overtaken' PROVE AbSees(p)'
        <3>1. p \notin overtaken /\ Shadowed = {}
            BY <2>4, <2>9
        <3>2. \A q \in Flushes : flush[q].pc # "writing"
            BY <2>4, <3>1 DEF Shadowed, AbAt, NoFlush, Flushes
        <3>3. 1 .. n \subseteq settled \union rows
            BY <1>1, <3>2
        <3>4. missed[p] = {}
            BY <3>1 DEF AbDrain, AbSees
        <3> QED BY <2>1, <2>3, <2>4, <3>3, <3>4 DEF AbSees, SeesWriting, SeesWaiting, SeesEnded
    <2> QED BY <2>4, <2>6, <2>7, <2>8, <2>9 DEF AbDrain
<1>5. CASE FlushNothing(p, rows, n)
    <2> DEFINE r == [flush[p] EXCEPT !.pc = "returned", !.before = n]
    <2>1. r \in FlushRow /\ r.pc = "returned"
        BY DEF AbTypes, FlushRow
    <2>2. flush' = [flush EXCEPT ![p] = r]
        BY <1>5 DEF FlushNothing
    <2> HIDE DEF r
    <2>3. /\ flush'[p] = r /\ \A q \in Flushes \ {p} : flush'[q] = flush[q]
          /\ \A q \in Flushes \ {p} : flush[q].pc = "waiting" =>
                flush[q].on \in Flushes \ {p} /\ flush'[flush'[q].on] = flush[flush[q].on]
        BY <1>0, <2>1, <2>2, AbFlushBegins
    <2>4. /\ inFlight = NoFlush /\ rows = {} /\ buffer' = {} /\ buffer = {}
          /\ missed' = [missed EXCEPT ![p] = (1 .. n) \ settled]
          /\ overtaken' = overtaken \union {q \in {p} : Shadowed # {}}
        BY <1>5 DEF FlushNothing
    <2>5. /\ missed' \in [Flushes -> SUBSET AbRows] /\ missed'[p] = (1 .. n) \ settled
          /\ \A q \in Flushes \ {p} : missed'[q] = missed[q]
        BY <1>2, <2>4 DEF AbDrain
    <2>6. \A q \in Flushes : flush[q].pc = "writing" => flush'[q] = flush[q]
        BY <1>0, <2>3
    <2>7. AbCovered'
        BY <1>1, <2>4, <2>6 DEF AbCovered
    <2>8. AbEndedEmpty'
        BY <2>1, <2>3 DEF AbDrain, AbEndedEmpty
    <2>9. ASSUME NEW q \in Flushes \ overtaken', q # p PROVE AbSees(q)'
        <3>1. AbSees(q) /\ flush'[q] = flush[q] /\ missed'[q] = missed[q]
            BY <2>3, <2>4, <2>5, <2>9 DEF AbDrain
        <3>2. flush[q].pc = "waiting" => flush'[flush'[q].on] = flush[flush[q].on]
            BY <2>3, <2>9
        <3>3. SeesWaiting(q)'
            BY <2>4, <3>1, <3>2 DEF AbSees, SeesWaiting
        <3> QED BY <3>1, <3>3 DEF AbSees, SeesWriting, SeesEnded
    <2>10. ASSUME p \notin overtaken' PROVE AbSees(p)'
        <3>1. Shadowed = {}
            BY <2>4, <2>10
        <3>2. \A q \in Flushes : flush[q].pc # "writing"
            BY <2>4, <3>1 DEF Shadowed, AbAt, NoFlush, Flushes
        <3>3. 1 .. n \subseteq settled
            BY <1>1, <2>4, <3>2
        <3> QED BY <2>1, <2>3, <2>5, <3>3 DEF AbSees, SeesWriting, SeesWaiting, SeesEnded
    <2> QED BY <2>5, <2>7, <2>8, <2>9, <2>10 DEF AbDrain
<1> QED BY <1>3, <1>4, <1>5 DEF Flush

\* Rows of a batch are settled: they leave the batch for the settled ones.
LEMMA AbWriteDrains ==
    ASSUME AbInv, AbDrain, NEW p \in Flushes, NEW o \in Tenants, WriteTenant(p, o)
    PROVE  AbDrain'
<1> DEFINE part == {r \in flush[p].batch : TenantOf[r] = o}
           rest == flush[p].batch \ part
           row  == [flush[p] EXCEPT !.batch = rest, !.pc = IF rest = {} THEN "ended" ELSE "writing"]
<1>0. flush[p].pc = "writing" /\ settled' = settled \union part /\ UNCHANGED <<added, buffer, missed, overtaken>>
    BY DEF WriteTenant, AbAt
<1>1. /\ row \in FlushRow /\ row.on = flush[p].on /\ row.before = flush[p].before /\ row.batch = rest
      /\ row.pc = IF rest = {} THEN "ended" ELSE "writing"
    BY DEF AbInv, AbTypes, FlushRow
<1>2. flush' = [flush EXCEPT ![p] = row]
    BY DEF WriteTenant
<1>3. part \union rest = flush[p].batch /\ part \subseteq AbRows
    BY DEF AbInv, AbTypes, FlushRow
<1> HIDE DEF part, rest, row
<1>4. flush'[p] = row /\ \A q \in Flushes \ {p} : flush'[q] = flush[q]
    BY <1>1, <1>2, AbOneRow DEF AbInv, AbTypes
<1>5. AbCovered'
    <2> SUFFICES ASSUME NEW r \in 1 .. added, r \notin settled', r \notin buffer
                 PROVE  \E q \in Flushes : flush'[q].pc = "writing" /\ r \in flush'[q].batch
        BY <1>0 DEF AbCovered
    <2>1. PICK q \in Flushes : flush[q].pc = "writing" /\ r \in flush[q].batch
        BY <1>0 DEF AbDrain, AbCovered
    <2>2. CASE q = p
        BY <1>0, <1>1, <1>3, <1>4, <2>1, <2>2
    <2>3. CASE q # p
        BY <1>4, <2>1, <2>3
    <2> QED BY <2>2, <2>3
<1>6. AbEndedEmpty'
    BY <1>1, <1>4 DEF AbDrain, AbEndedEmpty
<1>7. \A q \in Flushes : flush[q].batch \subseteq flush'[q].batch \union settled'
    BY <1>0, <1>1, <1>3, <1>4
<1>8. ASSUME NEW q \in Flushes \ overtaken PROVE AbSees(q)'
    <2>1. AbSees(q)
        BY DEF AbDrain
    <2>2. CASE q = p
        <3>1. 1 .. flush[p].before \subseteq settled \union flush[p].batch
            BY <1>0, <2>1, <2>2 DEF AbSees, SeesWriting
        <3>2. rest = {} => 1 .. flush[p].before \subseteq settled'
            BY <1>0, <1>3, <3>1
        <3>3. 1 .. flush[p].before \subseteq settled' \union rest
            BY <1>0, <1>3, <3>1
        <3> QED BY <1>0, <1>1, <1>4, <2>1, <2>2, <3>2, <3>3 DEF AbSees, SeesWriting, SeesWaiting, SeesEnded
    <2>3. CASE q # p
        <3>1. flush'[q] = flush[q]
            BY <1>4, <2>3
        <3>2. SeesWaiting(q)'
            <4> SUFFICES ASSUME flush[q].pc = "waiting"
                         PROVE  1 .. flush[q].before \subseteq settled' \union buffer \union flush'[flush[q].on].batch
                BY <1>0, <3>1 DEF SeesWaiting
            <4>1. flush[q].on \in Flushes
                BY DEF AbInv, AbWaits
            <4> QED BY <1>0, <1>7, <2>1, <4>1 DEF AbSees, SeesWaiting
        <3> QED BY <1>0, <2>1, <3>1, <3>2 DEF AbSees, SeesWriting, SeesEnded
    <2> QED BY <2>2, <2>3
<1> QED BY <1>0, <1>3, <1>5, <1>6, <1>8 DEF AbDrain

\* The first of those who waited takes the buffer; it has everything that was
\* added before it, and so has the call whose batch has returned.
LEMMA AbWakeTakingDrains ==
    ASSUME AbInv, AbDrain, NEW p \in Flushes, NEW w \in Flushes, WakeTaking(p, w)
    PROVE  AbDrain'
<1>1. /\ flush[p].pc = "ended" /\ flush[w].pc = "waiting" /\ flush[w].on = p /\ w # p
      /\ buffer' = {} /\ UNCHANGED <<added, settled>>
      /\ overtaken' = overtaken \union ({q \in Flushes : AbAt(q, "waiting")} \ {w})
    BY DEF WakeTaking, AbAt, WaitingOn
<1>2. flush[p].batch = {}
    BY <1>1 DEF AbDrain, AbEndedEmpty
<1> DEFINE Back == (WaitingOn(p) \union {p}) \ {w}
           Row(q) == IF q = w THEN [flush[q] EXCEPT !.pc = "writing", !.batch = buffer]
                     ELSE IF q \in WaitingOn(p) \union {p} THEN [flush[q] EXCEPT !.pc = "returned"]
                     ELSE flush[q]
<1>3. flush' = [q \in Flushes |-> Row(q)] /\ missed' = [q \in Flushes |-> IF q \in Back THEN Misses(q) ELSE missed[q]]
    BY DEF WakeTaking
<1>4. \A q \in Flushes : Misses(q) \subseteq AbRows
    BY AppendBufferAssumption DEF Misses, AbInv, AbTypes, FlushRow, AbRows
<1>5. missed' \in [Flushes -> SUBSET AbRows]
    BY <1>3, <1>4 DEF AbDrain
<1>6. flush'[w].pc = "writing" /\ flush'[w].batch = buffer /\ flush'[w].before = flush[w].before
    BY <1>3 DEF AbInv, AbTypes, FlushRow
<1>7. \A q \in Flushes \ {w} : flush'[q].pc = "returned" \/ (q \notin Back /\ flush'[q] = flush[q])
    BY <1>3 DEF AbInv, AbTypes, FlushRow
<1>8. \A q \in Flushes : flush[q].pc = "writing" => flush'[q] = flush[q]
    BY <1>1, <1>3 DEF WaitingOn, AbAt
<1>9. AbCovered'
    BY <1>1, <1>6, <1>8 DEF AbDrain, AbCovered
<1>10. AbEndedEmpty'
    BY <1>6, <1>7 DEF AbDrain, AbEndedEmpty
<1>11. ASSUME NEW q \in Flushes \ overtaken' PROVE AbSees(q)'
    <2>1. AbSees(q) /\ q \notin overtaken
        BY <1>1 DEF AbDrain
    <2>2. CASE q = w
        <3>1. 1 .. flush[w].before \subseteq settled \union buffer
            BY <1>1, <1>2, <2>1, <2>2 DEF AbSees, SeesWaiting
        <3>2. missed'[w] = missed[w]
            BY <1>3
        <3> QED BY <1>1, <1>6, <2>1, <2>2, <3>1, <3>2 DEF AbSees, SeesWriting, SeesWaiting, SeesEnded
    <2>3. CASE q = p
        <3>1. missed'[p] = Misses(p)
            BY <1>1, <1>3
        <3>2. Misses(p) = {}
            BY <1>1, <2>1, <2>3 DEF AbSees, SeesEnded, Misses
        <3>3. flush'[p].pc = "returned"
            BY <1>1, <1>7
        <3> QED BY <2>3, <3>1, <3>2, <3>3 DEF AbSees, SeesWriting, SeesWaiting, SeesEnded
    <2>4. CASE q # w /\ q # p
        <3>1. flush[q].pc # "waiting"
            BY <1>1, <2>4 DEF AbAt
        <3>2. q \notin WaitingOn(p)
            BY <3>1 DEF WaitingOn, AbAt
        <3>3. flush'[q] = flush[q] /\ missed'[q] = missed[q]
            BY <1>3, <2>4, <3>2
        <3> QED BY <1>1, <2>1, <3>1, <3>3 DEF AbSees, SeesWriting, SeesWaiting, SeesEnded
    <2> QED BY <2>2, <2>3, <2>4
<1> QED BY <1>1, <1>5, <1>9, <1>10, <1>11 DEF AbDrain

\* Everybody who waited returns: nothing is in the buffer, or nobody waited.
LEMMA AbWakeDoneDrains ==
    ASSUME AbInv, AbDrain, NEW p \in Flushes, WakeDone(p)
    PROVE  AbDrain'
<1>1. /\ flush[p].pc = "ended" /\ (WaitingOn(p) = {} \/ buffer = {})
      /\ UNCHANGED <<added, buffer, settled, overtaken>>
    BY DEF WakeDone, AbAt
<1>2. flush[p].batch = {}
    BY <1>1 DEF AbDrain, AbEndedEmpty
<1> DEFINE Back == WaitingOn(p) \union {p}
           Row(q) == IF q \in Back THEN [flush[q] EXCEPT !.pc = "returned"] ELSE flush[q]
<1>3. flush' = [q \in Flushes |-> Row(q)] /\ missed' = [q \in Flushes |-> IF q \in Back THEN Misses(q) ELSE missed[q]]
    BY DEF WakeDone
<1>4. \A q \in Flushes : Misses(q) \subseteq AbRows
    BY AppendBufferAssumption DEF Misses, AbInv, AbTypes, FlushRow, AbRows
<1>5. missed' \in [Flushes -> SUBSET AbRows]
    BY <1>3, <1>4 DEF AbDrain
<1>6. \A q \in Flushes : q \in Back => flush'[q].pc = "returned" /\ missed'[q] = Misses(q)
    BY <1>3 DEF AbInv, AbTypes, FlushRow
<1>7. \A q \in Flushes : q \notin Back => flush'[q] = flush[q] /\ missed'[q] = missed[q]
    BY <1>3
<1>8. \A q \in Flushes : q \in Back => q = p \/ (flush[q].pc = "waiting" /\ flush[q].on = p /\ buffer = {})
    BY <1>1 DEF WaitingOn, AbAt
<1> HIDE DEF Back, Row
<1>9. AbCovered'
    <2>1. \A q \in Flushes : flush[q].pc = "writing" => flush'[q] = flush[q]
        BY <1>1, <1>7, <1>8
    <2> QED BY <1>1, <2>1 DEF AbDrain, AbCovered
<1>10. AbEndedEmpty'
    BY <1>6, <1>7 DEF AbDrain, AbEndedEmpty
<1>11. ASSUME NEW q \in Flushes \ overtaken PROVE AbSees(q)'
    <2>1. AbSees(q)
        BY DEF AbDrain
    <2>2. CASE q \in Back
        <3>1. 1 .. flush[q].before \subseteq settled
            BY <1>1, <1>2, <1>8, <2>1, <2>2 DEF AbSees, SeesWaiting, SeesEnded
        <3> QED BY <1>6, <2>2, <3>1 DEF AbSees, SeesWriting, SeesWaiting, SeesEnded, Misses
    <2>3. CASE q \notin Back
        <3>1. flush'[q] = flush[q] /\ missed'[q] = missed[q]
            BY <1>7, <2>3
        <3>2. SeesWaiting(q)'
            <4> SUFFICES ASSUME flush[q].pc = "waiting"
                         PROVE  1 .. flush[q].before \subseteq settled \union buffer \union flush'[flush[q].on].batch
                BY <1>1, <3>1 DEF SeesWaiting
            <4>1. flush[q].on \in Flushes /\ flush[flush[q].on].pc \in {"writing", "ended"}
                BY DEF AbInv, AbWaits
            <4>2. flush[q].on # p
                BY <2>3 DEF Back, WaitingOn, AbAt
            <4>3. flush'[flush[q].on] = flush[flush[q].on]
                BY <1>7, <1>8, <4>1, <4>2
            <4> QED BY <2>1, <4>3 DEF AbSees, SeesWaiting
        <3> QED BY <1>1, <2>1, <3>1, <3>2 DEF AbSees, SeesWriting, SeesEnded
    <2> QED BY <2>2, <2>3
<1> QED BY <1>1, <1>5, <1>9, <1>10, <1>11 DEF AbDrain

LEMMA AbDrainNext == AbInv /\ AbDrain /\ [AbNext]_abVars => AbDrain'
<1> SUFFICES ASSUME AbInv, AbDrain, [AbNext]_abVars PROVE AbDrain'
    OBVIOUS
<1>1. CASE Add
    <2> DEFINE rows == buffer \union {added + 1}
    <2>1. /\ added' = added + 1 /\ added' \in 0 .. MaxAdded /\ rows \subseteq AbRows /\ settled' = settled
          /\ \A r \in 1 .. added' : r \in 1 .. added \/ r \in rows
        BY <1>1, AppendBufferAssumption DEF Add, AbInv, AbTypes, AbRows
    <2>2. CASE \E p \in Flushes : Flush(p, rows, added + 1, armed)
        <3>1. PICK p \in Flushes : Flush(p, rows, added + 1, armed)
            BY <2>2
        <3> QED BY <2>1, <3>1, AbFlushDrains DEF AbInv, AbTypes
    <2>3. CASE buffer' = rows /\ UNCHANGED <<flush, missed, overtaken>>
        <3>1. AbCovered' /\ AbEndedEmpty'
            BY <2>1, <2>3 DEF AbDrain, AbCovered, AbEndedEmpty
        <3>2. \A p \in Flushes : AbSees(p) => AbSees(p)'
            BY <2>1, <2>3 DEF AbSees, SeesWriting, SeesWaiting, SeesEnded
        <3> QED BY <2>1, <2>3, <3>1, <3>2 DEF AbDrain
    <2> QED BY <1>1, <2>2, <2>3 DEF Add
<1>2. CASE TimerFires
    <2>1. PICK p \in Flushes : Flush(p, buffer, added, FALSE)
        BY <1>2 DEF TimerFires
    <2>2. UNCHANGED <<added, settled>>
        BY <1>2 DEF TimerFires
    <2> QED BY <2>1, <2>2, AbFlushDrains DEF AbInv, AbTypes
<1>3. CASE ReadDrains
    <2>1. PICK p \in Flushes : Flush(p, buffer, added, armed)
        BY <1>3 DEF ReadDrains
    <2>2. UNCHANGED <<added, settled>>
        BY <1>3 DEF ReadDrains
    <2> QED BY <2>1, <2>2, AbFlushDrains DEF AbInv, AbTypes
<1>4. ASSUME NEW p \in Flushes, NEW o \in Tenants, WriteTenant(p, o) PROVE AbDrain'
    BY <1>4, AbWriteDrains
<1>5. ASSUME NEW p \in Flushes, NEW w \in Flushes, WakeTaking(p, w) PROVE AbDrain'
    BY <1>5, AbWakeTakingDrains
<1>6. ASSUME NEW p \in Flushes, WakeDone(p) PROVE AbDrain'
    BY <1>6, AbWakeDoneDrains
<1>7. CASE UNCHANGED abVars
    <2>1. \A p \in Flushes : AbSees(p) => AbSees(p)'
        BY <1>7 DEF abVars, AbSees, SeesWriting, SeesWaiting, SeesEnded
    <2> QED BY <1>7, <2>1 DEF abVars, AbDrain, AbCovered, AbEndedEmpty
<1> QED BY <1>1, <1>2, <1>3, <1>4, <1>5, <1>6, <1>7 DEF AbNext

\* Whoever drained the buffer, as every read of the log does, finds every earlier
\* row written or given up, unless another call took rows while it waited.
THEOREM DrainFindsAll == AbSpec => []DrainedReads
<1>1. AbDrain => DrainedReads
    BY DEF AbDrain, AbSees, DrainedReads
<1> QED BY <1>1, AbInitInv, AbNextKeeps, AbDrainInit, AbDrainNext, PTL DEF AbSpec

\* Who was overtaken is a call.
AbOvertaken == overtaken \subseteq Flushes

LEMMA AbOvertakenNext == AbOvertaken /\ [AbNext]_abVars => AbOvertaken'
<1> SUFFICES ASSUME overtaken \subseteq Flushes, [AbNext]_abVars PROVE overtaken' \subseteq Flushes
    BY DEF AbOvertaken
<1>1. ASSUME NEW p \in Flushes, NEW rows, NEW n, NEW timer, Flush(p, rows, n, timer)
      PROVE  overtaken' \subseteq Flushes
    BY <1>1 DEF Flush, FlushWait, FlushTake, FlushNothing
<1>2. CASE Add
    BY <1>1, <1>2 DEF Add
<1>3. CASE TimerFires \/ ReadDrains
    BY <1>1, <1>3 DEF TimerFires, ReadDrains
<1>4. ASSUME NEW p \in Flushes, NEW w \in Flushes, WakeTaking(p, w) PROVE overtaken' \subseteq Flushes
    BY <1>4 DEF WakeTaking
<1>5. ASSUME NEW p \in Flushes, WakeDone(p) \/ \E o \in Tenants : WriteTenant(p, o) PROVE overtaken' \subseteq Flushes
    BY <1>5 DEF WriteTenant, WakeDone
<1> QED BY <1>2, <1>3, <1>4, <1>5 DEF AbNext, abVars

\* The buffer, its calls and what they settled keep their types.
THEOREM BufferTypeCorrect == AbSpec => []AbTypeOK
<1>1. AbInit => AbOvertaken
    BY DEF AbInit, AbOvertaken
<1>2. AbInv /\ AbDrain /\ AbOvertaken => AbTypeOK
    BY DEF AbOvertaken, AbInv, AbTypes, AbDrain, AbTypeOK, FlushRow
<1> QED BY <1>1, <1>2, AbOvertakenNext, AbInitInv, AbNextKeeps, AbDrainInit, AbDrainNext, PTL DEF AbSpec

-----------------------------------------------------------------------------
(* The buffer implements Outbox                                             *)

\* A row that was added is in the buffer, in one batch, or settled; only a batch
\* being written holds any.
AbOnce ==
    /\ buffer \subseteq 1 .. added /\ buffer \intersect settled = {}
    /\ \A p \in Flushes :
          /\ flush[p].batch \subseteq 1 .. added
          /\ flush[p].batch \intersect buffer = {} /\ flush[p].batch \intersect settled = {}
          /\ flush[p].batch # {} => flush[p].pc = "writing"
    /\ \A p, q \in Flushes : p # q => flush[p].batch \intersect flush[q].batch = {}
    /\ settled \subseteq 1 .. added

LEMMA AbOnceInit == AbInit => AbOnce
BY DEF AbInit, AbOnce

\* The batches after one call has taken `rows`.
LEMMA BatchTaken ==
    ASSUME NEW p \in Flushes, flush[p].batch = {}, NEW rows,
           flush'[p].batch = rows, \A q \in Flushes \ {p} : flush'[q].batch = flush[q].batch
    PROVE  BeingWritten' = BeingWritten \union rows
BY DEF BeingWritten

LEMMA BatchesRest ==
    ASSUME \A q \in Flushes : flush'[q].batch = flush[q].batch
    PROVE  BeingWritten' = BeingWritten
BY DEF BeingWritten

\* flush() accepts the row that came with the call, or takes it with all that waits.
LEMMA FlushOnce ==
    ASSUME AbInv, AbInv', AbOnce, NEW p \in Flushes, NEW timer, NEW S \in SUBSET (AbRows \ 1 .. added),
           NEW n, Flush(p, buffer \union S, n, timer), S \subseteq 1 .. added', added <= added', settled' = settled
    PROVE  /\ AbOnce'
           /\ \/ buffer' = buffer \union S /\ BeingWritten' = BeingWritten
              \/ buffer' = {} /\ BeingWritten' = BeingWritten \union buffer \union S
<1> DEFINE rows == buffer \union S
<1>0. flush[p].pc = "idle" /\ flush[p].batch = {} /\ flush[p] \in FlushRow
    BY DEF Flush, AbAt, AbOnce, AbInv, AbTypes
<1>1. \A x \in 1 .. added : x \in 1 .. added'
    BY DEF AbInv, AbTypes
<1>2. /\ rows \intersect settled = {} /\ rows \subseteq 1 .. added'
      /\ \A q \in Flushes : flush[q].batch \intersect rows = {}
    BY <1>1 DEF AbOnce
<1> HIDE DEF rows
<1>3. ASSUME NEW r, flush' = [flush EXCEPT ![p] = r]
      PROVE  flush'[p] = r /\ \A q \in Flushes \ {p} : flush'[q] = flush[q]
    BY <1>3 DEF AbInv, AbTypes
<1>4. CASE FlushTake(p, rows, n)
    <2> DEFINE r == [flush[p] EXCEPT !.pc = "writing", !.batch = rows, !.before = n]
    <2>1. flush' = [flush EXCEPT ![p] = r] /\ buffer' = {}
        BY <1>4 DEF FlushTake
    <2>2. r.batch = rows /\ r.pc = "writing"
        BY <1>0 DEF FlushRow
    <2> HIDE DEF r
    <2>3. flush'[p].batch = rows /\ flush'[p].pc = "writing" /\ \A q \in Flushes \ {p} : flush'[q] = flush[q]
        BY <1>3, <2>1, <2>2
    <2>4. \A q \in Flushes : /\ flush'[q].batch \subseteq 1 .. added'
                             /\ flush'[q].batch \intersect settled = {}
                             /\ flush'[q].batch # {} => flush'[q].pc = "writing"
        BY <1>1, <1>2, <2>3 DEF AbOnce
    <2>5. \A q, o \in Flushes : q # o => flush'[q].batch \intersect flush'[o].batch = {}
        BY <1>2, <2>3 DEF AbOnce
    <2>6. settled \subseteq 1 .. added'
        BY <1>1 DEF AbOnce
    <2>7. AbOnce'
        <3>1. buffer' = {} /\ settled' = settled
            BY <2>1
        <3>2. \A q \in Flushes : flush'[q].batch \intersect buffer' = {}
            BY <3>1
        <3> QED BY <2>4, <2>5, <2>6, <3>1, <3>2 DEF AbOnce
    <2>8. BeingWritten' = BeingWritten \union rows
        BY <1>0, <2>3, BatchTaken
    <2> QED BY <2>1, <2>7, <2>8 DEF rows
<1>5. CASE FlushWait(p, rows, n, timer) \/ FlushNothing(p, rows, n)
    <2>1. PICK r : flush' = [flush EXCEPT ![p] = r] /\ r.batch = flush[p].batch /\ buffer' = rows
        <3>1. CASE FlushWait(p, rows, n, timer)
            BY <1>0, <3>1 DEF FlushWait, FlushRow
        <3>2. CASE FlushNothing(p, rows, n)
            BY <1>0, <3>2 DEF FlushNothing, FlushRow
        <3> QED BY <1>5, <3>1, <3>2
    <2>2. \A q \in Flushes : flush'[q].batch = flush[q].batch /\ (flush[q].batch # {} => flush'[q].pc = flush[q].pc)
        BY <1>0, <1>3, <2>1
    <2>3. AbOnce'
        BY <1>1, <1>2, <2>1, <2>2 DEF AbOnce
    <2> QED BY <2>1, <2>2, <2>3, BatchesRest DEF rows
<1> QED BY <1>4, <1>5 DEF Flush, rows

\* A tenant's rows are settled by the one that has them.
LEMMA WriteOnce ==
    ASSUME AbInv, AbOnce, NEW p \in Flushes, NEW o \in Tenants, WriteTenant(p, o)
    PROVE  AbOnce' /\ Box!Next
<1> DEFINE part == {r \in flush[p].batch : TenantOf[r] = o}
           rest == flush[p].batch \ part
           row  == [flush[p] EXCEPT !.batch = rest, !.pc = IF rest = {} THEN "ended" ELSE "writing"]
<1>1. /\ flush' = [flush EXCEPT ![p] = row] /\ settled' = settled \union part
      /\ UNCHANGED <<added, buffer>>
    BY DEF WriteTenant
<1>2. row.batch = rest /\ (rest # {} => row.pc = "writing")
    BY DEF AbInv, AbTypes, FlushRow
<1>3. part \subseteq flush[p].batch /\ rest = flush[p].batch \ part
    OBVIOUS
<1>4. part \in SUBSET {r \in BeingWritten : TenantOf[r] = o}
    BY DEF BeingWritten
<1> HIDE DEF part, rest, row
<1>5. /\ flush'[p].batch = rest /\ (rest # {} => flush'[p].pc = "writing")
      /\ \A q \in Flushes \ {p} : flush'[q] = flush[q]
    BY <1>1, <1>2 DEF AbInv, AbTypes
<1>6. \A q \in Flushes \ {p} : flush[q].batch \intersect part = {}
    BY <1>3 DEF AbOnce
<1>7. BeingWritten' = BeingWritten \ part
    <2>1. \A x : x \in BeingWritten' => x \in BeingWritten /\ x \notin part
        BY <1>3, <1>5, <1>6 DEF BeingWritten
    <2>2. \A x : x \in BeingWritten /\ x \notin part => x \in BeingWritten'
        BY <1>3, <1>5 DEF BeingWritten
    <2> QED BY <2>1, <2>2
<1>8. \A q \in Flushes : /\ flush'[q].batch \subseteq flush[q].batch
                         /\ flush'[q].batch \intersect part = {}
                         /\ flush'[q].batch # {} => flush'[q].pc = "writing"
    BY <1>3, <1>5, <1>6 DEF AbOnce
<1>9. part \subseteq 1 .. added /\ part \intersect buffer = {}
    BY <1>3 DEF AbOnce
<1>10. AbOnce'
    <2>1. \A q \in Flushes : /\ flush'[q].batch \subseteq 1 .. added /\ flush'[q].batch \intersect buffer = {}
                             /\ flush'[q].batch \intersect (settled \union part) = {}
        BY <1>8 DEF AbOnce
    <2>2. \A q, w \in Flushes : q # w => flush'[q].batch \intersect flush'[w].batch = {}
        BY <1>8 DEF AbOnce
    <2>3. buffer \subseteq 1 .. added /\ buffer \intersect (settled \union part) = {} /\ settled \union part \subseteq 1 .. added
        BY <1>9 DEF AbOnce
    <2> QED BY <1>1, <1>8, <2>1, <2>2, <2>3 DEF AbOnce
<1>11. Box!Settle(part)
    BY <1>1, <1>7 DEF Box!Settle
<1> QED BY <1>4, <1>10, <1>11 DEF Box!Next

\* The first of those who waited takes what came in meanwhile.
LEMMA WakeTakingOnce ==
    ASSUME AbInv, AbOnce, NEW p \in Flushes, NEW w \in Flushes, WakeTaking(p, w)
    PROVE  AbOnce' /\ Box!Next
<1>1. /\ flush[w].pc = "waiting" /\ flush[w].batch = {} /\ flush[p].pc = "ended" /\ flush[p].batch = {}
      /\ buffer' = {} /\ UNCHANGED <<added, settled>>
    BY DEF WakeTaking, AbAt, WaitingOn, AbOnce
<1>2. flush'[w].batch = buffer /\ flush'[w].pc = "writing"
    BY DEF WakeTaking, AbInv, AbTypes, FlushRow
<1>3. \A q \in Flushes \ {w} : flush'[q].batch = flush[q].batch /\ (flush[q].pc = "writing" => flush'[q].pc = "writing")
    BY <1>1 DEF WakeTaking, AbInv, AbTypes, FlushRow, WaitingOn, AbAt
<1>4. BeingWritten' = BeingWritten \union buffer
    BY <1>1, <1>2, <1>3, BatchTaken
<1>5. AbOnce'
    <2>1. \A q \in Flushes : /\ flush'[q].batch \subseteq 1 .. added
                             /\ flush'[q].batch \intersect settled = {}
                             /\ flush'[q].batch # {} => flush'[q].pc = "writing"
        BY <1>2, <1>3 DEF AbOnce
    <2>2. \A q, o \in Flushes : q # o => flush'[q].batch \intersect flush'[o].batch = {}
        BY <1>2, <1>3 DEF AbOnce
    <2> QED BY <1>1, <2>1, <2>2 DEF AbOnce
<1>6. Box!Take({})
    BY <1>1, <1>4 DEF Box!Take
<1> QED BY <1>5, <1>6 DEF Box!Next

\* Those who find nothing return.
LEMMA WakeDoneOnce ==
    ASSUME AbInv, AbOnce, NEW p \in Flushes, WakeDone(p)
    PROVE  AbOnce' /\ UNCHANGED Box!vars
<1>1. flush[p].pc = "ended" /\ UNCHANGED <<added, buffer, settled>>
    BY DEF WakeDone, AbAt
<1>2. \A q \in Flushes : flush'[q].batch = flush[q].batch /\ (flush[q].pc = "writing" => flush'[q].pc = "writing")
    BY <1>1 DEF WakeDone, AbInv, AbTypes, FlushRow, WaitingOn, AbAt
<1>3. AbOnce'
    BY <1>1, <1>2 DEF AbOnce
<1> QED BY <1>1, <1>2, <1>3, BatchesRest DEF Box!vars

LEMMA OnceStep == AbInv /\ AbInv' /\ AbOnce /\ [AbNext]_abVars => AbOnce' /\ [Box!Next]_(Box!vars)
<1> SUFFICES ASSUME AbInv, AbInv', AbOnce, [AbNext]_abVars PROVE AbOnce' /\ [Box!Next]_(Box!vars)
    OBVIOUS
<1>1. CASE Add
    <2> DEFINE r == added + 1
    <2>1. /\ added' = r /\ r \in AbRows \ 1 .. added /\ r \in 1 .. added' /\ added <= added' /\ settled' = settled
          /\ \A x \in 1 .. added : x \in 1 .. added'
        BY <1>1, AppendBufferAssumption DEF Add, AbInv, AbTypes, AbRows
    <2> HIDE DEF r
    <2>2. r \in Box!New
        BY <2>1 DEF Box!New, AbOnce, BeingWritten
    <2>3. CASE \E p \in Flushes : Flush(p, buffer \union {r}, r, armed)
        <3>1. PICK p \in Flushes : Flush(p, buffer \union {r}, r, armed)
            BY <2>3
        <3>2. /\ AbOnce'
              /\ \/ buffer' = buffer \union {r} /\ BeingWritten' = BeingWritten
                 \/ buffer' = {} /\ BeingWritten' = BeingWritten \union buffer \union {r}
            BY <2>1, <3>1, FlushOnce
        <3>3. Box!Accept(r) \/ Box!Take({r})
            BY <2>1, <3>2 DEF Box!Accept, Box!Take
        <3> QED BY <2>2, <3>2, <3>3 DEF Box!Next
    <2>4. CASE buffer' = buffer \union {r} /\ UNCHANGED flush
        <3>1. AbOnce'
            BY <2>1, <2>2, <2>4 DEF AbOnce, Box!New, BeingWritten
        <3>2. BeingWritten' = BeingWritten
            BY <2>4 DEF BeingWritten
        <3>3. Box!Accept(r)
            BY <2>1, <2>4, <3>2 DEF Box!Accept
        <3> QED BY <2>2, <3>1, <3>3 DEF Box!Next
    <2> QED BY <1>1, <2>3, <2>4 DEF Add, r
<1>2. CASE TimerFires \/ ReadDrains
    <2>1. PICK p \in Flushes : Flush(p, buffer, added, FALSE) \/ Flush(p, buffer, added, armed)
        BY <1>2 DEF TimerFires, ReadDrains
    <2>2. UNCHANGED <<added, settled>> /\ added <= added'
        <3>1. UNCHANGED <<added, settled>>
            BY <1>2 DEF TimerFires, ReadDrains
        <3>2. added <= added
            BY AppendBufferAssumption DEF AbInv, AbTypes
        <3> QED BY <3>1, <3>2
    <2>3. /\ {} \in SUBSET (AbRows \ 1 .. added) /\ {} \subseteq 1 .. added' /\ buffer = buffer \union {}
          /\ \/ Flush(p, buffer \union {}, added, FALSE)
             \/ Flush(p, buffer \union {}, added, armed)
        <3>1. buffer = buffer \union {}
            OBVIOUS
        <3> QED BY <2>1, <3>1
    <2>4. /\ AbOnce'
          /\ \/ buffer' = buffer \union {} /\ BeingWritten' = BeingWritten
             \/ buffer' = {} /\ BeingWritten' = BeingWritten \union buffer \union {}
        BY <2>2, <2>3, FlushOnce
    <2>5. UNCHANGED Box!vars \/ Box!Take({})
        BY <2>2, <2>4 DEF Box!vars, Box!Take
    <2> QED BY <2>4, <2>5 DEF Box!Next
<1>3. ASSUME NEW p \in Flushes, NEW o \in Tenants, WriteTenant(p, o) PROVE AbOnce' /\ Box!Next
    BY <1>3, WriteOnce
<1>4. ASSUME NEW p \in Flushes, NEW w \in Flushes, WakeTaking(p, w) PROVE AbOnce' /\ Box!Next
    BY <1>4, WakeTakingOnce
<1>5. ASSUME NEW p \in Flushes, WakeDone(p) PROVE AbOnce' /\ UNCHANGED Box!vars
    BY <1>5, WakeDoneOnce
<1>6. CASE UNCHANGED abVars
    BY <1>6 DEF abVars, AbOnce, Box!vars, BeingWritten
<1> QED BY <1>1, <1>2, <1>3, <1>4, <1>5, <1>6 DEF AbNext

\* However calls of flush() overlap, the buffer does what Outbox promises: each
\* row is taken by one writer and settled once.
THEOREM BufferImplementsOutbox == AbSpec => RowsWrittenOnce
<1>1. AbInit => Box!Init
    BY DEF AbInit, Box!Init, BeingWritten
<1> QED BY <1>1, AbInitInv, AbNextKeeps, AbOnceInit, OnceStep, PTL DEF AbSpec, RowsWrittenOnce, Box!Spec

-----------------------------------------------------------------------------
(* The provider manager.                                                   *)

HealthRows == [connected : BOOLEAN, cooling : BOOLEAN]
CmplRows == [pc : PmSteps, prov : Provs, attempt : 1 .. MAX_ATTEMPTS,
             seen : Nat, failover : BOOLEAN, over : BOOLEAN]

\* The histories, which PmTypeOK leaves out.
HistoryOK ==
    /\ failures \in [Provs -> Nat] /\ admitted \in [Provs -> Nat]
    /\ unlimited \in BOOLEAN
    /\ tried \in [Completions -> [Provs -> Nat]]

PmTypes == PmTypeOK /\ HistoryOK

-----------------------------------------------------------------------------
(* Types                                                                    *)

LEMMA PmTypesInit == PmInit => PmTypes
<1> SUFFICES ASSUME PmInit PROVE PmTypes OBVIOUS
<1>1. (CHOOSE p \in Provs : TRUE) \in Provs BY ProvidersAssumption
<1>2. 1 \in 1 .. MAX_ATTEMPTS BY ProvidersAssumption
<1>3. cmpl \in [Completions -> CmplRows] BY <1>1, <1>2 DEF PmInit, CmplRows, PmSteps
<1> QED BY <1>3 DEF PmInit, PmTypes, PmTypeOK, HistoryOK, CmplRows

\* The row of a completion, and its provider.
LEMMA RowTypes ==
    ASSUME PmTypes, NEW c \in Completions
    PROVE  cmpl[c] \in CmplRows /\ ProvOf(c) \in Provs /\ cmpl[c].seen \in Nat
<1>1. cmpl[c] \in CmplRows BY DEF PmTypes, PmTypeOK, CmplRows
<1> QED BY <1>1 DEF CmplRows, ProvOf

\* A completion writes its row; the others keep theirs.
LEMMA SetRow ==
    ASSUME PmTypes, NEW c \in Completions, NEW r \in CmplRows, PmSet(c, r)
    PROVE  /\ cmpl' \in [Completions -> CmplRows]
           /\ cmpl'[c] = r
           /\ \A d \in Completions \ {c} : cmpl'[d] = cmpl[d]
BY DEF PmTypes, PmTypeOK, PmSet, CmplRows

\* A completion only goes on.
LEMMA GoRow ==
    ASSUME PmTypes, NEW c \in Completions, NEW step \in PmSteps, PmGo(c, step)
    PROVE  /\ cmpl' \in [Completions -> CmplRows]
           /\ cmpl'[c] = [cmpl[c] EXCEPT !.pc = step]
           /\ cmpl'[c].pc = step
           /\ cmpl'[c].prov = cmpl[c].prov /\ cmpl'[c].attempt = cmpl[c].attempt
           /\ cmpl'[c].seen = cmpl[c].seen /\ cmpl'[c].over = cmpl[c].over
           /\ \A d \in Completions \ {c} : cmpl'[d] = cmpl[d]
<1>1. cmpl[c] \in CmplRows BY RowTypes
<1>2. PICK r : r = [cmpl[c] EXCEPT !.pc = step] OBVIOUS
<1>3. r \in CmplRows BY <1>1, <1>2 DEF CmplRows
<1>4. /\ r.pc = step /\ r.prov = cmpl[c].prov /\ r.attempt = cmpl[c].attempt
      /\ r.seen = cmpl[c].seen /\ r.over = cmpl[c].over
    BY <1>1, <1>2 DEF CmplRows
<1>5. PmSet(c, r) BY <1>2 DEF PmGo
<1> QED BY <1>2, <1>3, <1>4, <1>5, SetRow

\* What each step of a completion writes into its row: the step it goes to, the
\* provider and the figures it keeps or changes.
PmMoves(c, before, after) ==
    /\ cmpl[c].pc = before /\ cmpl'[c].pc = after
    /\ cmpl' \in [Completions -> CmplRows]
    /\ \A d \in Completions \ {c} : cmpl'[d] = cmpl[d]

KeepsProvider(c) == cmpl'[c].prov = cmpl[c].prov /\ cmpl'[c].over = cmpl[c].over
KeepsAttempt(c) == KeepsProvider(c) /\ cmpl'[c].attempt = cmpl[c].attempt

LEMMA SelectRow ==
    ASSUME PmTypes, NEW c \in Completions, Select(c)
    PROVE  /\ PmMoves(c, "idle", "limit") \/ PmMoves(c, "idle", "thrown")
           /\ cmpl'[c].attempt = cmpl[c].attempt /\ cmpl'[c].over = cmpl[c].over
<1>1. PICK f \in BOOLEAN, p \in Provs :
          PmSet(c, [cmpl[c] EXCEPT !.failover = f, !.prov = p,
                       !.pc = IF health[p].cooling THEN "thrown" ELSE "limit"])
    BY DEF Select
<1>2. PICK step \in {"limit", "thrown"} : step = IF health[p].cooling THEN "thrown" ELSE "limit"
    OBVIOUS
<1>3. PICK r : r = [cmpl[c] EXCEPT !.failover = f, !.prov = p, !.pc = step] OBVIOUS
<1>4. cmpl[c] \in CmplRows BY RowTypes
<1>5. r \in CmplRows /\ r.pc = step /\ r.attempt = cmpl[c].attempt /\ r.over = cmpl[c].over
    BY <1>3, <1>4 DEF CmplRows, PmSteps
<1>6. PmSet(c, r) BY <1>1, <1>2, <1>3
<1> QED BY <1>5, <1>6, SetRow DEF Select, PmAt, PmMoves

LEMMA FailoverRow ==
    ASSUME PmTypes, NEW c \in Completions, Failover(c)
    PROVE  \/ PmMoves(c, "failed", "thrown") /\ KeepsAttempt(c)
           \/ /\ PmMoves(c, "failed", "limit")
              /\ ~cmpl[c].over /\ cmpl'[c].over /\ cmpl'[c].attempt = 1
              /\ cmpl'[c].prov # cmpl[c].prov
<1>1. CASE PmGo(c, "thrown") BY <1>1, GoRow DEF Failover, PmAt, PmMoves, KeepsAttempt, KeepsProvider, PmSteps
<1>2. ASSUME ~cmpl[c].over, NEW p \in Alternates(c),
             PmSet(c, [cmpl[c] EXCEPT !.pc = "limit", !.prov = p, !.attempt = 1, !.over = TRUE])
      PROVE  /\ PmMoves(c, "failed", "limit")
             /\ ~cmpl[c].over /\ cmpl'[c].over /\ cmpl'[c].attempt = 1
             /\ cmpl'[c].prov # cmpl[c].prov
  <2>1. PICK r : r = [cmpl[c] EXCEPT !.pc = "limit", !.prov = p, !.attempt = 1, !.over = TRUE] OBVIOUS
  <2>2. cmpl[c] \in CmplRows BY RowTypes
  <2>3. p \in Provs /\ p # cmpl[c].prov BY DEF Alternates, ProvOf
  <2>4. 1 \in 1 .. MAX_ATTEMPTS BY ProvidersAssumption
  <2>5. r \in CmplRows /\ r.pc = "limit" /\ r.prov = p /\ r.attempt = 1 /\ r.over
      BY <2>1, <2>2, <2>3, <2>4 DEF CmplRows, PmSteps
  <2>6. PmSet(c, r) BY <1>2, <2>1
  <2> QED BY <1>2, <2>3, <2>5, <2>6, SetRow DEF Failover, PmAt, PmMoves
<1> QED BY <1>1, <1>2 DEF Failover

LEMMA LimitReadRow ==
    ASSUME PmTypes, NEW c \in Completions, LimitRead(c)
    PROVE  /\ KeepsAttempt(c)
           /\ \/ PmMoves(c, "limit", "send") /\ unlimited' /\ admitted' = [admitted EXCEPT ![ProvOf(c)] = @ + 1]
              \/ /\ PmMoves(c, "limit", "limited") /\ cmpl'[c].seen = used[ProvOf(c)]
                 /\ unlimited' = (unlimited \/ \E d \in Completions \ {c} : PmAt(d, "limited"))
                 /\ UNCHANGED admitted
<1>1. CASE PmGo(c, "send") /\ unlimited' = TRUE /\ Admit(ProvOf(c))
    BY <1>1, GoRow DEF LimitRead, PmAt, PmMoves, KeepsAttempt, KeepsProvider, PmSteps, Admit
<1>2. CASE /\ PmSet(c, [cmpl[c] EXCEPT !.seen = used[ProvOf(c)], !.pc = "limited"])
           /\ unlimited' = (unlimited \/ \E d \in Completions \ {c} : PmAt(d, "limited"))
           /\ UNCHANGED admitted
  <2>1. PICK r : r = [cmpl[c] EXCEPT !.seen = used[ProvOf(c)], !.pc = "limited"] OBVIOUS
  <2>2. cmpl[c] \in CmplRows /\ used[ProvOf(c)] \in Nat BY RowTypes DEF PmTypes, PmTypeOK
  <2>3. /\ r \in CmplRows /\ r.pc = "limited" /\ r.seen = used[ProvOf(c)]
        /\ r.prov = cmpl[c].prov /\ r.attempt = cmpl[c].attempt /\ r.over = cmpl[c].over
      BY <2>1, <2>2 DEF CmplRows, PmSteps
  <2>4. PmSet(c, r) BY <1>2, <2>1
  <2>5. PmMoves(c, "limit", "limited") BY <2>3, <2>4, SetRow DEF LimitRead, PmAt, PmMoves
  <2>6. cmpl'[c] = r BY <2>3, <2>4, SetRow
  <2> QED BY <1>2, <2>3, <2>5, <2>6 DEF KeepsAttempt, KeepsProvider
<1> QED BY <1>1, <1>2 DEF LimitRead

LEMMA LimitWriteRow ==
    ASSUME PmTypes, NEW c \in Completions, LimitWrite(c)
    PROVE  /\ KeepsAttempt(c)
           /\ \/ PmMoves(c, "limited", "send")
              \/ PmMoves(c, "limited", "failed") /\ UNCHANGED <<used, unlimited, admitted>>
BY GoRow DEF LimitWrite, PmAt, PmMoves, KeepsAttempt, KeepsProvider, PmSteps

LEMMA LimitLateRow ==
    ASSUME PmTypes, NEW c \in Completions, LimitLate(c)
    PROVE  KeepsAttempt(c) /\ (PmMoves(c, "limitedBefore", "send") \/ PmMoves(c, "limitedBefore", "failed"))
<1>1. PmGo(c, "send") \/ PmGo(c, "failed") BY DEF LimitLate
<1> QED BY <1>1, GoRow DEF LimitLate, PmAt, PmMoves, KeepsAttempt, KeepsProvider, PmSteps

LEMMA SendRow ==
    ASSUME PmTypes, NEW c \in Completions, Send(c)
    PROVE  /\ KeepsProvider(c)
           /\ \/ (PmMoves(c, "send", "success") \/ PmMoves(c, "send", "failure")) /\ cmpl'[c].attempt = cmpl[c].attempt
              \/ PmMoves(c, "send", "limit") /\ cmpl'[c].attempt = cmpl[c].attempt + 1
<1>1. CASE PmGo(c, "success") \/ PmGo(c, "failure")
    BY <1>1, GoRow DEF Send, PmAt, PmMoves, KeepsProvider, PmSteps
<1>2. CASE /\ ~LastAttempt(cmpl[c].attempt)
           /\ PmSet(c, [cmpl[c] EXCEPT !.pc = "limit", !.attempt = @ + 1])
  <2>1. PICK r : r = [cmpl[c] EXCEPT !.pc = "limit", !.attempt = @ + 1] OBVIOUS
  <2>2. cmpl[c] \in CmplRows BY RowTypes
  <2>3. cmpl[c].attempt + 1 \in 1 .. MAX_ATTEMPTS
      BY <1>2, <2>2, ProvidersAssumption DEF LastAttempt, CmplRows
  <2>4. /\ r \in CmplRows /\ r.pc = "limit" /\ r.attempt = cmpl[c].attempt + 1
        /\ r.prov = cmpl[c].prov /\ r.over = cmpl[c].over
      BY <2>1, <2>2, <2>3 DEF CmplRows, PmSteps
  <2>5. PmSet(c, r) BY <1>2, <2>1
  <2>6. PmMoves(c, "send", "limit") /\ cmpl'[c] = r BY <2>4, <2>5, SetRow DEF Send, PmAt, PmMoves
  <2> QED BY <2>4, <2>6 DEF KeepsProvider
<1> QED BY <1>1, <1>2 DEF Send

LEMMA RecordRows ==
    ASSUME PmTypes, NEW c \in Completions
    PROVE  /\ RecordSuccess(c) =>
                  KeepsAttempt(c) /\ (PmMoves(c, "success", "returned") \/ PmMoves(c, "success", "failure"))
           /\ FailureCount(c) =>
                  /\ KeepsAttempt(c) /\ PmMoves(c, "counted", "recorded")
                  /\ cmpl'[c].seen = cmpl[c].seen
           /\ FailureWrite(c) => KeepsAttempt(c) /\ PmMoves(c, "recorded", "failed")
BY GoRow DEF RecordSuccess, FailureCount, FailureWrite, PmAt, PmMoves, KeepsAttempt, KeepsProvider, PmSteps

LEMMA FailureReadRow ==
    ASSUME PmTypes, NEW c \in Completions, FailureRead(c)
    PROVE  /\ KeepsAttempt(c) /\ PmMoves(c, "failure", "counted")
           /\ cmpl'[c].seen <= streak[ProvOf(c)]
<1>1. PICK n : n = IF redisUp THEN streak[ProvOf(c)] ELSE 0 OBVIOUS
<1>2. PICK r : r = [cmpl[c] EXCEPT !.seen = n, !.pc = "counted"] OBVIOUS
<1>3. cmpl[c] \in CmplRows /\ streak[ProvOf(c)] \in Nat BY RowTypes DEF PmTypes, PmTypeOK
<1>4. n \in Nat /\ n <= streak[ProvOf(c)] BY <1>1, <1>3
<1>5. /\ r \in CmplRows /\ r.pc = "counted" /\ r.seen = n
      /\ r.prov = cmpl[c].prov /\ r.attempt = cmpl[c].attempt /\ r.over = cmpl[c].over
    BY <1>2, <1>3, <1>4 DEF CmplRows, PmSteps
<1>6. PmSet(c, r) BY <1>1, <1>2 DEF FailureRead
<1>7. PmMoves(c, "failure", "counted") /\ cmpl'[c] = r BY <1>5, <1>6, SetRow DEF FailureRead, PmAt, PmMoves
<1> QED BY <1>4, <1>5, <1>7 DEF KeepsAttempt, KeepsProvider

\* The types hold after every step.
LEMMA PmTypesStep == PmTypes /\ [PmNext]_pmVars => PmTypes'
<1> SUFFICES ASSUME PmTypes, [PmNext]_pmVars PROVE PmTypes' OBVIOUS
<1>1. ASSUME NEW c \in Completions, CompletionStep(c) PROVE PmTypes'
  <2>1. cmpl' \in [Completions -> CmplRows]
      BY <1>1, SelectRow, FailoverRow, LimitReadRow, LimitWriteRow, LimitLateRow, SendRow,
         RecordRows, FailureReadRow DEF CompletionStep, PmMoves
  <2>2. ProvOf(c) \in Provs /\ cmpl[c].seen \in Nat BY RowTypes
  <2>3. health' \in [Provs -> HealthRows]
    <3>1. health \in [Provs -> HealthRows] BY DEF PmTypes, PmTypeOK, HealthRows
    <3>2. CASE RecordSuccess(c)
      <4>1. PICK r : r = [connected |-> TRUE, cooling |-> FALSE] OBVIOUS
      <4>2. r \in HealthRows BY <4>1 DEF HealthRows
      <4>3. health' = [health EXCEPT ![ProvOf(c)] = r] \/ health' = health
          BY <3>2, <4>1 DEF RecordSuccess
      <4> QED BY <3>1, <4>2, <4>3
    <3>3. CASE FailureWrite(c)
      <4>1. PICK b \in BOOLEAN : b = (health[ProvOf(c)].cooling \/ Cools(cmpl[c].seen + 1)) OBVIOUS
      <4>2. PICK r : r = [health[ProvOf(c)] EXCEPT !.connected = FALSE, !.cooling = b] OBVIOUS
      <4>3. r \in HealthRows BY <2>2, <3>1, <4>1, <4>2 DEF HealthRows
      <4>4. health' = [health EXCEPT ![ProvOf(c)] = r] BY <3>3, <4>1, <4>2 DEF FailureWrite
      <4> QED BY <3>1, <4>3, <4>4
    <3>4. CASE UNCHANGED health BY <3>1, <3>4
    <3> QED BY <1>1, <3>2, <3>3, <3>4
            DEF CompletionStep, Select, Failover, LimitRead, LimitWrite, LimitLate, Send, FailureRead, FailureCount
  <2>4. streak' \in [Provs -> Nat]
    <3>1. CASE FailureCount(c) BY <2>2, <3>1 DEF FailureCount, PmTypes, PmTypeOK
    <3>2. CASE UNCHANGED streak BY <3>2 DEF PmTypes, PmTypeOK
    <3> QED BY <1>1, <3>1, <3>2
            DEF CompletionStep, Select, Failover, LimitRead, LimitWrite, LimitLate, Send, RecordSuccess, FailureRead, FailureWrite
  <2>5. used' \in [Provs -> Nat]
    <3>1. CASE LimitWrite(c) BY <2>2, <3>1 DEF LimitWrite, PmTypes, PmTypeOK
    <3>2. CASE UNCHANGED used BY <3>2 DEF PmTypes, PmTypeOK
    <3> QED BY <1>1, <3>1, <3>2
            DEF CompletionStep, Select, Failover, LimitRead, LimitLate, Send, RecordSuccess, FailureRead, FailureCount, FailureWrite
  <2>6. redisUp' \in BOOLEAN
      BY <1>1 DEF PmTypes, PmTypeOK, CompletionStep, Select, Failover, LimitRead, LimitWrite, LimitLate, Send,
                  RecordSuccess, FailureRead, FailureCount, FailureWrite
  <2>7. failures' \in [Provs -> Nat]
    <3>1. CASE FailureRead(c) BY <2>2, <3>1 DEF FailureRead, PmTypes, HistoryOK
    <3>2. CASE UNCHANGED failures BY <3>2 DEF PmTypes, HistoryOK
    <3> QED BY <1>1, <3>1, <3>2
            DEF CompletionStep, Select, Failover, LimitRead, LimitWrite, LimitLate, Send, RecordSuccess, FailureCount,
                FailureWrite, pmHistory
  <2>8. admitted' \in [Provs -> Nat] /\ unlimited' \in BOOLEAN
    <3>1. CASE LimitRead(c)
      <4>1. unlimited' \in BOOLEAN BY <3>1, Zenon DEF LimitRead
      <4>2. admitted' = admitted \/ Admit(ProvOf(c)) BY <3>1, Zenon DEF LimitRead
      <4> QED BY <2>2, <4>1, <4>2 DEF Admit, PmTypes, HistoryOK
    <3>2. CASE LimitWrite(c)
      <4>1. unlimited' \in BOOLEAN BY <3>2, Zenon DEF LimitWrite, PmTypes, HistoryOK
      <4>2. admitted' = admitted \/ Admit(ProvOf(c)) BY <3>2, Zenon DEF LimitWrite
      <4> QED BY <2>2, <4>1, <4>2 DEF Admit, PmTypes, HistoryOK
    <3>3. CASE UNCHANGED <<admitted, unlimited>> BY <3>3 DEF PmTypes, HistoryOK
    <3> QED BY <1>1, <3>1, <3>2, <3>3
            DEF CompletionStep, Select, Failover, LimitLate, Send, RecordSuccess, FailureRead, FailureCount,
                FailureWrite, pmHistory
  <2>9. tried' \in [Completions -> [Provs -> Nat]]
    <3>1. CASE Send(c)
      <4>1. tried[c] \in [Provs -> Nat] BY DEF PmTypes, HistoryOK
      <4>2. [tried[c] EXCEPT ![ProvOf(c)] = @ + 1] \in [Provs -> Nat] BY <2>2, <4>1
      <4>3. tried' = [tried EXCEPT ![c] = [tried[c] EXCEPT ![ProvOf(c)] = @ + 1]] BY <3>1 DEF Send
      <4> QED BY <4>2, <4>3 DEF PmTypes, HistoryOK
    <3>2. CASE UNCHANGED tried BY <3>2 DEF PmTypes, HistoryOK
    <3> QED BY <1>1, <3>1, <3>2
            DEF CompletionStep, Select, Failover, LimitRead, LimitWrite, LimitLate, RecordSuccess, FailureRead,
                FailureCount, FailureWrite, pmHistory
  <2> QED BY <2>1, <2>3, <2>4, <2>5, <2>6, <2>7, <2>8, <2>9 DEF PmTypes, PmTypeOK, HistoryOK, CmplRows, HealthRows
<1>2. ASSUME NEW p \in Provs, CooldownEnds(p) \/ StreakEnds(p) PROVE PmTypes'
  <2>1. CASE CooldownEnds(p)
    <3>1. health \in [Provs -> HealthRows] BY DEF PmTypes, PmTypeOK, HealthRows
    <3>2. health' \in [Provs -> HealthRows] BY <2>1, <3>1 DEF CooldownEnds, HealthRows
    <3> QED BY <2>1, <3>2 DEF CooldownEnds, pmHistory, PmTypes, PmTypeOK, HistoryOK, HealthRows
  <2>2. CASE StreakEnds(p) BY <2>2 DEF StreakEnds, pmHistory, PmTypes, PmTypeOK, HistoryOK
  <2> QED BY <1>2, <2>1, <2>2
<1>3. CASE MinutePasses
  <2>1. \A c \in Completions : cmpl'[c] \in CmplRows
    <3> SUFFICES ASSUME NEW c \in Completions PROVE cmpl'[c] \in CmplRows OBVIOUS
    <3>1. cmpl[c] \in CmplRows BY RowTypes
    <3>2. PICK step : step = IF cmpl[c].pc = "limited" THEN "limitedBefore" ELSE cmpl[c].pc OBVIOUS
    <3>3. cmpl'[c] = [cmpl[c] EXCEPT !.pc = step] BY <1>3, <3>2 DEF MinutePasses
    <3>4. step \in PmSteps BY <3>1, <3>2 DEF CmplRows, PmSteps
    <3> QED BY <3>1, <3>3, <3>4 DEF CmplRows
  <2>2. cmpl' \in [Completions -> CmplRows] BY <1>3, <2>1 DEF MinutePasses
  <2> QED BY <1>3, <2>2 DEF MinutePasses, PmTypes, PmTypeOK, HistoryOK, CmplRows
<1>4. CASE RedisSwitches BY <1>4 DEF RedisSwitches, pmHistory, PmTypes, PmTypeOK, HistoryOK
<1>5. CASE UNCHANGED pmVars BY <1>5 DEF pmVars, PmTypes, PmTypeOK, HistoryOK
<1> QED BY <1>1, <1>2, <1>3, <1>4, <1>5 DEF PmNext

LEMMA PmTypesAlways == PmSpec => []PmTypes
BY PmTypesInit, PmTypesStep, PTL DEF PmSpec

\* The rows, the figures in Redis and the completions keep their types.
THEOREM ProvidersTypeCorrect == PmSpec => []PmTypeOK
BY PmTypesAlways, PTL DEF PmTypes

-----------------------------------------------------------------------------
(* The failure streak                                                       *)

\* The streak never exceeds the failures, nor does what a completion that is
\* about to write it has read.
StreakCounts == \A p \in Provs : streak[p] <= failures[p]
SeenCounts ==
    \A c \in Completions : cmpl[c].pc \in {"counted", "recorded"} => cmpl[c].seen < failures[ProvOf(c)]

StreakInv == StreakCounts /\ SeenCounts /\ BenchedAfterFailures

LEMMA StreakInvInit == PmInit => StreakInv
<1> SUFFICES ASSUME PmInit PROVE StreakInv OBVIOUS
<1>1. \A c \in Completions : cmpl[c].pc = "idle" BY DEF PmInit
<1>2. \A p \in Provs : ~health[p].cooling /\ streak[p] = 0 /\ failures[p] = 0 BY DEF PmInit
<1> QED BY <1>1, <1>2 DEF StreakInv, StreakCounts, SeenCounts, BenchedAfterFailures

\* A completion that goes on without touching the streak, the failures or a
\* cooldown, and not into the middle of recordFailure.
LEMMA StreakRests ==
    ASSUME PmTypes, StreakInv, NEW c \in Completions, NEW a, NEW b, b \notin {"counted", "recorded"},
           PmMoves(c, a, b), UNCHANGED <<streak, failures>>,
           \A p \in Provs : health'[p].cooling => health[p].cooling
    PROVE  StreakInv'
<1>1. SeenCounts' BY DEF StreakInv, SeenCounts, PmMoves, ProvOf
<1> QED BY <1>1 DEF StreakInv, StreakCounts, BenchedAfterFailures

LEMMA StreakRead == ASSUME PmTypes, StreakInv, NEW c \in Completions, FailureRead(c) PROVE StreakInv'
<1>1. /\ cmpl'[c].prov = cmpl[c].prov /\ cmpl'[c].seen <= streak[ProvOf(c)]
      /\ cmpl'[c] \in CmplRows
      /\ \A d \in Completions \ {c} : cmpl'[d] = cmpl[d]
    BY FailureReadRow DEF KeepsAttempt, KeepsProvider, PmMoves
<1>2. ProvOf(c) \in Provs BY RowTypes
<1>3. \A p \in Provs : /\ failures'[p] = IF p = ProvOf(c) THEN failures[p] + 1 ELSE failures[p]
                       /\ failures[p] \in Nat /\ streak[p] \in Nat
    BY DEF FailureRead, PmTypes, PmTypeOK, HistoryOK
<1>4. UNCHANGED <<health, streak>> BY DEF FailureRead
<1>5. StreakCounts' BY <1>3, <1>4 DEF StreakInv, StreakCounts
<1>6. SeenCounts'
  <2> SUFFICES ASSUME NEW d \in Completions, cmpl'[d].pc \in {"counted", "recorded"}
               PROVE  cmpl'[d].seen < failures'[cmpl'[d].prov]
      BY DEF SeenCounts, ProvOf
  <2>1. CASE d = c
    <3>1. cmpl'[c].seen \in Nat BY <1>1 DEF CmplRows
    <3>2. streak[ProvOf(c)] <= failures[ProvOf(c)] BY <1>2 DEF StreakInv, StreakCounts
    <3> QED BY <1>1, <1>2, <1>3, <2>1, <3>1, <3>2 DEF ProvOf
  <2>2. CASE d # c
    <3>1. cmpl[d].seen \in Nat /\ cmpl[d].prov \in Provs BY RowTypes DEF ProvOf
    <3>2. cmpl[d].seen < failures[cmpl[d].prov] BY <1>1, <2>2 DEF StreakInv, SeenCounts, ProvOf
    <3> QED BY <1>1, <1>3, <2>2, <3>1, <3>2
  <2> QED BY <2>1, <2>2
<1>7. BenchedAfterFailures'
    BY <1>3, <1>4, ProvidersAssumption DEF StreakInv, BenchedAfterFailures
<1> QED BY <1>5, <1>6, <1>7 DEF StreakInv

LEMMA StreakWritten == ASSUME PmTypes, StreakInv, NEW c \in Completions, FailureCount(c) PROVE StreakInv'
<1>1. /\ cmpl[c].pc = "counted"
      /\ cmpl'[c].prov = cmpl[c].prov /\ cmpl'[c].seen = cmpl[c].seen
      /\ \A d \in Completions \ {c} : cmpl'[d] = cmpl[d]
    BY RecordRows DEF KeepsAttempt, KeepsProvider, PmMoves
<1>2. UNCHANGED <<health, failures>> BY DEF FailureCount, pmHistory
<1>3. cmpl[c].seen < failures[ProvOf(c)] BY <1>1 DEF StreakInv, SeenCounts
<1>4. ProvOf(c) \in Provs /\ cmpl[c].seen \in Nat /\ failures[ProvOf(c)] \in Nat
    BY RowTypes DEF PmTypes, HistoryOK
<1>5. cmpl[c].seen + 1 <= failures[ProvOf(c)] BY <1>3, <1>4
<1>6. \A p \in Provs : streak'[p] = streak[p] \/ (p = ProvOf(c) /\ streak'[p] = cmpl[c].seen + 1)
    BY <1>4 DEF FailureCount, PmTypes, PmTypeOK
<1>7. StreakCounts' BY <1>2, <1>5, <1>6 DEF StreakInv, StreakCounts
<1>8. SeenCounts' BY <1>1, <1>2, <1>3 DEF StreakInv, SeenCounts, ProvOf
<1> QED BY <1>2, <1>7, <1>8 DEF StreakInv, BenchedAfterFailures

LEMMA StreakBenches == ASSUME PmTypes, StreakInv, NEW c \in Completions, FailureWrite(c) PROVE StreakInv'
<1>1. PmMoves(c, "recorded", "failed") BY RecordRows
<1>2. UNCHANGED <<streak, failures>> BY DEF FailureWrite, pmHistory
<1>3. cmpl[c].seen < failures[ProvOf(c)] BY <1>1 DEF PmMoves, StreakInv, SeenCounts
<1>4. ProvOf(c) \in Provs /\ cmpl[c].seen \in Nat /\ failures[ProvOf(c)] \in Nat
    BY RowTypes DEF PmTypes, HistoryOK
<1>5. Cools(cmpl[c].seen + 1) => failures[ProvOf(c)] >= FAILURES_BEFORE_COOLDOWN
    BY <1>3, <1>4, ProvidersAssumption DEF Cools
<1>6. \A p \in Provs : p # ProvOf(c) => health'[p] = health[p]
    BY DEF FailureWrite, PmTypes, PmTypeOK
<1>7. health'[ProvOf(c)].cooling = (health[ProvOf(c)].cooling \/ Cools(cmpl[c].seen + 1))
  <2>1. PICK b \in BOOLEAN : b = (health[ProvOf(c)].cooling \/ Cools(cmpl[c].seen + 1)) OBVIOUS
  <2>2. health[ProvOf(c)] \in HealthRows BY <1>4 DEF PmTypes, PmTypeOK, HealthRows
  <2>3. PICK r : r = [health[ProvOf(c)] EXCEPT !.connected = FALSE, !.cooling = b] OBVIOUS
  <2>4. r.cooling = b BY <2>2, <2>3 DEF HealthRows
  <2>5. health' = [health EXCEPT ![ProvOf(c)] = r] BY <2>1, <2>3 DEF FailureWrite
  <2>6. health'[ProvOf(c)] = r BY <1>4, <2>5 DEF PmTypes, PmTypeOK
  <2> QED BY <2>1, <2>4, <2>6
<1>8. BenchedAfterFailures' BY <1>2, <1>5, <1>6, <1>7 DEF StreakInv, BenchedAfterFailures
<1>9. SeenCounts' BY <1>1, <1>2 DEF StreakInv, SeenCounts, PmMoves, ProvOf
<1> QED BY <1>2, <1>8, <1>9 DEF StreakInv, StreakCounts

LEMMA StreakInvStep == PmTypes /\ StreakInv /\ [PmNext]_pmVars => StreakInv'
<1> SUFFICES ASSUME PmTypes, StreakInv, [PmNext]_pmVars PROVE StreakInv' OBVIOUS
<1>1. ASSUME NEW c \in Completions,
             \/ Select(c) \/ Failover(c) \/ LimitRead(c) \/ LimitWrite(c) \/ LimitLate(c) \/ Send(c)
             \/ RecordSuccess(c)
      PROVE  StreakInv'
  <2>1. PICK a, b : b \notin {"counted", "recorded"} /\ PmMoves(c, a, b)
      BY <1>1, SelectRow, FailoverRow, LimitReadRow, LimitWriteRow, LimitLateRow, SendRow, RecordRows
  <2>2. UNCHANGED <<streak, failures>>
      BY <1>1 DEF Select, Failover, LimitRead, LimitWrite, LimitLate, Send, RecordSuccess, pmHistory
  <2>3. \A p \in Provs : health'[p].cooling => health[p].cooling
    <3>1. CASE RecordSuccess(c)
      <4>1. PICK r : r = [connected |-> TRUE, cooling |-> FALSE] OBVIOUS
      <4>2. ~r.cooling BY <4>1
      <4>3. health' = [health EXCEPT ![ProvOf(c)] = r] \/ health' = health
          BY <3>1, <4>1 DEF RecordSuccess
      <4> QED BY <4>2, <4>3 DEF PmTypes, PmTypeOK
    <3>2. CASE UNCHANGED health BY <3>2
    <3> QED BY <1>1, <3>1, <3>2 DEF Select, Failover, LimitRead, LimitWrite, LimitLate, Send
  <2> QED BY <2>1, <2>2, <2>3, StreakRests
<1>2. ASSUME NEW p \in Provs, CooldownEnds(p) PROVE StreakInv'
  <2>1. \A q \in Provs : health'[q].cooling => health[q].cooling
      BY <1>2 DEF CooldownEnds, PmTypes, PmTypeOK
  <2>2. UNCHANGED <<streak, failures, cmpl>> BY <1>2 DEF CooldownEnds, pmHistory
  <2> QED BY <2>1, <2>2 DEF StreakInv, StreakCounts, SeenCounts, BenchedAfterFailures, ProvOf
<1>3. ASSUME NEW p \in Provs, StreakEnds(p) PROVE StreakInv'
  <2>1. \A q \in Provs : streak'[q] <= failures[q]
      BY <1>3 DEF StreakEnds, StreakInv, StreakCounts, PmTypes, PmTypeOK, HistoryOK
  <2>2. UNCHANGED <<health, failures, cmpl>> BY <1>3 DEF StreakEnds, pmHistory
  <2> QED BY <2>1, <2>2 DEF StreakInv, StreakCounts, SeenCounts, BenchedAfterFailures, ProvOf
<1>4. CASE MinutePasses
  <2>1. \A c \in Completions : /\ cmpl'[c].prov = cmpl[c].prov /\ cmpl'[c].seen = cmpl[c].seen
                               /\ cmpl'[c].pc \in {"counted", "recorded"} => cmpl[c].pc = cmpl'[c].pc
    <3> SUFFICES ASSUME NEW c \in Completions
                 PROVE  /\ cmpl'[c].prov = cmpl[c].prov /\ cmpl'[c].seen = cmpl[c].seen
                        /\ cmpl'[c].pc \in {"counted", "recorded"} => cmpl[c].pc = cmpl'[c].pc
        OBVIOUS
    <3>1. cmpl[c] \in CmplRows BY RowTypes
    <3>2. PICK step : step = IF cmpl[c].pc = "limited" THEN "limitedBefore" ELSE cmpl[c].pc OBVIOUS
    <3>3. cmpl'[c] = [cmpl[c] EXCEPT !.pc = step] BY <1>4, <3>2 DEF MinutePasses
    <3> QED BY <3>1, <3>2, <3>3 DEF CmplRows
  <2>2. UNCHANGED <<health, streak, failures>> BY <1>4 DEF MinutePasses
  <2> QED BY <2>1, <2>2 DEF StreakInv, StreakCounts, SeenCounts, BenchedAfterFailures, ProvOf
<1>5. ASSUME UNCHANGED <<health, streak, failures, cmpl>> PROVE StreakInv'
    BY <1>5 DEF StreakInv, StreakCounts, SeenCounts, BenchedAfterFailures, ProvOf
<1>6. RedisSwitches => UNCHANGED <<health, streak, failures, cmpl>> BY DEF RedisSwitches, pmHistory
<1>7. UNCHANGED pmVars => UNCHANGED <<health, streak, failures, cmpl>> BY DEF pmVars
<1> QED BY <1>1, <1>2, <1>3, <1>4, <1>5, <1>6, <1>7, StreakRead, StreakWritten, StreakBenches
        DEF PmNext, CompletionStep

\* recordFailure benches a provider only after FAILURES_BEFORE_COOLDOWN
\* completions failed on it, for any number of completions that read and write
\* the streak in any order, with Redis or without.
THEOREM BenchedForCause == PmSpec => []BenchedAfterFailures
<1>1. StreakInv => BenchedAfterFailures BY DEF StreakInv
<1> QED BY <1>1, StreakInvInit, StreakInvStep, PmTypesAlways, PTL DEF PmSpec

-----------------------------------------------------------------------------
(* The limiter                                                              *)

\* Where the limiter was not disturbed: its figure is the number of requests it
\* let through, and the one completion inside it has read that figure.
UsedExact == \A p \in Provs : admitted[p] = used[p] /\ used[p] <= RateLimitRpm
OneInside ==
    \A c, d \in Completions : cmpl[c].pc = "limited" /\ cmpl[d].pc = "limited" => c = d
SeenExact == \A c \in Completions : cmpl[c].pc = "limited" => cmpl[c].seen = used[ProvOf(c)]

LimitParts == UsedExact /\ OneInside /\ SeenExact
LimitInv == unlimited \/ LimitParts

LEMMA LimitInvInit == PmInit => LimitInv
<1> SUFFICES ASSUME PmInit PROVE LimitInv OBVIOUS
<1>1. \A c \in Completions : cmpl[c].pc = "idle" BY DEF PmInit
<1>2. \A p \in Provs : used[p] = 0 /\ admitted[p] = 0 BY DEF PmInit
<1> QED BY <1>1, <1>2, ProvidersAssumption DEF LimitInv, LimitParts, UsedExact, OneInside, SeenExact

\* A completion moves outside the limiter.
LEMMA LimitRests ==
    ASSUME LimitParts, NEW c \in Completions, NEW a, NEW b, b # "limited",
           PmMoves(c, a, b), UNCHANGED <<used, admitted>>
    PROVE  LimitParts'
BY DEF LimitParts, UsedExact, OneInside, SeenExact, PmMoves, ProvOf

LEMMA LimitInvStep == PmTypes /\ LimitInv /\ [PmNext]_pmVars => LimitInv'
<1> SUFFICES ASSUME PmTypes, LimitInv, [PmNext]_pmVars, ~unlimited' PROVE LimitParts'
    BY DEF LimitInv
<1>1. ASSUME NEW c \in Completions,
             \/ Select(c) \/ Failover(c) \/ LimitLate(c) \/ Send(c) \/ RecordSuccess(c)
             \/ FailureRead(c) \/ FailureCount(c) \/ FailureWrite(c)
      PROVE  LimitParts'
  <2>1. PICK a, b : b # "limited" /\ PmMoves(c, a, b)
      BY <1>1, SelectRow, FailoverRow, LimitLateRow, SendRow, RecordRows, FailureReadRow
  <2>2. UNCHANGED <<used, admitted, unlimited>>
      BY <1>1 DEF Select, Failover, LimitLate, Send, RecordSuccess, FailureRead, FailureCount, FailureWrite, pmHistory
  <2> QED BY <2>1, <2>2, LimitRests DEF LimitInv
<1>2. ASSUME NEW c \in Completions, LimitRead(c) PROVE LimitParts'
  <2>1. /\ PmMoves(c, "limit", "limited") /\ cmpl'[c].seen = used[ProvOf(c)] /\ cmpl'[c].prov = cmpl[c].prov
        /\ ~unlimited /\ ~ \E d \in Completions \ {c} : PmAt(d, "limited")
        /\ UNCHANGED admitted
      BY <1>2, LimitReadRow DEF KeepsAttempt, KeepsProvider
  <2>2. UNCHANGED used BY <1>2 DEF LimitRead
  <2> QED BY <2>1, <2>2 DEF LimitInv, LimitParts, UsedExact, OneInside, SeenExact, PmMoves, ProvOf, PmAt
<1>3. ASSUME NEW c \in Completions, LimitWrite(c) PROVE LimitParts'
  <2>1. CASE PmMoves(c, "limited", "failed") /\ UNCHANGED <<used, unlimited, admitted>>
      BY <2>1, LimitRests DEF LimitInv
  <2>2. CASE PmMoves(c, "limited", "send") /\ ~UNCHANGED <<used, unlimited, admitted>>
    <3>1. /\ WithinLimit(cmpl[c].seen) /\ Admit(ProvOf(c))
          /\ used' = IF redisUp THEN [used EXCEPT ![ProvOf(c)] = cmpl[c].seen + 1] ELSE used
          /\ unlimited' = (unlimited \/ ~redisUp)
        BY <1>3, <2>2 DEF LimitWrite
    <3>2. redisUp /\ ~unlimited BY <3>1
    <3>3. LimitParts BY <3>2 DEF LimitInv
    <3>4. cmpl[c].pc = "limited" BY <2>2 DEF PmMoves
    <3>5. cmpl[c].seen = used[ProvOf(c)] BY <3>3, <3>4 DEF LimitParts, SeenExact
    <3>6. ProvOf(c) \in Provs /\ cmpl[c].seen \in Nat BY RowTypes
    <3>7. cmpl[c].seen + 1 <= RateLimitRpm
        BY <3>1, <3>6, ProvidersAssumption DEF WithinLimit
    <3>8. UsedExact'
        BY <3>1, <3>2, <3>3, <3>5, <3>6, <3>7
        DEF Admit, LimitParts, UsedExact, PmTypes, PmTypeOK, HistoryOK
    <3>9. \A d \in Completions : cmpl'[d].pc # "limited"
        BY <2>2, <3>3, <3>4 DEF LimitParts, OneInside, PmMoves
    <3> QED BY <3>8, <3>9 DEF LimitParts, OneInside, SeenExact
  <2>3. CASE PmMoves(c, "limited", "send") /\ UNCHANGED <<used, unlimited, admitted>>
      BY <2>3, LimitRests DEF LimitInv
  <2> QED BY <1>3, <2>1, <2>2, <2>3, LimitWriteRow
<1>4. CASE MinutePasses
  <2>1. \A p \in Provs : used'[p] = 0 /\ admitted'[p] = 0 BY <1>4 DEF MinutePasses
  <2>2. \A c \in Completions : cmpl'[c].pc # "limited"
    <3> SUFFICES ASSUME NEW c \in Completions PROVE cmpl'[c].pc # "limited" OBVIOUS
    <3>1. cmpl[c] \in CmplRows BY RowTypes
    <3>2. PICK step : step = IF cmpl[c].pc = "limited" THEN "limitedBefore" ELSE cmpl[c].pc OBVIOUS
    <3>3. cmpl'[c] = [cmpl[c] EXCEPT !.pc = step] BY <1>4, <3>2 DEF MinutePasses
    <3> QED BY <3>1, <3>2, <3>3 DEF CmplRows
  <2> QED BY <2>1, <2>2, ProvidersAssumption DEF LimitParts, UsedExact, OneInside, SeenExact
<1>5. ASSUME UNCHANGED <<used, admitted, unlimited, cmpl>> PROVE LimitParts'
    BY <1>5 DEF LimitInv, LimitParts, UsedExact, OneInside, SeenExact, ProvOf
<1>6. \A p \in Provs : CooldownEnds(p) \/ StreakEnds(p) => UNCHANGED <<used, admitted, unlimited, cmpl>>
    BY DEF CooldownEnds, StreakEnds, pmHistory
<1>7. RedisSwitches => UNCHANGED <<used, admitted, unlimited, cmpl>> BY DEF RedisSwitches, pmHistory
<1>8. UNCHANGED pmVars => UNCHANGED <<used, admitted, unlimited, cmpl>> BY DEF pmVars
<1> QED BY <1>1, <1>2, <1>3, <1>4, <1>5, <1>6, <1>7, <1>8 DEF PmNext, CompletionStep

\* enforceRateLimit keeps a provider within its limit in every minute in which
\* Redis was there and no two calls were between its get and its set, for any
\* limit and any number of completions.
THEOREM LimitHolds == PmSpec => []LimitRespected
<1>1. LimitInv => LimitRespected BY DEF LimitInv, LimitParts, UsedExact, LimitRespected
<1> QED BY <1>1, LimitInvInit, LimitInvStep, PmTypesAlways, PTL DEF PmSpec

-----------------------------------------------------------------------------
(* The attempts of one completion                                           *)

\* Before a request is sent the current provider was asked less often than the
\* attempt says, and afterwards no more often; another provider was asked only if
\* the completion has failed over, and then one at most.
AskedBefore(c) ==
    cmpl[c].pc \in {"limit", "limited", "limitedBefore", "send"} =>
        tried[c][cmpl[c].prov] < cmpl[c].attempt
AskedAfter(c) == tried[c][cmpl[c].prov] <= cmpl[c].attempt
NoneBefore(c) == cmpl[c].pc = "idle" => ~cmpl[c].over /\ \A p \in Provs : tried[c][p] = 0
OthersAsked(c) ==
    /\ ~cmpl[c].over => \A p \in Provs \ {cmpl[c].prov} : tried[c][p] = 0
    /\ \E q \in Provs : \A p \in Provs \ {cmpl[c].prov, q} : tried[c][p] = 0
AttemptsWithin(c) == \A p \in Provs : tried[c][p] <= MAX_ATTEMPTS

AskedInv(c) == AskedBefore(c) /\ AskedAfter(c) /\ NoneBefore(c) /\ OthersAsked(c) /\ AttemptsWithin(c)
TriedInv == \A c \in Completions : AskedInv(c)

LEMMA TriedInvInit == PmInit => TriedInv
<1> SUFFICES ASSUME PmInit, NEW c \in Completions PROVE AskedInv(c) BY DEF TriedInv
<1>1. cmpl[c].prov \in Provs BY ProvidersAssumption DEF PmInit
<1> QED BY <1>1, ProvidersAssumption
        DEF PmInit, AskedInv, AskedBefore, AskedAfter, NoneBefore, OthersAsked, AttemptsWithin

\* The figures the invariant compares are numbers.
LEMMA AskedTypes ==
    ASSUME PmTypes, NEW c \in Completions
    PROVE  /\ cmpl[c].attempt \in Nat /\ 1 <= cmpl[c].attempt /\ cmpl[c].attempt <= MAX_ATTEMPTS
           /\ cmpl[c].prov \in Provs
           /\ \A p \in Provs : tried[c][p] \in Nat
<1>1. cmpl[c] \in CmplRows BY RowTypes
<1>2. tried[c] \in [Provs -> Nat] BY DEF PmTypes, HistoryOK
<1>3. cmpl[c].attempt \in 1 .. MAX_ATTEMPTS /\ cmpl[c].prov \in Provs BY <1>1 DEF CmplRows
<1> QED BY <1>2, <1>3, ProvidersAssumption

LEMMA AskedStep ==
    ASSUME PmTypes, TriedInv, NEW c \in Completions, CompletionStep(c) PROVE AskedInv(c)'
<1> USE DEF AskedInv, AskedBefore, AskedAfter, NoneBefore, OthersAsked, AttemptsWithin
<1>1. AskedInv(c) BY DEF TriedInv
<1>2. cmpl' \in [Completions -> CmplRows]
    BY SelectRow, FailoverRow, LimitReadRow, LimitWriteRow, LimitLateRow, SendRow, RecordRows,
       FailureReadRow DEF CompletionStep, PmMoves
<1>3. cmpl'[c].prov \in Provs
  <2>1. cmpl'[c] \in CmplRows BY <1>2
  <2> QED BY <2>1 DEF CmplRows
<1>4. CASE Select(c)
  <2>1. /\ cmpl[c].pc = "idle" /\ cmpl'[c].pc \in {"limit", "thrown"}
        /\ cmpl'[c].attempt = cmpl[c].attempt /\ cmpl'[c].over = cmpl[c].over
      BY <1>4, SelectRow DEF PmMoves
  <2>2. UNCHANGED tried BY <1>4 DEF Select, pmHistory
  <2>3. \A p \in Provs : tried'[c][p] = 0 BY <1>1, <2>1, <2>2
  <2>4. AskedBefore(c)' /\ AskedAfter(c)' BY <1>3, <2>1, <2>3, AskedTypes
  <2>5. NoneBefore(c)' /\ OthersAsked(c)' BY <1>3, <2>1, <2>3
  <2> QED BY <1>1, <2>2, <2>4, <2>5
<1>5. CASE Failover(c)
  <2>1. UNCHANGED tried BY <1>5 DEF Failover, pmHistory
  <2>2. CASE PmMoves(c, "failed", "thrown") /\ KeepsAttempt(c)
      BY <1>1, <2>1, <2>2 DEF PmMoves, KeepsAttempt, KeepsProvider
  <2>3. CASE /\ PmMoves(c, "failed", "limit")
             /\ ~cmpl[c].over /\ cmpl'[c].over /\ cmpl'[c].attempt = 1
             /\ cmpl'[c].prov # cmpl[c].prov
    <3>1. cmpl'[c].pc = "limit" BY <2>3 DEF PmMoves
    <3>2. \A p \in Provs \ {cmpl[c].prov} : tried[c][p] = 0 BY <1>1, <2>3
    <3>3. tried'[c][cmpl'[c].prov] = 0 BY <1>3, <2>1, <2>3, <3>2
    <3>4. cmpl[c].prov \in Provs BY AskedTypes
    <3>5. OthersAsked(c)' BY <2>1, <2>3, <3>2, <3>4
    <3> QED BY <1>1, <2>1, <2>3, <3>1, <3>3, <3>5
  <2> QED BY <1>5, <2>2, <2>3, FailoverRow
<1>6. CASE Send(c)
  <2>1. cmpl[c].pc = "send" /\ cmpl'[c].prov = cmpl[c].prov /\ cmpl'[c].over = cmpl[c].over
      BY <1>6, SendRow DEF PmMoves, KeepsProvider
  <2>2. \/ cmpl'[c].pc \in {"success", "failure"} /\ cmpl'[c].attempt = cmpl[c].attempt
        \/ cmpl'[c].pc = "limit" /\ cmpl'[c].attempt = cmpl[c].attempt + 1
      BY <1>6, SendRow DEF PmMoves
  <2>3. \A p \in Provs : tried'[c][p] = IF p = cmpl[c].prov THEN tried[c][p] + 1 ELSE tried[c][p]
    <3>1. tried[c] \in [Provs -> Nat] BY DEF PmTypes, HistoryOK
    <3>2. tried' = [tried EXCEPT ![c] = [tried[c] EXCEPT ![ProvOf(c)] = @ + 1]] BY <1>6 DEF Send
    <3>3. tried'[c] = [tried[c] EXCEPT ![ProvOf(c)] = @ + 1] BY <3>2 DEF PmTypes, HistoryOK
    <3> QED BY <3>1, <3>3 DEF ProvOf
  <2>4. tried[c][cmpl[c].prov] < cmpl[c].attempt BY <1>1, <2>1
  <2>5. tried'[c][cmpl[c].prov] <= cmpl[c].attempt BY <2>3, <2>4, AskedTypes
  <2>6. tried'[c][cmpl[c].prov] \in Nat BY <2>3, AskedTypes
  <2>7. AskedBefore(c)' /\ AskedAfter(c)' BY <2>1, <2>2, <2>5, <2>6, AskedTypes
  <2>8. NoneBefore(c)' BY <2>2
  <2>9. OthersAsked(c)' BY <1>1, <2>1, <2>3
  <2>10. AttemptsWithin(c)' BY <1>1, <2>3, <2>5, <2>6, AskedTypes, ProvidersAssumption
  <2> QED BY <2>7, <2>8, <2>9, <2>10
<1>7. ASSUME UNCHANGED tried, KeepsAttempt(c), NEW a, NEW b, PmMoves(c, a, b), b # "idle",
             b \in {"limit", "limited", "limitedBefore", "send"} =>
                 a \in {"limit", "limited", "limitedBefore", "send"}
      PROVE  AskedInv(c)'
    BY <1>1, <1>7 DEF KeepsAttempt, KeepsProvider, PmMoves
<1>8. CASE LimitRead(c)
    BY <1>7, <1>8, LimitReadRow DEF LimitRead
<1>9. CASE LimitWrite(c)
    BY <1>7, <1>9, LimitWriteRow DEF LimitWrite
<1>10. CASE LimitLate(c)
    BY <1>7, <1>10, LimitLateRow DEF LimitLate, pmHistory
<1>11. CASE RecordSuccess(c) \/ FailureCount(c) \/ FailureWrite(c)
  <2>1. UNCHANGED tried BY <1>11 DEF RecordSuccess, FailureCount, FailureWrite, pmHistory
  <2> QED BY <1>7, <1>11, <2>1, RecordRows
<1>12. CASE FailureRead(c)
    BY <1>7, <1>12, FailureReadRow DEF FailureRead
<1> QED BY <1>4, <1>5, <1>6, <1>8, <1>9, <1>10, <1>11, <1>12 DEF CompletionStep

\* The steps of one completion leave the others' rows and requests alone.
LEMMA OthersKeep ==
    ASSUME PmTypes, NEW c \in Completions, CompletionStep(c), NEW d \in Completions, d # c
    PROVE  cmpl'[d] = cmpl[d] /\ tried'[d] = tried[d]
<1>1. cmpl'[d] = cmpl[d]
    BY SelectRow, FailoverRow, LimitReadRow, LimitWriteRow, LimitLateRow, SendRow, RecordRows,
       FailureReadRow DEF CompletionStep, PmMoves
<1>2. CASE Send(c) BY <1>1, <1>2 DEF Send, PmTypes, HistoryOK
<1>3. CASE UNCHANGED tried BY <1>1, <1>3
<1> QED BY <1>2, <1>3
        DEF CompletionStep, Select, Failover, LimitRead, LimitWrite, LimitLate, RecordSuccess, FailureRead,
            FailureCount, FailureWrite, pmHistory

LEMMA TriedInvStep == PmTypes /\ TriedInv /\ [PmNext]_pmVars => TriedInv'
<1> SUFFICES ASSUME PmTypes, TriedInv, [PmNext]_pmVars PROVE TriedInv' OBVIOUS
<1> USE DEF AskedInv, AskedBefore, AskedAfter, NoneBefore, OthersAsked, AttemptsWithin
<1>1. ASSUME NEW c \in Completions, CompletionStep(c) PROVE TriedInv'
  <2> SUFFICES ASSUME NEW d \in Completions PROVE AskedInv(d)' BY DEF TriedInv
  <2>1. CASE d = c BY <1>1, <2>1, AskedStep
  <2>2. CASE d # c
    <3>1. cmpl'[d] = cmpl[d] /\ tried'[d] = tried[d] BY <1>1, <2>2, OthersKeep
    <3> QED BY <3>1 DEF TriedInv
  <2> QED BY <2>1, <2>2
<1>2. CASE MinutePasses
  <2> SUFFICES ASSUME NEW c \in Completions PROVE AskedInv(c)' BY DEF TriedInv
  <2>1. cmpl[c] \in CmplRows BY RowTypes
  <2>2. PICK step : step = IF cmpl[c].pc = "limited" THEN "limitedBefore" ELSE cmpl[c].pc OBVIOUS
  <2>3. cmpl'[c] = [cmpl[c] EXCEPT !.pc = step] BY <1>2, <2>2 DEF MinutePasses
  <2>4. /\ cmpl'[c].prov = cmpl[c].prov /\ cmpl'[c].attempt = cmpl[c].attempt
        /\ cmpl'[c].over = cmpl[c].over /\ cmpl'[c].pc = step
      BY <2>1, <2>3 DEF CmplRows
  <2>5. UNCHANGED tried BY <1>2 DEF MinutePasses
  <2>6. AskedInv(c) BY DEF TriedInv
  <2> QED BY <2>2, <2>4, <2>5, <2>6
<1>3. ASSUME UNCHANGED <<cmpl, tried>> PROVE TriedInv'
    BY <1>3 DEF TriedInv
<1>4. \A p \in Provs : CooldownEnds(p) \/ StreakEnds(p) => UNCHANGED <<cmpl, tried>>
    BY DEF CooldownEnds, StreakEnds, pmHistory
<1>5. RedisSwitches => UNCHANGED <<cmpl, tried>> BY DEF RedisSwitches, pmHistory
<1>6. UNCHANGED pmVars => UNCHANGED <<cmpl, tried>> BY DEF pmVars
<1> QED BY <1>1, <1>2, <1>3, <1>4, <1>5, <1>6 DEF PmNext

\* One completion asks each provider at most MAX_ATTEMPTS times and at most two
\* providers, whatever fails, for any number of providers and of attempts.
THEOREM AttemptsHold == PmSpec => []TriedBounded
<1>1. PmTypes /\ TriedInv => TriedBounded
  <2> SUFFICES ASSUME PmTypes, TriedInv, NEW c \in Completions
               PROVE  /\ \A p \in Provs : tried[c][p] <= MAX_ATTEMPTS
                      /\ \A p, q, r \in {o \in Provs : tried[c][o] > 0} : p = q \/ q = r \/ p = r
      BY DEF TriedBounded
  <2>1. AskedInv(c) BY DEF TriedInv
  <2>2. PICK q \in Provs : \A p \in Provs \ {cmpl[c].prov, q} : tried[c][p] = 0
      BY <2>1 DEF AskedInv, OthersAsked
  <2>3. ASSUME NEW p \in {o \in Provs : tried[c][o] > 0} PROVE p \in {cmpl[c].prov, q}
    <3>1. p \in Provs /\ tried[c][p] > 0 OBVIOUS
    <3>2. tried[c][p] # 0 BY <3>1
    <3> QED BY <2>2, <3>1, <3>2
  <2> QED BY <2>1, <2>3 DEF AskedInv, AttemptsWithin
<1> QED BY <1>1, TriedInvInit, TriedInvStep, PmTypesAlways, PTL DEF PmSpec

-----------------------------------------------------------------------------
(* Memory synchronisation.                                                 *)

LEMMA GreatestOf ==
    ASSUME NEW n \in Nat, NEW T \in SUBSET (0 .. n), T # {}
    PROVE  \E m \in T : \A k \in T : k <= m
<1> DEFINE up == {k .. n : k \in T}
<1>1. IsFiniteSet(0 .. n)
    BY FS_Interval
<1>2. IsWellFoundedOn(StrictSubsetOrdering(0 .. n), FiniteSubsetsOf(0 .. n))
    BY FS_StrictSubsetOrderingWellFounded
<1>3. up \subseteq FiniteSubsetsOf(0 .. n) /\ up # {}
    <2>1. FiniteSubsetsOf(0 .. n) = SUBSET (0 .. n)
        BY <1>1, FS_FiniteSubsetsOfFinite
    <2>2. \A k \in T : k .. n \in SUBSET (0 .. n)
        OBVIOUS
    <2>3. \E k \in T : k .. n \in up
        OBVIOUS
    <2> HIDE DEF up
    <2>4. up # {}
        BY <2>3
    <2>5. up \subseteq SUBSET (0 .. n)
        BY <2>2 DEF up
    <2> QED BY <2>1, <2>4, <2>5
<1> HIDE DEF up
<1>4. PICK d \in up : \A e \in up : <<e, d>> \notin StrictSubsetOrdering(0 .. n)
    BY <1>2, <1>3, WFMin
<1>5. PICK m \in T : d = m .. n
    BY DEF up
<1>6. ASSUME NEW k \in T, m < k PROVE FALSE
    <2>1. k .. n \in up
        BY DEF up
    <2>2. k .. n \subseteq m .. n /\ m \in m .. n /\ m \notin k .. n
        BY <1>6
    <2>3. k .. n \subseteq 0 .. n /\ m .. n \subseteq 0 .. n
        OBVIOUS
    <2> QED BY <1>4, <1>5, <2>1, <2>2, <2>3 DEF StrictSubsetOrdering
<1> QED BY <1>6

MsPcs == {"idle", "putRead", "putWrite", "readBack", "draw", "append", "commit", "readCommitted", "pullOps",
          "advance", "answer", "done", "thrown"}
Pulling == {"pullOps", "advance", "answer"}
Holding == {"advance", "answer"}

\* A call, whatever it found, writes and was handed.
MsRow(h, i, p) ==
    [pc : MsPcs, by : Writers, held : {h}, in : {i}, status : {"APPLIED", "SUPERSEDED", "CONFLICT"},
     won : BOOLEAN, seq : Nat, ops : {p}, left : SUBSET Scopes, upTo : Nat]
IsCall(m) == \E h, i, p : m \in MsRow(h, i, p)

MsShapes ==
    /\ msCall = [c \in MsCalls |-> msCall[c]] /\ \A c \in MsCalls : IsCall(msCall[c])
    /\ cursor \in [MsNodes -> [Scopes -> Nat]] /\ nextSeq \in Nat \ {0} /\ IsFiniteSet(opLog)
    /\ delivered = [n \in MsNodes |-> delivered[n]] /\ gone = [n \in MsNodes |-> gone[n]]

\* Every number drawn is used for one entry.
Numbered ==
    /\ \A o \in opLog : o.seq \in Nat /\ o.seq < nextSeq
    /\ \A c \in MsCalls :
          MsAt(c, "append") =>
              /\ msCall[c].seq \in Nat \ {0} /\ msCall[c].seq < nextSeq
              /\ \A o \in opLog : o.seq # msCall[c].seq
              /\ \A d \in MsCalls \ {c} : MsAt(d, "append") => msCall[d].seq # msCall[c].seq

\* Entry q was given to node n, lost on the way, committed late, or is in the
\* hands of a pull that will give it.
InHandOf(n, q) == \E c \in MsCalls : msCall[c].by = n /\ msCall[c].pc \in Holding /\ q \in Seqs(msCall[c].ops)
Seen(n, q) == q \in delivered[n] \/ q \in gone[n] \/ q \in late \/ InHandOf(n, q)
SeenUpTo(n, x) == \A o \in opLog : o.seq <= x => Seen(n, o.seq)

\* A cursor is never ahead of the log.
Reached(x) == x = 0 \/ \E o \in opLog : x <= o.seq

CursorsHold ==
    \A n \in MsNodes : SeenUpTo(n, cursor[n]["SHARED"]) /\ \A s \in Scopes : Reached(cursor[n][s])
PullHolds(m) ==
    /\ m.pc \in Pulling => m.by \in MsNodes
    /\ m.pc \in {"pullOps", "advance"} =>
          Reached(m.upTo) /\ ("SHARED" \in m.left => SeenUpTo(m.by, m.upTo))
PullsHold == \A c \in MsCalls : PullHolds(msCall[c])

MsInv == MsShapes /\ Numbered /\ CursorsHold /\ PullsHold

LEMMA MsInitHolds == MsInit => MsInv
<1> SUFFICES ASSUME MsInit PROVE MsInv
    OBVIOUS
<1>1. \A c \in MsCalls : msCall[c].pc = "idle" /\ IsCall(msCall[c])
    <2>1. ASSUME NEW c \in MsCalls PROVE msCall[c] \in MsRow(NoShard, Nothing, {}) /\ msCall[c].pc = "idle"
        BY DEF MsInit, MsRow, MsPcs, Writers
    <2> QED BY <2>1 DEF IsCall
<1>2. MsShapes
    <2>1. msCall = [c \in MsCalls |-> msCall[c]]
        BY DEF MsInit
    <2>2. cursor \in [MsNodes -> [Scopes -> Nat]] /\ nextSeq \in Nat \ {0}
        BY DEF MsInit
    <2>3. IsFiniteSet(opLog)
        BY FS_EmptySet DEF MsInit
    <2>4. delivered = [n \in MsNodes |-> delivered[n]] /\ gone = [n \in MsNodes |-> gone[n]]
        BY DEF MsInit
    <2> QED BY <1>1, <2>1, <2>2, <2>3, <2>4 DEF MsShapes
<1>3. Numbered /\ CursorsHold
    BY <1>1 DEF MsInit, Numbered, MsAt, CursorsHold, SeenUpTo, Reached
<1>4. PullsHold
    BY <1>1 DEF PullsHold, PullHolds, Pulling
<1> QED BY <1>2, <1>3, <1>4 DEF MsInv

\* One call of several moves.
LEMMA MsOneCall ==
    ASSUME MsShapes, NEW c \in MsCalls, NEW r, MsSet(c, r)
    PROVE  msCall' = [d \in MsCalls |-> msCall'[d]] /\ msCall'[c] = r /\ \A d \in MsCalls \ {c} : msCall'[d] = msCall[d]
BY DEF MsShapes, MsSet

\* What was seen stays seen, as long as whoever has entries in hand keeps them
\* or hands them over.
HandsKeep ==
    \A c \in MsCalls :
        msCall[c].pc \in Holding =>
            \/ msCall'[c].by = msCall[c].by /\ msCall'[c].pc \in Holding /\ msCall'[c].ops = msCall[c].ops
            \/ Seqs(msCall[c].ops) \subseteq delivered'[msCall[c].by] \union gone'[msCall[c].by]
HistoryGrows ==
    /\ \A n \in MsNodes : delivered[n] \subseteq delivered'[n] /\ gone[n] \subseteq gone'[n]
    /\ late \subseteq late'

LEMMA SeenOn ==
    ASSUME HandsKeep, HistoryGrows, NEW n \in MsNodes, NEW q, Seen(n, q)
    PROVE  Seen(n, q)'
<1>1. CASE InHandOf(n, q)
    <2>1. PICK c \in MsCalls : msCall[c].by = n /\ msCall[c].pc \in Holding /\ q \in Seqs(msCall[c].ops)
        BY <1>1 DEF InHandOf
    <2>2. CASE msCall'[c].by = n /\ msCall'[c].pc \in Holding /\ msCall'[c].ops = msCall[c].ops
        BY <2>1, <2>2 DEF Seen, InHandOf, Seqs
    <2>3. CASE Seqs(msCall[c].ops) \subseteq delivered'[n] \union gone'[n]
        BY <2>1, <2>3 DEF Seen
    <2> QED BY <2>1, <2>2, <2>3 DEF HandsKeep
<1>2. CASE ~InHandOf(n, q)
    BY <1>2 DEF Seen, HistoryGrows
<1> QED BY <1>1, <1>2

LEMMA SeenUpToOn ==
    ASSUME HandsKeep, HistoryGrows, UNCHANGED opLog, NEW n \in MsNodes, NEW x, SeenUpTo(n, x)
    PROVE  SeenUpTo(n, x)'
BY SeenOn DEF SeenUpTo

\* A call that does not pull moves and nothing it touches is pulled.
LEMMA WriteStep ==
    ASSUME MsInv, NEW c \in MsCalls, NEW r, IsCall(r), MsSet(c, r), msCall[c].pc \notin Pulling, r.pc \notin Pulling,
           r.pc # "append", UNCHANGED <<opLog, nextSeq, cursor, delivered, gone, late>>
    PROVE  MsInv'
<1>1. msCall' = [d \in MsCalls |-> msCall'[d]] /\ msCall'[c] = r /\ \A d \in MsCalls \ {c} : msCall'[d] = msCall[d]
    BY MsOneCall DEF MsInv
<1>2. HandsKeep /\ HistoryGrows
    BY <1>1 DEF HandsKeep, HistoryGrows, Holding, Pulling
<1>3. MsShapes'
    BY <1>1 DEF MsInv, MsShapes, IsCall
<1>4. Numbered'
    <2>1. \A d \in MsCalls : MsAt(d, "append")' => d # c /\ MsAt(d, "append") /\ msCall'[d] = msCall[d]
        BY <1>1 DEF MsAt
    <2> QED BY <2>1 DEF MsInv, Numbered
<1>5. CursorsHold'
    BY <1>2, SeenUpToOn DEF MsInv, CursorsHold, Reached
<1>6. PullsHold'
    <2>1. SUFFICES ASSUME NEW d \in MsCalls, d # c, msCall[d].pc \in Pulling PROVE PullHolds(msCall[d])'
        BY <1>1 DEF PullsHold, PullHolds, Pulling
    <2>2. msCall'[d] = msCall[d] /\ PullHolds(msCall[d])
        BY <1>1, <2>1 DEF MsInv, PullsHold
    <2>3. PICK x : x = msCall[d].upTo
        OBVIOUS
    <2>4. PICK n \in MsNodes : n = msCall[d].by
        BY <2>1, <2>2 DEF PullHolds
    <2>5. SeenUpTo(n, x) => SeenUpTo(n, x)'
        BY <1>2, SeenUpToOn
    <2>6. Reached(x) => Reached(x)'
        BY DEF Reached
    <2> QED BY <2>2, <2>3, <2>4, <2>5, <2>6 DEF PullHolds, SeenUpTo
<1> QED BY <1>3, <1>4, <1>5, <1>6 DEF MsInv

\* The statements of put() and apply() before and after the log.
LEMMA PutBeginKeeps ==
    ASSUME MsInv, NEW c \in MsCalls, PutBegin(c) PROVE MsInv'
<1>1. PICK w \in Writers :
          MsSet(c, [msCall[c] EXCEPT !.pc = "putWrite", !.by = w, !.held = shard, !.in.value = c])
    BY DEF PutBegin
<1>2. PICK h, i, p : msCall[c] \in MsRow(h, i, p)
    BY DEF MsInv, MsShapes, IsCall
<1>m. [msCall[c] EXCEPT !.pc = "putWrite", !.by = w, !.held = shard, !.in.value = c]
          \in MsRow(shard, [i EXCEPT !.value = c], p)
    BY ZenonT(60), <1>2 DEF MsRow, MsPcs
<1>3. PICK r \in MsRow(shard, [i EXCEPT !.value = c], p) :
          /\ r = [msCall[c] EXCEPT !.pc = "putWrite", !.by = w, !.held = shard, !.in.value = c]
          /\ r.pc = "putWrite"
    BY <1>2, <1>m DEF MsRow
<1>4. IsCall(r) /\ MsSet(c, r)
    BY <1>1, <1>3 DEF IsCall
<1>5. msCall[c].pc \notin Pulling /\ r.pc \notin Pulling /\ r.pc # "append"
    BY <1>3 DEF PutBegin, MsNew, MsAt, Pulling
<1> QED BY <1>4, <1>5, WriteStep DEF PutBegin, MsHistory

LEMMA PutReadKeeps ==
    ASSUME MsInv, NEW c \in MsCalls, PutRead(c) PROVE MsInv'
<1>2. PICK h, i, p : msCall[c] \in MsRow(h, i, p)
    BY DEF MsInv, MsShapes, IsCall
<1>m. [msCall[c] EXCEPT !.pc = "putWrite", !.held = shard]
          \in MsRow(shard, i, p)
    BY ZenonT(60), <1>2 DEF MsRow, MsPcs
<1>3. PICK r \in MsRow(shard, i, p) :
          /\ r = [msCall[c] EXCEPT !.pc = "putWrite", !.held = shard]
          /\ r.pc = "putWrite"
    BY <1>2, <1>m DEF MsRow
<1>4. IsCall(r) /\ MsSet(c, r)
    BY <1>3 DEF IsCall, PutRead
<1>5. msCall[c].pc \notin Pulling /\ r.pc \notin Pulling /\ r.pc # "append"
    BY <1>3 DEF PutRead, MsAt, Pulling
<1> QED BY <1>4, <1>5, WriteStep DEF PutRead, MsHistory

\* A call goes to step p.
LEMMA GoKeeps ==
    ASSUME MsInv, NEW c \in MsCalls, NEW step \in MsPcs, MsGo(c, step), msCall[c].pc \notin Pulling,
           step \notin Pulling, step # "append", UNCHANGED <<opLog, nextSeq, cursor, delivered, gone, late>>
    PROVE  MsInv'
<1>1. PICK h, i, p : msCall[c] \in MsRow(h, i, p)
    BY DEF MsInv, MsShapes, IsCall
<1>m. [msCall[c] EXCEPT !.pc = step]
          \in MsRow(h, i, p)
    BY ZenonT(60), <1>1 DEF MsRow
<1>2. PICK r \in MsRow(h, i, p) :
          /\ r = [msCall[c] EXCEPT !.pc = step]
          /\ r.pc = step
    BY <1>1, <1>m DEF MsRow
<1>3. IsCall(r) /\ MsSet(c, r)
    BY <1>2 DEF IsCall, MsGo
<1> QED BY <1>2, <1>3, WriteStep

LEMMA PutWriteKeeps ==
    ASSUME MsInv, NEW c \in MsCalls, PutWrite(c) PROVE MsInv'
<1>1. msCall[c].pc \notin Pulling /\ UNCHANGED <<opLog, nextSeq, cursor, delivered, gone, late>>
    BY DEF PutWrite, MsAt, Pulling, MsHistory
<1>2. CASE MsGo(c, "thrown")
    BY <1>1, <1>2, GoKeeps DEF MsPcs, Pulling
<1>3. ASSUME ~MsGo(c, "thrown") PROVE MsInv'
    <2>1. PICK v, k : \E s \in {"readBack", "draw"} :
              MsSet(c, [msCall[c] EXCEPT !.pc = s, !.in.version = v, !.in.clock = k])
        BY <1>3 DEF PutWrite
    <2>a. PICK s \in {"readBack", "draw"} :
              MsSet(c, [msCall[c] EXCEPT !.pc = s, !.in.version = v, !.in.clock = k])
        BY <2>1
    <2>2. PICK h, i, p : msCall[c] \in MsRow(h, i, p)
        BY DEF MsInv, MsShapes, IsCall
    <2>m. [msCall[c] EXCEPT !.pc = s, !.in.version = v, !.in.clock = k]
              \in MsRow(h, [i EXCEPT !.version = v, !.clock = k], p)
        BY ZenonT(60), <2>2 DEF MsRow, MsPcs
    <2>3. PICK r \in MsRow(h, [i EXCEPT !.version = v, !.clock = k], p) :
              /\ r = [msCall[c] EXCEPT !.pc = s, !.in.version = v, !.in.clock = k]
              /\ r.pc = s
        BY <2>2, <2>m DEF MsRow
    <2>4. IsCall(r) /\ MsSet(c, r) /\ r.pc \notin Pulling /\ r.pc # "append"
        BY <2>a, <2>3 DEF IsCall, Pulling
    <2> QED BY <1>1, <2>4, WriteStep
<1> QED BY <1>2, <1>3

LEMMA MsSettleKeeps ==
    ASSUME MsInv, NEW c \in MsCalls, ReadBack(c) \/ Commit(c) \/ ReadCommitted(c) PROVE MsInv'
<1>1. msCall[c].pc \notin Pulling /\ UNCHANGED <<opLog, nextSeq, cursor, delivered, gone, late>>
    BY DEF ReadBack, Commit, ReadCommitted, MsAt, Pulling, MsHistory
<1>2. \E s \in {"thrown", "draw", "readCommitted", "done"} : MsGo(c, s)
    BY DEF ReadBack, Commit, ReadCommitted
<1>3. \A s \in {"thrown", "draw", "readCommitted", "done"} : s \in MsPcs /\ s \notin Pulling /\ s # "append"
    BY DEF MsPcs, Pulling
<1> QED BY <1>1, <1>2, <1>3, GoKeeps

LEMMA ApplyReadKeeps ==
    ASSUME MsInv, NEW c \in MsCalls, ApplyRead(c) PROVE MsInv'
<1>b. PICK in, v : \E n \in MsNodes :
          MsSet(c, [msCall[c] EXCEPT
              !.by = n, !.held = shard, !.in = in, !.won = v # "lost",
              !.status = CASE v = "behind" -> "SUPERSEDED" [] v \in {"won", "lost"} -> "CONFLICT"
                           [] OTHER -> "APPLIED",
              !.pc = CASE v = "none" -> "done" [] v = "new" -> "putRead"
                       [] v = "forward" -> "commit" [] OTHER -> "draw"])
    BY DEF ApplyRead
<1>n. PICK n \in MsNodes :
          MsSet(c, [msCall[c] EXCEPT
              !.by = n, !.held = shard, !.in = in, !.won = v # "lost",
              !.status = CASE v = "behind" -> "SUPERSEDED" [] v \in {"won", "lost"} -> "CONFLICT"
                           [] OTHER -> "APPLIED",
              !.pc = CASE v = "none" -> "done" [] v = "new" -> "putRead"
                       [] v = "forward" -> "commit" [] OTHER -> "draw"])
    BY <1>b
<1>c. PICK b \in BOOLEAN : b = (v # "lost")
    OBVIOUS
<1>d. PICK s \in {"SUPERSEDED", "CONFLICT", "APPLIED"} :
          s = CASE v = "behind" -> "SUPERSEDED" [] v \in {"won", "lost"} -> "CONFLICT" [] OTHER -> "APPLIED"
    OBVIOUS
<1>e. PICK step \in {"done", "putRead", "commit", "draw"} :
          step = CASE v = "none" -> "done" [] v = "new" -> "putRead" [] v = "forward" -> "commit" [] OTHER -> "draw"
    OBVIOUS
<1>1. MsSet(c, [msCall[c] EXCEPT !.by = n, !.held = shard, !.in = in, !.won = b, !.status = s, !.pc = step])
    BY <1>n, <1>c, <1>d, <1>e
<1>2. PICK h, i, p : msCall[c] \in MsRow(h, i, p)
    BY DEF MsInv, MsShapes, IsCall
<1>m. [msCall[c] EXCEPT !.by = n, !.held = shard, !.in = in, !.won = b, !.status = s, !.pc = step]
          \in MsRow(shard, in, p)
    BY ZenonT(60), <1>2 DEF MsRow, MsPcs, Writers
<1>3. PICK r \in MsRow(shard, in, p) :
          /\ r = [msCall[c] EXCEPT !.by = n, !.held = shard, !.in = in, !.won = b, !.status = s, !.pc = step]
          /\ r.pc = step
    BY <1>2, <1>m DEF MsRow
<1>4. IsCall(r) /\ MsSet(c, r)
    BY <1>1, <1>3 DEF IsCall
<1>5. msCall[c].pc \notin Pulling /\ r.pc \notin Pulling /\ r.pc # "append"
    BY <1>3 DEF ApplyRead, MsNew, MsAt, Pulling
<1> QED BY <1>4, <1>5, WriteStep DEF ApplyRead, MsHistory

\* What a step that does not write the log leaves true.
LEMMA NumberedOn ==
    ASSUME MsInv, NEW c \in MsCalls, NEW r, MsSet(c, r), r.pc # "append", UNCHANGED <<opLog, nextSeq>>
    PROVE  Numbered'
<1>1. msCall'[c] = r /\ \A d \in MsCalls \ {c} : msCall'[d] = msCall[d]
    BY MsOneCall DEF MsInv
<1>2. \A d \in MsCalls : MsAt(d, "append")' => d # c /\ MsAt(d, "append") /\ msCall'[d] = msCall[d]
    BY <1>1 DEF MsAt
<1> QED BY <1>2 DEF MsInv, Numbered

LEMMA PullOn ==
    ASSUME HandsKeep, HistoryGrows, UNCHANGED opLog, NEW m, PullHolds(m)
    PROVE  PullHolds(m)'
<1>1. PICK x : x = m.upTo
    OBVIOUS
<1>2. Reached(x) => Reached(x)'
    BY DEF Reached
<1>3. ASSUME m.pc \in {"pullOps", "advance"}, "SHARED" \in m.left PROVE SeenUpTo(m.by, x)'
    <2>1. PICK n \in MsNodes : n = m.by
        BY <1>3 DEF PullHolds, Pulling
    <2>2. SeenUpTo(n, x)
        BY <1>1, <1>3, <2>1 DEF PullHolds
    <2>3. SeenUpTo(n, x)'
        BY <2>2, SeenUpToOn
    <2> QED BY <2>1, <2>3
<1> QED BY <1>1, <1>2, <1>3 DEF PullHolds

LEMMA OthersPull ==
    ASSUME MsInv, HandsKeep, HistoryGrows, UNCHANGED opLog, NEW c \in MsCalls, NEW r, MsSet(c, r), PullHolds(r)'
    PROVE  PullsHold'
<1>1. msCall'[c] = r /\ \A d \in MsCalls \ {c} : msCall'[d] = msCall[d]
    BY MsOneCall DEF MsInv
<1>2. ASSUME NEW d \in MsCalls PROVE PullHolds(msCall[d])'
    <2>1. PICK m : m = msCall'[d]
        OBVIOUS
    <2>2. CASE d = c
        BY <1>1, <2>2
    <2>3. CASE d # c
        <3>1. m = msCall[d] /\ PullHolds(m)
            BY <1>1, <2>1, <2>3 DEF MsInv, PullsHold
        <3>2. PullHolds(m)'
            BY <3>1, PullOn
        <3> QED BY <2>1, <3>2 DEF PullHolds
    <2> QED BY <2>2, <2>3
<1> QED BY <1>2 DEF PullsHold

LEMMA CursorsOn ==
    ASSUME MsInv, HandsKeep, HistoryGrows, UNCHANGED <<opLog, cursor>> PROVE CursorsHold'
BY SeenUpToOn DEF MsInv, CursorsHold, Reached

\* A number is drawn.
LEMMA DrawKeeps ==
    ASSUME MsInv, NEW c \in MsCalls, Draw(c) PROVE MsInv'
<1>1. PICK h, i, p : msCall[c] \in MsRow(h, i, p)
    BY DEF MsInv, MsShapes, IsCall
<1>2. nextSeq \in Nat \ {0} /\ nextSeq' = nextSeq + 1
    BY DEF MsInv, MsShapes, Draw
<1>3. [msCall[c] EXCEPT !.pc = "append", !.seq = nextSeq] \in MsRow(h, i, p)
    BY ZenonT(60), <1>1, <1>2 DEF MsRow, MsPcs
<1>4. PICK r \in MsRow(h, i, p) :
          r = [msCall[c] EXCEPT !.pc = "append", !.seq = nextSeq] /\ r.pc = "append" /\ r.seq = nextSeq
    BY <1>1, <1>3 DEF MsRow
<1>5. MsSet(c, r) /\ UNCHANGED <<opLog, cursor, delivered, gone, late>> /\ msCall[c].pc = "draw"
    BY <1>4 DEF Draw, MsHistory, MsAt
<1>6. msCall' = [d \in MsCalls |-> msCall'[d]] /\ msCall'[c] = r /\ \A d \in MsCalls \ {c} : msCall'[d] = msCall[d]
    BY <1>5, MsOneCall DEF MsInv
<1>7. HandsKeep /\ HistoryGrows
    BY <1>5, <1>6 DEF HandsKeep, HistoryGrows, Holding
<1>8. MsShapes'
    BY <1>2, <1>4, <1>5, <1>6 DEF MsInv, MsShapes, IsCall
<1>9. Numbered'
    <2>1. \A o \in opLog' : o.seq \in Nat /\ o.seq < nextSeq'
        BY <1>2, <1>5 DEF MsInv, Numbered
    <2>2. ASSUME NEW d \in MsCalls, MsAt(d, "append")', d # c
          PROVE  /\ msCall'[d].seq \in Nat \ {0} /\ msCall'[d].seq < nextSeq
                 /\ \A o \in opLog : o.seq # msCall'[d].seq
                 /\ \A e \in MsCalls \ {c, d} : MsAt(e, "append")' => msCall'[e].seq # msCall'[d].seq
        BY <1>6, <2>2 DEF MsAt, MsInv, Numbered
    <2>3. \A o \in opLog : o.seq # nextSeq
        BY <1>2 DEF MsInv, Numbered
    <2>4. ASSUME NEW d \in MsCalls, MsAt(d, "append")'
          PROVE  /\ msCall'[d].seq \in Nat \ {0} /\ msCall'[d].seq < nextSeq'
                 /\ \A o \in opLog' : o.seq # msCall'[d].seq
                 /\ \A e \in MsCalls \ {d} : MsAt(e, "append")' => msCall'[e].seq # msCall'[d].seq
        <3>1. CASE d = c
            <4>1. msCall'[d].seq = nextSeq
                BY <1>4, <1>6, <3>1
            <4>2. \A e \in MsCalls \ {d} : MsAt(e, "append")' => msCall'[e].seq # nextSeq
                <5> SUFFICES ASSUME NEW e \in MsCalls, e # c, MsAt(e, "append")' PROVE msCall'[e].seq # nextSeq
                    BY <3>1
                <5> QED BY <1>2, <2>2
            <4> QED BY <1>2, <1>5, <2>3, <4>1, <4>2
        <3>2. CASE d # c
            <4>1. msCall'[d].seq \in Nat \ {0} /\ msCall'[d].seq < nextSeq /\ \A o \in opLog : o.seq # msCall'[d].seq
                BY <2>2, <2>4, <3>2
            <4>2. \A e \in MsCalls \ {c, d} : MsAt(e, "append")' => msCall'[e].seq # msCall'[d].seq
                BY <2>2, <2>4, <3>2
            <4>3. msCall'[c].seq # msCall'[d].seq
                BY <1>2, <1>4, <1>6, <4>1
            <4> QED BY <1>2, <1>5, <4>1, <4>2, <4>3
        <3> QED BY <3>1, <3>2
    <2> QED BY <2>1, <2>4 DEF Numbered
<1>10. CursorsHold'
    BY <1>5, <1>7, CursorsOn
<1>11. PullHolds(r)'
    BY <1>4 DEF PullHolds, Pulling
<1>12. PullsHold'
    BY <1>5, <1>7, <1>11, OthersPull
<1> QED BY <1>8, <1>9, <1>10, <1>12 DEF MsInv

\* An entry becomes visible: behind every cursor it comes late.
LEMMA AppendOpKeeps ==
    ASSUME MsInv, NEW c \in MsCalls, AppendOp(c) PROVE MsInv'
<1>1. PICK h, i, p : msCall[c] \in MsRow(h, i, p)
    BY DEF MsInv, MsShapes, IsCall
<1>2. PICK q \in Nat \ {0} : q = msCall[c].seq /\ q < nextSeq /\ \A o \in opLog : o.seq # q
    BY DEF MsInv, Numbered, AppendOp
<1>a. PICK e : e = [seq |-> q, write |-> msCall[c].in, status |-> msCall[c].status]
    OBVIOUS
<1>3. e = [seq |-> q, write |-> msCall[c].in, status |-> msCall[c].status] /\ e.seq = q
    BY <1>a
<1>4. opLog' = opLog \union {e} /\ late' = late \union {x \in {q} : \E o \in opLog : o.seq > x}
    BY <1>2, <1>3 DEF AppendOp
<1>5. UNCHANGED <<nextSeq, cursor, delivered, gone>>
    BY DEF AppendOp
<1>6. PICK s \in {"commit", "done"} : MsGo(c, s)
    BY DEF AppendOp
<1>7. [msCall[c] EXCEPT !.pc = s] \in MsRow(h, i, p)
    BY ZenonT(60), <1>1 DEF MsRow, MsPcs
<1>8. PICK r \in MsRow(h, i, p) : r = [msCall[c] EXCEPT !.pc = s] /\ r.pc = s
    BY <1>1, <1>7 DEF MsRow
<1>9. MsSet(c, r) /\ msCall[c].pc = "append"
    BY <1>6, <1>8 DEF MsGo, AppendOp, MsAt
<1>10. msCall' = [d \in MsCalls |-> msCall'[d]] /\ msCall'[c] = r /\ \A d \in MsCalls \ {c} : msCall'[d] = msCall[d]
    BY <1>9, MsOneCall DEF MsInv
<1>11. HandsKeep /\ HistoryGrows
    BY <1>4, <1>5, <1>9, <1>10 DEF HandsKeep, HistoryGrows, Holding
<1>12. MsShapes'
    <2>1. IsFiniteSet(opLog')
        BY <1>4, FS_AddElement DEF MsInv, MsShapes
    <2>2. \A d \in MsCalls : IsCall(msCall'[d])
        BY <1>10 DEF MsInv, MsShapes, IsCall
    <2> QED BY <1>5, <1>10, <2>1, <2>2 DEF MsInv, MsShapes, IsCall
<1>13. Numbered'
    <2>1. \A o \in opLog' : o.seq \in Nat /\ o.seq < nextSeq'
        BY <1>2, <1>3, <1>4, <1>5 DEF MsInv, Numbered
    <2>2. \A d \in MsCalls : MsAt(d, "append")' => d # c /\ MsAt(d, "append") /\ msCall'[d] = msCall[d]
        BY <1>8, <1>10 DEF MsAt
    <2>3. \A d \in MsCalls : MsAt(d, "append")' => q # msCall[d].seq
        BY <1>2, <1>9, <2>2 DEF MsInv, Numbered, MsAt
    <2> QED BY <1>3, <1>4, <1>5, <2>1, <2>2, <2>3 DEF MsInv, Numbered
<1>14. ASSUME NEW x \in Nat, Reached(x) PROVE Reached(x)' /\ (q <= x => q \in late')
    <2>1. Reached(x)'
        BY <1>4, <1>14 DEF Reached
    <2>2. ASSUME q <= x PROVE q \in late'
        <3>1. PICK o \in opLog : x <= o.seq
            BY <1>14, <2>2 DEF Reached
        <3>2. o.seq \in Nat /\ o.seq # q
            BY <1>2 DEF MsInv, Numbered
        <3>3. o.seq > q
            BY <2>2, <3>1, <3>2
        <3> QED BY <1>4, <3>3
    <2> QED BY <2>1, <2>2
<1>15. ASSUME NEW n \in MsNodes, NEW x \in Nat, Reached(x), SeenUpTo(n, x) PROVE SeenUpTo(n, x)'
    <2>1. SUFFICES ASSUME NEW o \in opLog', o.seq <= x PROVE Seen(n, o.seq)'
        BY DEF SeenUpTo
    <2>2. CASE o \in opLog
        <3>1. Seen(n, o.seq)
            BY <1>15, <2>1, <2>2 DEF SeenUpTo
        <3> QED BY <1>11, <3>1, SeenOn
    <2>3. CASE o = e
        BY <1>3, <1>14, <1>15, <2>1, <2>3 DEF Seen
    <2> QED BY <1>4, <2>2, <2>3
<1>16. CursorsHold'
    <2>1. ASSUME NEW n \in MsNodes PROVE SeenUpTo(n, cursor[n]["SHARED"])' /\ \A y \in Scopes : Reached(cursor[n][y])'
        <3>1. /\ SeenUpTo(n, cursor[n]["SHARED"])
              /\ \A y \in Scopes : Reached(cursor[n][y]) /\ cursor[n][y] \in Nat
            BY DEF MsInv, MsShapes, CursorsHold
        <3>2. PICK x \in Nat : x = cursor[n]["SHARED"]
            BY <3>1 DEF Scopes
        <3>3. SeenUpTo(n, x)' /\ cursor'[n]["SHARED"] = x
            BY <1>5, <1>15, <3>1, <3>2 DEF Scopes
        <3>4. ASSUME NEW y \in Scopes PROVE Reached(cursor[n][y])'
            <4>1. PICK z \in Nat : z = cursor[n][y] /\ Reached(z)
                BY <3>1
            <4>2. Reached(z)'
                BY <1>14, <4>1
            <4> QED BY <1>5, <4>1, <4>2 DEF Reached
        <3> QED BY <3>3, <3>4 DEF SeenUpTo
    <2> QED BY <2>1 DEF CursorsHold
<1>17. PullsHold'
    <2>1. ASSUME NEW d \in MsCalls PROVE PullHolds(msCall[d])'
        <3>1. CASE d = c
            BY <1>8, <1>10, <3>1 DEF PullHolds, Pulling
        <3>2. CASE d # c
            <4>1. PICK m : m = msCall[d] /\ m = msCall'[d]
                BY <1>10, <3>2
            <4>2. PullHolds(m) /\ m.upTo \in Nat
                BY <4>1 DEF MsInv, PullsHold, MsShapes, IsCall, MsRow
            <4>3. PICK x \in Nat : x = m.upTo
                BY <4>2
            <4>4. ASSUME m.pc \in {"pullOps", "advance"} PROVE Reached(x)' /\ ("SHARED" \in m.left => SeenUpTo(m.by, x)')
                <5>1. PICK n \in MsNodes : n = m.by
                    BY <4>2, <4>4 DEF PullHolds, Pulling
                <5>2. Reached(x) /\ ("SHARED" \in m.left => SeenUpTo(n, x))
                    BY <4>2, <4>3, <4>4, <5>1 DEF PullHolds
                <5> QED BY <1>14, <1>15, <5>1, <5>2
            <4>5. PullHolds(m)'
                BY <4>2, <4>3, <4>4 DEF PullHolds
            <4> QED BY <4>1, <4>5 DEF PullHolds
        <3> QED BY <3>1, <3>2
    <2> QED BY <2>1 DEF PullsHold
<1> QED BY <1>12, <1>13, <1>16, <1>17 DEF MsInv

\* A pull begins at its lowest cursor.
LEMMA PullBeginKeeps ==
    ASSUME MsInv, NEW c \in MsCalls, PullBegin(c) PROVE MsInv'
<1>1. PICK n \in MsNodes, S \in (SUBSET Scopes) \ {{}} :
          MsSet(c, [msCall[c] EXCEPT !.pc = "pullOps", !.by = n, !.left = S,
                                     !.upTo = SmallestOf({cursor[n][s] : s \in S})])
    BY DEF PullBegin
<1>a. PICK T : T = {cursor[n][s] : s \in S}
    OBVIOUS
<1>2. PICK x : x = SmallestOf(T)
    OBVIOUS
<1>3. PICK s \in S : x = cursor[n][s] /\ \A z \in S : x <= cursor[n][z]
    <2>1. \A s \in Scopes : cursor[n][s] \in Nat
        BY DEF MsInv, MsShapes
    <2>2. S \in SUBSET Scopes /\ S # {}
        BY <1>1
    <2>3. \E m \in T : \A y \in T : m <= y
        <3>1. CASE S = {"SHARED"}
            BY <1>a, <2>1, <3>1 DEF Scopes
        <3>2. CASE S = {"GLOBAL"}
            BY <1>a, <2>1, <3>2 DEF Scopes
        <3>3. CASE S = {"SHARED", "GLOBAL"}
            <4>1. cursor[n]["SHARED"] <= cursor[n]["GLOBAL"] \/ cursor[n]["GLOBAL"] <= cursor[n]["SHARED"]
                BY <2>1 DEF Scopes
            <4>2. T = {cursor[n]["SHARED"], cursor[n]["GLOBAL"]}
                BY <1>a, <3>3
            <4> QED BY <2>1, <4>1, <4>2 DEF Scopes
        <3> QED BY <2>2, <3>1, <3>2, <3>3 DEF Scopes
    <2>4. x \in T /\ \A y \in T : x <= y
        BY <1>2, <2>3 DEF SmallestOf
    <2> QED BY <1>a, <2>4
<1>4. x \in Nat /\ Reached(x)
    BY <1>3 DEF MsInv, MsShapes, CursorsHold
<1>5. PICK h, i, p : msCall[c] \in MsRow(h, i, p)
    BY DEF MsInv, MsShapes, IsCall
<1>6. [msCall[c] EXCEPT !.pc = "pullOps", !.by = n, !.left = S, !.upTo = x] \in MsRow(h, i, p)
    BY ZenonT(60), <1>4, <1>5 DEF MsRow, MsPcs, Writers
<1>7. PICK r \in MsRow(h, i, p) :
          /\ r = [msCall[c] EXCEPT !.pc = "pullOps", !.by = n, !.left = S, !.upTo = x]
          /\ r.pc = "pullOps" /\ r.by = n /\ r.left = S /\ r.upTo = x
    BY <1>5, <1>6 DEF MsRow
<1>8. MsSet(c, r) /\ msCall[c].pc = "idle" /\ UNCHANGED <<opLog, nextSeq, cursor, delivered, gone, late>>
    BY <1>1, <1>a, <1>2, <1>7 DEF PullBegin, MsNew, MsAt, MsHistory
<1>9. msCall' = [d \in MsCalls |-> msCall'[d]] /\ msCall'[c] = r /\ \A d \in MsCalls \ {c} : msCall'[d] = msCall[d]
    BY <1>8, MsOneCall DEF MsInv
<1>10. HandsKeep /\ HistoryGrows
    BY <1>8, <1>9 DEF HandsKeep, HistoryGrows, Holding
<1>11. MsShapes'
    <2>1. \A d \in MsCalls : IsCall(msCall'[d])
        BY <1>7, <1>9 DEF MsInv, MsShapes, IsCall
    <2> QED BY <1>8, <1>9, <2>1 DEF MsInv, MsShapes, IsCall
<1>12. SeenUpTo(n, x) \/ "SHARED" \notin S
    <2>1. SUFFICES ASSUME "SHARED" \in S PROVE SeenUpTo(n, x)
        OBVIOUS
    <2>2. PICK y \in Nat : y = cursor[n]["SHARED"] /\ SeenUpTo(n, y) /\ x <= y
        BY <1>3, <2>1 DEF MsInv, MsShapes, CursorsHold, Scopes
    <2> QED BY <1>4, <2>2 DEF SeenUpTo, MsInv, Numbered
<1>13. PullHolds(r)
    BY <1>4, <1>7, <1>12 DEF PullHolds
<1>14. Numbered' /\ CursorsHold' /\ PullsHold'
    BY <1>7, <1>8, <1>10, <1>13, NumberedOn, CursorsOn, PullOn, OthersPull
<1> QED BY <1>11, <1>14 DEF MsInv

\* A batch holds what there is up to its last entry.
LEMMA Batch ==
    ASSUME MsInv, NEW x \in Nat, NEW S, NEW ops, ops = Since(x, S), NEW to, to = Advanced(x, ops)
    PROVE  /\ to \in Nat /\ (to = x \/ \E o \in opLog : to = o.seq)
           /\ "SHARED" \in S => \A o \in opLog : o.seq <= to => o.seq <= x \/ o \in ops
<1> DEFINE unseen == {o \in opLog : o.seq > x /\ "SHARED" \in S}
<1>1. ops = {o \in unseen : Cardinality({p \in unseen : p.seq < o.seq}) < PULL_BATCH}
    BY DEF Since
<1>2. \A o \in opLog : o.seq \in Nat /\ o.seq < nextSeq
    BY DEF MsInv, Numbered
<1>3. CASE ops = {}
    BY <1>3 DEF Advanced
<1>4. CASE ops # {}
    <2> DEFINE T == {o.seq : o \in ops}
    <2>a. nextSeq \in Nat /\ T # {}
        BY <1>4 DEF MsInv, MsShapes
    <2>b. \A o \in ops : o \in opLog
        BY <1>1
    <2>c. \A o \in ops : o.seq \in 0 .. nextSeq
        BY <1>2, <2>a, <2>b
    <2>1. nextSeq \in Nat /\ T \in SUBSET (0 .. nextSeq) /\ T # {}
        BY <2>a, <2>c
    <2>2. \E q \in T : \A k \in T : k <= q
        BY <2>1, GreatestOf
    <2>3. \E q \in T : \A o \in ops : o.seq <= q
        BY <2>2
    <2>4. to \in T
        BY <1>4, <2>3 DEF Advanced
    <2>5. PICK last \in ops : to = last.seq
        BY <2>4
    <2>6. last \in opLog /\ to \in Nat
        BY <1>1, <1>2, <2>5
    <2>7. ASSUME "SHARED" \in S, NEW o \in opLog, o.seq <= to, ~(o.seq <= x) PROVE o \in ops
        <3>1. o \in unseen
            BY <1>2, <2>7
        <3>2. {p \in unseen : p.seq < o.seq} \subseteq {p \in unseen : p.seq < last.seq}
            BY <1>2, <2>5, <2>6, <2>7
        <3>3. IsFiniteSet(opLog)
            BY DEF MsInv, MsShapes
        <3>4. {p \in unseen : p.seq < last.seq} \subseteq opLog
            OBVIOUS
        <3>5. IsFiniteSet({p \in unseen : p.seq < last.seq})
            BY <3>3, <3>4, FS_Subset
        <3>6. /\ Cardinality({p \in unseen : p.seq < o.seq}) \in Nat
              /\ Cardinality({p \in unseen : p.seq < last.seq}) \in Nat
              /\ Cardinality({p \in unseen : p.seq < o.seq}) <= Cardinality({p \in unseen : p.seq < last.seq})
            BY <3>2, <3>5, FS_Subset, FS_CardinalityType
        <3>7. Cardinality({p \in unseen : p.seq < last.seq}) < PULL_BATCH
            BY <1>1
        <3>8. PULL_BATCH \in Nat
            BY MemorySyncAssumption
        <3> HIDE DEF unseen
        <3>9. Cardinality({p \in unseen : p.seq < o.seq}) < PULL_BATCH
            BY <3>6, <3>7, <3>8
        <3> QED BY <1>1, <3>1, <3>9
    <2> QED BY <2>5, <2>6, <2>7
<1> QED BY <1>3, <1>4

LEMMA PullOpsKeeps ==
    ASSUME MsInv, NEW c \in MsCalls, PullOps(c) PROVE MsInv'
<1>1. PICK h, i, p : msCall[c] \in MsRow(h, i, p)
    BY DEF MsInv, MsShapes, IsCall
<1>a. PICK x \in Nat, S \in SUBSET Scopes : x = msCall[c].upTo /\ S = msCall[c].left
    BY <1>1 DEF MsRow
<1>b. PICK n : n = msCall[c].by
    OBVIOUS
<1>2. x = msCall[c].upTo /\ n = msCall[c].by /\ S = msCall[c].left
    BY <1>a, <1>b
<1>3. PICK ops : ops = Since(x, S)
    OBVIOUS
<1>4. PICK to : to = Advanced(x, ops)
    OBVIOUS
<1>5. /\ to \in Nat /\ (to = x \/ \E o \in opLog : to = o.seq)
      /\ "SHARED" \in S => \A o \in opLog : o.seq <= to => o.seq <= x \/ o \in ops
    BY <1>3, <1>4, Batch
<1>6. [msCall[c] EXCEPT !.pc = "advance", !.ops = ops, !.upTo = to] \in MsRow(h, i, ops)
    BY ZenonT(60), <1>1, <1>5 DEF MsRow, MsPcs
<1>7. PICK r \in MsRow(h, i, ops) :
          /\ r = [msCall[c] EXCEPT !.pc = "advance", !.ops = ops, !.upTo = to]
          /\ r.pc = "advance" /\ r.by = n /\ r.left = S /\ r.upTo = to /\ r.ops = ops
    BY <1>1, <1>2, <1>6 DEF MsRow
<1>8. MsSet(c, r) /\ msCall[c].pc = "pullOps" /\ UNCHANGED <<opLog, nextSeq, cursor, delivered, gone, late>>
    BY <1>2, <1>3, <1>4, <1>7 DEF PullOps, MsAt, MsHistory
<1>9. msCall' = [d \in MsCalls |-> msCall'[d]] /\ msCall'[c] = r /\ \A d \in MsCalls \ {c} : msCall'[d] = msCall[d]
    BY <1>8, MsOneCall DEF MsInv
<1>10. HandsKeep /\ HistoryGrows
    BY <1>8, <1>9 DEF HandsKeep, HistoryGrows, Holding
<1>11. MsShapes'
    <2>1. \A d \in MsCalls : IsCall(msCall'[d])
        BY <1>7, <1>9 DEF MsInv, MsShapes, IsCall
    <2> QED BY <1>8, <1>9, <2>1 DEF MsInv, MsShapes, IsCall
<1>12. n \in MsNodes /\ Reached(x) /\ ("SHARED" \in S => SeenUpTo(n, x))
    BY <1>2, <1>8 DEF MsInv, PullsHold, PullHolds, Pulling
<1>13. Reached(to)'
    <2>1. CASE to = x
        BY <1>8, <1>12, <2>1 DEF Reached
    <2>2. CASE \E o \in opLog : to = o.seq
        BY <1>5, <1>8, <2>2 DEF Reached
    <2> QED BY <1>5, <2>1, <2>2
<1>14. ASSUME "SHARED" \in S PROVE SeenUpTo(n, to)'
    <2>1. SUFFICES ASSUME NEW o \in opLog, o.seq <= to PROVE Seen(n, o.seq)'
        BY <1>8 DEF SeenUpTo
    <2>2. CASE o.seq <= x
        <3>1. Seen(n, o.seq)
            BY <1>12, <1>14, <2>2 DEF SeenUpTo
        <3> QED BY <1>10, <1>12, <3>1, SeenOn
    <2>3. CASE o \in ops
        <3>1. o.seq \in Seqs(ops)
            BY <2>3 DEF Seqs
        <3>2. InHandOf(n, o.seq)'
            BY <1>7, <1>9, <3>1 DEF InHandOf, Holding, Seqs
        <3> QED BY <3>2 DEF Seen
    <2> QED BY <1>5, <1>14, <2>1, <2>2, <2>3
<1>15. PullHolds(r)'
    BY <1>7, <1>12, <1>13, <1>14 DEF PullHolds
<1>16. Numbered' /\ CursorsHold' /\ PullsHold'
    BY <1>7, <1>8, <1>10, <1>15, NumberedOn, CursorsOn, OthersPull
<1> QED BY <1>11, <1>16 DEF MsInv

\* A cursor moves to where the batch ends.
LEMMA AdvanceKeeps ==
    ASSUME MsInv, NEW c \in MsCalls, Advance(c) PROVE MsInv'
<1>1. PICK h, i, p : msCall[c] \in MsRow(h, i, p)
    BY DEF MsInv, MsShapes, IsCall
<1>2. PICK x \in Nat, S \in SUBSET Scopes : x = msCall[c].upTo /\ S = msCall[c].left
    BY <1>1 DEF MsRow
<1>3. msCall[c].pc = "advance" /\ PullHolds(msCall[c])
    BY DEF Advance, MsAt, MsInv, PullsHold
<1>4. PICK n \in MsNodes : n = msCall[c].by
    BY <1>3 DEF PullHolds, Pulling
<1>5. Reached(x) /\ ("SHARED" \in S => SeenUpTo(n, x))
    BY <1>2, <1>3, <1>4 DEF PullHolds
<1>6. PICK s \in S :
          /\ cursor' = [cursor EXCEPT ![n][s] = x]
          /\ MsSet(c, [msCall[c] EXCEPT !.left = S \ {s}, !.pc = IF S = {s} THEN "answer" ELSE "advance"])
    BY <1>1, <1>2, <1>4 DEF Advance, MsRow
<1>7. PICK step \in {"answer", "advance"} : step = IF S = {s} THEN "answer" ELSE "advance"
    OBVIOUS
<1>8. [msCall[c] EXCEPT !.left = S \ {s}, !.pc = step] \in MsRow(h, i, p)
    BY ZenonT(60), <1>1 DEF MsRow, MsPcs
<1>9. PICK r \in MsRow(h, i, p) :
          /\ r = [msCall[c] EXCEPT !.left = S \ {s}, !.pc = step]
          /\ r.pc = step /\ r.by = n /\ r.left = S \ {s} /\ r.upTo = x /\ r.ops = msCall[c].ops
    BY <1>1, <1>2, <1>4, <1>8 DEF MsRow
<1>10. MsSet(c, r) /\ UNCHANGED <<opLog, nextSeq, delivered, gone, late>>
    BY <1>6, <1>7, <1>9 DEF Advance, MsHistory
<1>11. msCall' = [d \in MsCalls |-> msCall'[d]] /\ msCall'[c] = r /\ \A d \in MsCalls \ {c} : msCall'[d] = msCall[d]
    BY <1>10, MsOneCall DEF MsInv
<1>12. HandsKeep /\ HistoryGrows
    <2>1. ASSUME NEW d \in MsCalls, msCall[d].pc \in Holding
          PROVE  msCall'[d].by = msCall[d].by /\ msCall'[d].pc \in Holding /\ msCall'[d].ops = msCall[d].ops
        BY <1>4, <1>9, <1>11, <2>1 DEF Holding
    <2> QED BY <1>10, <2>1 DEF HandsKeep, HistoryGrows
<1>13. cursor' \in [MsNodes -> [Scopes -> Nat]]
    BY <1>6 DEF MsInv, MsShapes
<1>14. MsShapes'
    <2>1. \A d \in MsCalls : IsCall(msCall'[d])
        BY <1>9, <1>11 DEF MsInv, MsShapes, IsCall
    <2> QED BY <1>10, <1>11, <1>13, <2>1 DEF MsInv, MsShapes
<1>15. \A y : Reached(y) => Reached(y)'
    BY <1>10 DEF Reached
<1>16. CursorsHold'
    <2>1. ASSUME NEW w \in MsNodes, NEW z \in Scopes PROVE Reached(cursor[w][z])'
        <3>1. PICK y : y = cursor'[w][z]
            OBVIOUS
        <3>2. y = x \/ y = cursor[w][z]
            BY <1>6, <3>1 DEF MsInv, MsShapes
        <3>3. Reached(y)
            BY <1>5, <3>2 DEF MsInv, CursorsHold
        <3>4. Reached(y)'
            BY <1>15, <3>3
        <3> QED BY <3>1, <3>4 DEF Reached
    <2>2. ASSUME NEW w \in MsNodes PROVE SeenUpTo(w, cursor[w]["SHARED"])'
        <3>1. PICK y : y = cursor'[w]["SHARED"]
            OBVIOUS
        <3>2. y = cursor[w]["SHARED"] \/ (w = n /\ s = "SHARED" /\ y = x)
            BY <1>6, <3>1 DEF MsInv, MsShapes, Scopes
        <3>3. SeenUpTo(w, y)
            BY <1>5, <3>2 DEF MsInv, CursorsHold
        <3>4. SeenUpTo(w, y)'
            BY <1>10, <1>12, <3>3, SeenUpToOn
        <3> QED BY <3>1, <3>4
    <2> QED BY <2>1, <2>2 DEF CursorsHold
<1>17. PullHolds(r)
    BY <1>4, <1>5, <1>9 DEF PullHolds
<1>18. Numbered' /\ PullsHold'
    BY <1>9, <1>10, <1>12, <1>17, NumberedOn, PullOn, OthersPull
<1> QED BY <1>14, <1>16, <1>18 DEF MsInv

\* What a pull holds is given to its node, or lost.
LEMMA AnswerKeeps ==
    ASSUME MsInv, NEW c \in MsCalls, Answer(c) PROVE MsInv'
<1>1. PICK h, i, p : msCall[c] \in MsRow(h, i, p)
    BY DEF MsInv, MsShapes, IsCall
<1>2. msCall[c].pc = "answer" /\ PullHolds(msCall[c]) /\ UNCHANGED <<opLog, nextSeq, cursor, late>>
    BY DEF Answer, MsAt, MsInv, PullsHold
<1>3. PICK n \in MsNodes : n = msCall[c].by
    BY <1>2 DEF PullHolds, Pulling
<1>4. PICK Q : Q = Seqs(msCall[c].ops)
    OBVIOUS
<1>5. \/ delivered' = [delivered EXCEPT ![n] = delivered[n] \union Q] /\ gone' = gone
      \/ gone' = [gone EXCEPT ![n] = gone[n] \union Q] /\ delivered' = delivered
    BY <1>3, <1>4 DEF Answer
<1>6. delivered = [w \in MsNodes |-> delivered[w]] /\ gone = [w \in MsNodes |-> gone[w]]
    BY DEF MsInv, MsShapes
<1>7. delivered' = [w \in MsNodes |-> delivered'[w]] /\ gone' = [w \in MsNodes |-> gone'[w]]
    BY <1>5, <1>6
<1>8. HistoryGrows /\ Q \subseteq delivered'[n] \union gone'[n]
    BY <1>2, <1>5, <1>6 DEF HistoryGrows
<1>9. [msCall[c] EXCEPT !.pc = "done"] \in MsRow(h, i, p)
    BY ZenonT(60), <1>1 DEF MsRow, MsPcs
<1>10. PICK r \in MsRow(h, i, p) : r = [msCall[c] EXCEPT !.pc = "done"] /\ r.pc = "done"
    BY <1>1, <1>9 DEF MsRow
<1>11. MsSet(c, r)
    BY <1>10 DEF Answer, MsGo
<1>12. msCall' = [d \in MsCalls |-> msCall'[d]] /\ msCall'[c] = r /\ \A d \in MsCalls \ {c} : msCall'[d] = msCall[d]
    BY <1>11, MsOneCall DEF MsInv
<1>13. HandsKeep
    BY <1>3, <1>4, <1>8, <1>12 DEF HandsKeep
<1>14. MsShapes'
    <2>a. IsCall(r)
        BY <1>10 DEF IsCall
    <2>1. \A d \in MsCalls : IsCall(msCall'[d])
        BY <1>12, <2>a DEF MsInv, MsShapes
    <2> QED BY <1>2, <1>7, <1>12, <2>1 DEF MsInv, MsShapes
<1>15. PullHolds(r)
    BY <1>10 DEF PullHolds, Pulling
<1>16. Numbered' /\ CursorsHold' /\ PullsHold'
    BY <1>2, <1>8, <1>10, <1>11, <1>13, <1>15, NumberedOn, CursorsOn, PullOn, OthersPull
<1> QED BY <1>14, <1>16 DEF MsInv

LEMMA MsStepHolds == MsInv /\ [MsNext]_msVars => MsInv'
<1> SUFFICES ASSUME MsInv, [MsNext]_msVars PROVE MsInv'
    OBVIOUS
<1>1. CASE UNCHANGED msVars
    <2>1. UNCHANGED <<opLog, nextSeq, cursor, msCall, delivered, gone, late>>
        BY <1>1 DEF msVars
    <2> QED BY <2>1 DEF MsInv, MsShapes, Numbered, CursorsHold, PullsHold, PullHolds, SeenUpTo, Seen, InHandOf,
                        Reached, MsAt
<1>2. ASSUME NEW c \in MsCalls,
             \/ PutBegin(c) \/ PutRead(c) \/ PutWrite(c) \/ ReadBack(c) \/ Draw(c) \/ AppendOp(c)
             \/ ApplyRead(c) \/ Commit(c) \/ ReadCommitted(c)
             \/ PullBegin(c) \/ PullOps(c) \/ Advance(c) \/ Answer(c)
      PROVE  MsInv'
    BY <1>2, PutBeginKeeps, PutReadKeeps, PutWriteKeeps, MsSettleKeeps, DrawKeeps, AppendOpKeeps, ApplyReadKeeps,
       PullBeginKeeps, PullOpsKeeps, AdvanceKeeps, AnswerKeeps
<1> QED BY <1>1, <1>2 DEF MsNext

\* What the cursors, the log and the pulls under way have to do with each other.
THEOREM MsHolds == MsSpec => []MsInv
<1>1. MsInit => MsInv
    BY MsInitHolds
<1>2. MsInv /\ [MsNext]_msVars => MsInv'
    BY MsStepHolds
<1> QED BY <1>1, <1>2, PTL DEF MsSpec

\* pull() and recover(): however the pulls of a node overlap and whatever they
\* bound, its cursor moves past no entry that the node was not given, apart from
\* those whose answer was lost and those that were committed after a later one.
THEOREM NoEntrySkipped == MsSpec => []NothingSkipped
<1>1. MsInv => NothingSkipped
    <2> SUFFICES ASSUME MsInv, NEW n \in MsNodes,
                        \A c \in MsCalls : msCall[c].by = n => msCall[c].pc \notin {"pullOps", "advance", "answer"},
                        NEW o \in opLog, o.seq <= cursor[n]["SHARED"]
                 PROVE  o.seq \in delivered[n] \union gone[n] \union late
        BY DEF NothingSkipped
    <2>1. Seen(n, o.seq)
        BY DEF MsInv, CursorsHold, SeenUpTo
    <2>2. ~InHandOf(n, o.seq)
        BY DEF InHandOf, Holding
    <2> QED BY <2>1, <2>2 DEF Seen
<1> QED BY <1>1, MsHolds, PTL

-----------------------------------------------------------------------------
(* Memory synchronisation: types.                                          *)

\* Of finitely many things that have a number, one has the greatest.
LEMMA GreatestBy ==
    ASSUME NEW S, IsFiniteSet(S), S # {}, NEW f \in [S -> Nat]
    PROVE  \E x \in S : \A y \in S : f[y] <= f[x]
<1> DEFINE above(x) == {y \in S : f[x] <= f[y]}
           up == {above(x) : x \in S}
<1>1. IsWellFoundedOn(StrictSubsetOrdering(S), FiniteSubsetsOf(S))
    BY FS_StrictSubsetOrderingWellFounded
<1>2. up \subseteq FiniteSubsetsOf(S) /\ up # {}
    <2>1. FiniteSubsetsOf(S) = SUBSET S
        BY FS_FiniteSubsetsOfFinite
    <2>2. \A x \in S : above(x) \in SUBSET S
        OBVIOUS
    <2> HIDE DEF above
    <2>3. PICK x \in S : TRUE
        OBVIOUS
    <2>4. above(x) \in up
        OBVIOUS
    <2>5. up \subseteq SUBSET S
        BY <2>2
    <2> QED BY <2>1, <2>4, <2>5
<1> HIDE DEF up
<1>3. PICK d \in up : \A e \in up : <<e, d>> \notin StrictSubsetOrdering(S)
    BY <1>1, <1>2, WFMin
<1>4. PICK x \in S : d = above(x)
    BY <1>3 DEF up
<1>5. ASSUME NEW y \in S, ~(f[y] <= f[x]) PROVE FALSE
    <2>1. above(y) \in up
        BY DEF up
    <2>2. f[x] \in Nat /\ f[y] \in Nat /\ \A z \in S : f[z] \in Nat
        OBVIOUS
    <2>3. above(y) \subseteq above(x) /\ x \in above(x) /\ x \notin above(y)
        BY <1>5, <2>2
    <2>4. above(y) \subseteq S /\ above(x) \subseteq S
        OBVIOUS
    <2> QED BY <1>3, <1>4, <2>1, <2>3, <2>4 DEF StrictSubsetOrdering
<1> QED BY <1>5

\* The largest of a number and of those of finitely many things.
LEMMA LargestIs ==
    ASSUME NEW S, IsFiniteSet(S), NEW f \in [S -> Nat], NEW a \in Nat
    PROVE  LargestOf({a} \union {f[o] : o \in S}) \in {a} \union {f[o] : o \in S}
<1> DEFINE T == {a} \union {f[o] : o \in S}
<1>1. \E x \in T : \A y \in T : y <= x
    <2>1. CASE S = {}
        <3>1. T = {a} BY <2>1
        <3> QED BY <3>1
    <2>2. CASE S # {}
        <3>1. PICK o \in S : \A p \in S : f[p] <= f[o]
            BY <2>2, GreatestBy
        <3>2. f[o] \in Nat /\ f[o] \in T /\ a \in T
            OBVIOUS
        <3>3. CASE a <= f[o]
            <4>1. \A y \in T : y <= f[o]
                BY <3>1, <3>3
            <4> QED BY <3>2, <4>1
        <3>4. CASE ~(a <= f[o])
            <4>1. \A p \in S : f[p] <= a
                <5>1. ASSUME NEW p \in S PROVE f[p] <= a
                    <6>1. f[p] \in Nat /\ f[p] <= f[o] BY <3>1
                    <6> QED BY <3>2, <3>4, <6>1
                <5> QED BY <5>1
            <4>2. \A y \in T : y <= a
                BY <4>1
            <4> QED BY <3>2, <4>2
        <3> QED BY <3>3, <3>4
    <2> QED BY <2>1, <2>2
<1> HIDE DEF T
<1>2. LargestOf(T) \in T
    BY <1>1 DEF LargestOf
<1> QED BY <1>2 DEF T

LEMMA TickIsClock ==
    ASSUME NEW k \in Clock, NEW w \in Writers, k[w] < MaxClock PROVE TickOf(k, w) \in Clock
<1>1. k[w] + 1 \in 0 .. MaxClock
    BY MemorySyncAssumption DEF Clock
<1>2. \A v \in Writers : k[v] \in 0 .. MaxClock
    BY DEF Clock
<1> QED BY <1>1, <1>2 DEF TickOf, Clock

LEMMA MergeIsClock == ASSUME NEW j \in Clock, NEW k \in Clock PROVE MergeOf(j, k) \in Clock
<1>1. \A w \in Writers : j[w] \in 0 .. MaxClock /\ k[w] \in 0 .. MaxClock
    BY DEF Clock
<1>2. \A w \in Writers : (IF j[w] > k[w] THEN j[w] ELSE k[w]) \in 0 .. MaxClock
    BY <1>1
<1> QED BY <1>2 DEF MergeOf, Clock

LEMMA BlankRows == NoShard \in ShardRow /\ Nothing \in Write /\ Zero \in Clock
<1>1. Zero \in Clock
    BY MemorySyncAssumption DEF Zero, Clock
<1>2. 0 \in 0 .. MaxMsCalls
    BY MemorySyncAssumption
<1> QED BY <1>1, <1>2 DEF NoShard, Nothing, ShardRow, Write, Version, NoWrite

\* A call, and the entries it has.
MsTyped(m, log) == m.by \in Writers /\ m.held \in ShardRow /\ m.in \in Write /\ m.ops \subseteq log
MsTypes ==
    /\ shard \in ShardRow /\ \A o \in opLog : o \in Entry
    /\ known \in [MsNodes -> [version : Version, clock : Clock]] /\ sent \in [MsNodes -> Write]
    /\ \A c \in MsCalls : MsTyped(msCall[c], opLog)
    /\ \A n \in MsNodes : delivered[n] \subseteq Nat /\ gone[n] \subseteq Nat
    /\ late \subseteq Nat

LEMMA MsTypesInit == MsInit => MsTypes
<1> SUFFICES ASSUME MsInit PROVE MsTypes
    OBVIOUS
<1>1. \A c \in MsCalls : MsTyped(msCall[c], opLog)
    BY BlankRows DEF MsInit, MsTyped, Writers
<1>2. known \in [MsNodes -> [version : Version, clock : Clock]] /\ sent \in [MsNodes -> Write]
    BY BlankRows DEF MsInit, Version
<1> QED BY <1>1, <1>2, BlankRows DEF MsInit, MsTypes

LEMMA OneTyped ==
    ASSUME MsInv, MsTypes, NEW c \in MsCalls, NEW r, MsSet(c, r), MsTyped(r, opLog'), opLog \subseteq opLog'
    PROVE  \A d \in MsCalls : MsTyped(msCall'[d], opLog')
<1>1. msCall'[c] = r /\ \A d \in MsCalls \ {c} : msCall'[d] = msCall[d]
    BY MsOneCall DEF MsInv
<1>2. \A d \in MsCalls : MsTyped(msCall[d], opLog')
    BY DEF MsTypes, MsTyped
<1> QED BY <1>1, <1>2

\* A call moves, and may write the row.
LEMMA MsRowStep ==
    ASSUME MsInv, MsTypes, NEW c \in MsCalls, NEW r, MsSet(c, r), MsTyped(r, opLog), shard' \in ShardRow,
           UNCHANGED <<opLog, known, sent, delivered, gone, late>>
    PROVE  MsTypes'
<1>1. \A d \in MsCalls : MsTyped(msCall'[d], opLog')
    BY OneTyped
<1> QED BY <1>1 DEF MsTypes

LEMMA MsGoTypes ==
    ASSUME MsInv, MsTypes, NEW c \in MsCalls, NEW step, MsGo(c, step), shard' \in ShardRow,
           UNCHANGED <<opLog, known, sent, delivered, gone, late>>
    PROVE  MsTypes'
<1>1. PICK h, i, p : msCall[c] \in MsRow(h, i, p)
    BY DEF MsInv, MsShapes, IsCall
<1>2. MsTyped(msCall[c], opLog)
    BY DEF MsTypes
<1>3. PICK r : r = [msCall[c] EXCEPT !.pc = step]
    OBVIOUS
<1>4. r.by = msCall[c].by /\ r.held = msCall[c].held /\ r.in = msCall[c].in /\ r.ops = msCall[c].ops
    BY <1>1, <1>3 DEF MsRow
<1>5. MsTyped(r, opLog)
    BY <1>2, <1>4 DEF MsTyped
<1> QED BY <1>3, <1>5, MsRowStep DEF MsGo

LEMMA PutBeginTypes == ASSUME MsInv, MsTypes, NEW c \in MsCalls, PutBegin(c) PROVE MsTypes'
<1>1. PICK w \in Writers :
          MsSet(c, [msCall[c] EXCEPT !.pc = "putWrite", !.by = w, !.held = shard, !.in.value = c])
    BY DEF PutBegin
<1>2. PICK h, i, p : msCall[c] \in MsRow(h, i, p)
    BY DEF MsInv, MsShapes, IsCall
<1>3. PICK r : r = [msCall[c] EXCEPT !.pc = "putWrite", !.by = w, !.held = shard, !.in.value = c]
    OBVIOUS
<1>4. r.by = w /\ r.held = shard /\ r.in = [msCall[c].in EXCEPT !.value = c] /\ r.ops = msCall[c].ops
    BY <1>2, <1>3 DEF MsRow
<1>5. msCall[c].in \in Write /\ msCall[c].ops \subseteq opLog /\ shard \in ShardRow
    BY DEF MsTypes, MsTyped
<1>6. c \in 0 .. MaxMsCalls
    BY MemorySyncAssumption DEF MsCalls
<1>7. r.in \in Write
    BY <1>4, <1>5, <1>6 DEF Write
<1>8. MsTyped(r, opLog)
    BY <1>4, <1>5, <1>7 DEF MsTyped
<1>9. shard' = shard /\ UNCHANGED <<opLog, known, sent, delivered, gone, late>>
    BY DEF PutBegin, MsHistory
<1> QED BY <1>1, <1>3, <1>5, <1>8, <1>9, MsRowStep

LEMMA PutReadTypes == ASSUME MsInv, MsTypes, NEW c \in MsCalls, PutRead(c) PROVE MsTypes'
<1>2. PICK h, i, p : msCall[c] \in MsRow(h, i, p)
    BY DEF MsInv, MsShapes, IsCall
<1>3. PICK r : r = [msCall[c] EXCEPT !.pc = "putWrite", !.held = shard]
    OBVIOUS
<1>4. r.by = msCall[c].by /\ r.held = shard /\ r.in = msCall[c].in /\ r.ops = msCall[c].ops
    BY <1>2, <1>3 DEF MsRow
<1>5. MsTyped(msCall[c], opLog) /\ shard \in ShardRow
    BY DEF MsTypes
<1>8. MsTyped(r, opLog)
    BY <1>4, <1>5 DEF MsTyped
<1>9. shard' = shard /\ UNCHANGED <<opLog, known, sent, delivered, gone, late>> /\ MsSet(c, r)
    BY <1>3 DEF PutRead, MsHistory
<1> QED BY <1>5, <1>8, <1>9, MsRowStep

LEMMA PutWriteTypes == ASSUME MsInv, MsTypes, NEW c \in MsCalls, PutWrite(c) PROVE MsTypes'
<1> DEFINE m == msCall[c]
<1>1. UNCHANGED <<opLog, known, sent, delivered, gone, late>>
    BY DEF PutWrite, MsHistory
<1>2. m.by \in Writers /\ m.held \in ShardRow /\ m.in \in Write /\ m.ops \subseteq opLog /\ shard \in ShardRow
    BY DEF MsTypes, MsTyped
<1>3. CASE MsGo(c, "thrown") /\ UNCHANGED shard
    BY <1>1, <1>2, <1>3, MsGoTypes
<1>4. CASE /\ shard' = [exists |-> TRUE, value |-> m.in.value, version |-> m.held.version + 1,
                        clock |-> TickOf(m.held.clock, m.by), deleted |-> FALSE]
           /\ MsSet(c, [m EXCEPT !.pc = IF m.held.exists THEN "readBack" ELSE "draw",
                                 !.in.version = m.held.version + 1,
                                 !.in.clock = TickOf(m.held.clock, m.by)])
    <2>1. PICK v \in Version : v = m.held.version + 1
        BY <1>2 DEF ShardRow, Version
    <2>2. m.held.clock \in Clock /\ m.held.clock[m.by] < MaxClock
        BY <1>2 DEF ShardRow, PutWrite
    <2>3. PICK k \in Clock : k = TickOf(m.held.clock, m.by)
        BY <1>2, <2>2, TickIsClock
    <2>4. shard' \in ShardRow
        BY <1>2, <1>4, <2>1, <2>3 DEF ShardRow, Write
    <2>5. PICK h, i, p : m \in MsRow(h, i, p)
        BY DEF MsInv, MsShapes, IsCall
    <2>6. PICK r : r = [m EXCEPT !.pc = IF m.held.exists THEN "readBack" ELSE "draw", !.in.version = v, !.in.clock = k]
        OBVIOUS
    <2>7. MsSet(c, r)
        BY <1>4, <2>1, <2>3, <2>6
    <2> HIDE DEF m
    <2>8. r.by = m.by /\ r.held = m.held /\ r.ops = m.ops /\ r.in = [m.in EXCEPT !.version = v, !.clock = k]
        BY <2>5, <2>6 DEF MsRow
    <2>9. r.in \in Write
        BY <1>2, <2>8 DEF Write
    <2>10. MsTyped(r, opLog)
        BY <1>2, <2>8, <2>9 DEF MsTyped
    <2> QED BY <1>1, <2>4, <2>7, <2>10, MsRowStep
<1> QED BY <1>3, <1>4 DEF PutWrite

LEMMA SettleTypes ==
    ASSUME MsInv, MsTypes, NEW c \in MsCalls, ReadBack(c) \/ Commit(c) \/ ReadCommitted(c) PROVE MsTypes'
<1> DEFINE m == msCall[c]
<1>1. UNCHANGED <<opLog, known, sent, delivered, gone, late>>
    BY DEF ReadBack, Commit, ReadCommitted, MsHistory
<1>2. m.held \in ShardRow /\ m.in \in Write /\ shard \in ShardRow
    BY DEF MsTypes, MsTyped
<1>3. CASE shard' = shard
    <2>1. PICK step : MsGo(c, step)
        BY DEF ReadBack, Commit, ReadCommitted
    <2> QED BY <1>1, <1>2, <1>3, <2>1, MsGoTypes
<1>4. CASE shard' = Committed(c) /\ MsGo(c, "readCommitted")
    <2> DEFINE clock == IF m.status = "CONFLICT" THEN MergeOf(m.held.clock, m.in.clock) ELSE m.in.clock
    <2>1. clock \in Clock
        BY <1>2, MergeIsClock DEF ShardRow, Write
    <2>2. PICK k \in Clock : k = clock
        BY <2>1
    <2>3. PICK v \in Version : v = LargerOf(m.held.version, m.in.version)
        BY <1>2 DEF ShardRow, Write, Version, LargerOf
    <2>4. PICK d \in BOOLEAN : d = (m.in.op = "DELETE")
        OBVIOUS
    <2>5. PICK x \in 0 .. MaxMsCalls : x = IF m.in.op = "PUT" THEN m.in.value ELSE shard.value
        BY <1>2 DEF ShardRow, Write
    <2>6. Committed(c) = [shard EXCEPT !.clock = k] \/ Committed(c) = [shard EXCEPT !.version = v, !.clock = k, !.value = x, !.deleted = d]
        BY <2>2, <2>3, <2>4, <2>5 DEF Committed
    <2>7. [shard EXCEPT !.clock = k] \in ShardRow
        BY <1>2 DEF ShardRow
    <2>8. [shard EXCEPT !.version = v, !.clock = k, !.value = x, !.deleted = d] \in ShardRow
        BY <1>2 DEF ShardRow
    <2>9. shard' \in ShardRow
        BY <1>4, <2>6, <2>7, <2>8
    <2> QED BY <1>1, <1>4, <2>9, MsGoTypes
<1> QED BY <1>3, <1>4 DEF ReadBack, Commit, ReadCommitted

\* A call keeps its writer, what it found and what it writes.
LEMMA MsKeepTypes ==
    ASSUME MsInv, MsTypes, NEW c \in MsCalls, NEW r, MsSet(c, r),
           r.by = msCall[c].by /\ r.held = msCall[c].held /\ r.in = msCall[c].in, r.ops \subseteq opLog,
           UNCHANGED <<shard, opLog, known, sent, delivered, gone, late>>
    PROVE  MsTypes'
<1>1. MsTyped(msCall[c], opLog) /\ shard \in ShardRow
    BY DEF MsTypes
<1>2. MsTyped(r, opLog)
    BY <1>1 DEF MsTyped
<1> QED BY <1>1, <1>2, MsRowStep

LEMMA DrawTypes == ASSUME MsInv, MsTypes, NEW c \in MsCalls, Draw(c) PROVE MsTypes'
<1>1. PICK h, i, p : msCall[c] \in MsRow(h, i, p)
    BY DEF MsInv, MsShapes, IsCall
<1>2. PICK r : r = [msCall[c] EXCEPT !.pc = "append", !.seq = nextSeq]
    OBVIOUS
<1>3. r.by = msCall[c].by /\ r.held = msCall[c].held /\ r.in = msCall[c].in /\ r.ops = msCall[c].ops
    BY <1>1, <1>2 DEF MsRow
<1>4. msCall[c].ops \subseteq opLog
    BY DEF MsTypes, MsTyped
<1>5. MsSet(c, r) /\ UNCHANGED <<shard, opLog, known, sent, delivered, gone, late>>
    BY <1>2 DEF Draw, MsHistory
<1> QED BY <1>3, <1>4, <1>5, MsKeepTypes

LEMMA AppendOpTypes == ASSUME MsInv, MsTypes, NEW c \in MsCalls, AppendOp(c) PROVE MsTypes'
<1> DEFINE m == msCall[c]
           o == [seq |-> m.seq, write |-> m.in, status |-> m.status]
<1>1. PICK h, i, p : m \in MsRow(h, i, p)
    BY DEF MsInv, MsShapes, IsCall
<1>2. MsTyped(m, opLog) /\ shard \in ShardRow
    BY DEF MsTypes
<1>3. o \in Entry
    BY <1>1, <1>2 DEF MsRow, MsTyped, Entry
<1>4. PICK step : MsGo(c, step)
    BY DEF AppendOp
<1>5. PICK r : r = [m EXCEPT !.pc = step]
    OBVIOUS
<1>6. r.by = m.by /\ r.held = m.held /\ r.in = m.in /\ r.ops = m.ops
    BY <1>1, <1>5 DEF MsRow
<1>7. opLog' = opLog \union {o} /\ UNCHANGED <<shard, known, sent, delivered, gone>>
    BY DEF AppendOp
<1>8. MsSet(c, r) /\ MsTyped(r, opLog')
    BY <1>2, <1>4, <1>5, <1>6, <1>7 DEF MsGo, MsTyped
<1>9. \A d \in MsCalls : MsTyped(msCall'[d], opLog')
    BY <1>7, <1>8, OneTyped
<1>10. late' \subseteq Nat
    BY <1>1 DEF AppendOp, MsTypes, MsRow
<1>11. \A e \in opLog' : e \in Entry
    BY <1>3, <1>7 DEF MsTypes
<1> QED BY <1>7, <1>9, <1>10, <1>11 DEF MsTypes

LEMMA IncomingTypes ==
    ASSUME MsTypes, NEW n \in MsNodes, NEW i \in Incoming(n) PROVE i \in Write
<1>1. sent[n] \in Write /\ known[n].version \in Nat /\ known[n].clock \in Clock /\ n \in Writers
    BY DEF MsTypes, Version, Writers
<1>2. CASE i = sent[n]
    BY <1>1, <1>2
<1>3. ASSUME NEW o \in {"PUT", "DELETE"}, known[n].clock[n] < MaxClock,
             i = [op |-> o, value |-> NoWrite, version |-> known[n].version + 1, clock |-> TickOf(known[n].clock, n)]
      PROVE  i \in Write
    <2>1. PICK k \in Clock : k = TickOf(known[n].clock, n)
        BY <1>1, <1>3, TickIsClock
    <2>2. PICK v \in Version : v = known[n].version + 1
        BY <1>1 DEF Version
    <2>3. NoWrite \in 0 .. MaxMsCalls
        BY MemorySyncAssumption DEF NoWrite
    <2> QED BY <1>3, <2>1, <2>2, <2>3 DEF Write
<1> QED BY <1>2, <1>3 DEF Incoming

LEMMA ApplyReadTypes == ASSUME MsInv, MsTypes, NEW c \in MsCalls, ApplyRead(c) PROVE MsTypes'
<1>1. PICK n \in MsNodes : \E i \in Incoming(n) :
          LET in == IF i.value = NoWrite THEN [i EXCEPT !.value = c] ELSE i IN
          /\ sent' = [sent EXCEPT ![n] = in]
          /\ known' = [known EXCEPT ![n] = [version |-> LargerOf(@.version, in.version),
                                            clock |-> MergeOf(@.clock, in.clock)]]
          /\ \E v \in Resolved(in, shard) :
                MsSet(c, [msCall[c] EXCEPT
                    !.by = n, !.held = shard, !.in = in, !.won = v # "lost",
                    !.status = CASE v = "behind" -> "SUPERSEDED" [] v \in {"won", "lost"} -> "CONFLICT"
                                 [] OTHER -> "APPLIED",
                    !.pc = CASE v = "none" -> "done" [] v = "new" -> "putRead"
                             [] v = "forward" -> "commit" [] OTHER -> "draw"])
    BY DEF ApplyRead
<1>2. PICK i \in Incoming(n) :
          LET in == IF i.value = NoWrite THEN [i EXCEPT !.value = c] ELSE i IN
          /\ sent' = [sent EXCEPT ![n] = in]
          /\ known' = [known EXCEPT ![n] = [version |-> LargerOf(@.version, in.version),
                                            clock |-> MergeOf(@.clock, in.clock)]]
          /\ \E v \in Resolved(in, shard) :
                MsSet(c, [msCall[c] EXCEPT
                    !.by = n, !.held = shard, !.in = in, !.won = v # "lost",
                    !.status = CASE v = "behind" -> "SUPERSEDED" [] v \in {"won", "lost"} -> "CONFLICT"
                                 [] OTHER -> "APPLIED",
                    !.pc = CASE v = "none" -> "done" [] v = "new" -> "putRead"
                             [] v = "forward" -> "commit" [] OTHER -> "draw"])
    BY <1>1
<1>3. i \in Write /\ c \in 0 .. MaxMsCalls
    BY IncomingTypes, MemorySyncAssumption DEF MsCalls
<1>4. PICK in \in Write : in = IF i.value = NoWrite THEN [i EXCEPT !.value = c] ELSE i
    BY <1>3 DEF Write
<1>5. /\ sent' = [sent EXCEPT ![n] = in]
      /\ known' = [known EXCEPT ![n] = [version |-> LargerOf(known[n].version, in.version),
                                        clock |-> MergeOf(known[n].clock, in.clock)]]
    BY <1>2, <1>4
<1>6. \E won, status, step :
          MsSet(c, [msCall[c] EXCEPT !.by = n, !.held = shard, !.in = in, !.won = won, !.status = status, !.pc = step])
    BY <1>2, <1>4
<1>7. PICK won, status, step :
          MsSet(c, [msCall[c] EXCEPT !.by = n, !.held = shard, !.in = in, !.won = won, !.status = status, !.pc = step])
    BY <1>6
<1>8. PICK h, j, p : msCall[c] \in MsRow(h, j, p)
    BY DEF MsInv, MsShapes, IsCall
<1>9. PICK r : r = [msCall[c] EXCEPT !.by = n, !.held = shard, !.in = in, !.won = won, !.status = status, !.pc = step]
    OBVIOUS
<1>10. r.by = n /\ r.held = shard /\ r.in = in /\ r.ops = msCall[c].ops
    BY <1>8, <1>9 DEF MsRow
<1>11. n \in Writers /\ shard \in ShardRow /\ msCall[c].ops \subseteq opLog
       /\ known[n].version \in Version /\ known[n].clock \in Clock /\ in.version \in Version /\ in.clock \in Clock
    BY DEF MsTypes, MsTyped, Writers, Write
<1>12. MsTyped(r, opLog)
    BY <1>10, <1>11 DEF MsTyped
<1>13. MsSet(c, r) /\ UNCHANGED <<shard, opLog, delivered, gone, late>>
    BY <1>7, <1>9 DEF ApplyRead, MsHistory
<1>14. \A d \in MsCalls : MsTyped(msCall'[d], opLog')
    BY <1>12, <1>13, OneTyped
<1>15. [version |-> LargerOf(known[n].version, in.version), clock |-> MergeOf(known[n].clock, in.clock)]
           \in [version : Version, clock : Clock]
    <2>1. LargerOf(known[n].version, in.version) \in Version
        BY <1>11 DEF LargerOf
    <2>2. MergeOf(known[n].clock, in.clock) \in Clock
        BY <1>11, MergeIsClock
    <2> QED BY <2>1, <2>2
<1>16. known' \in [MsNodes -> [version : Version, clock : Clock]] /\ sent' \in [MsNodes -> Write]
    <2>1. known \in [MsNodes -> [version : Version, clock : Clock]] /\ sent \in [MsNodes -> Write]
        BY DEF MsTypes
    <2> QED BY <1>5, <1>15, <2>1
<1> QED BY <1>13, <1>14, <1>16 DEF MsTypes

LEMMA PullTypes ==
    ASSUME MsInv, MsTypes, NEW c \in MsCalls, PullBegin(c) \/ PullOps(c) \/ Advance(c) PROVE MsTypes'
<1>1. PICK h, i, p : msCall[c] \in MsRow(h, i, p)
    BY DEF MsInv, MsShapes, IsCall
<1>2. MsTyped(msCall[c], opLog) /\ shard \in ShardRow
    BY DEF MsTypes
<1>3. UNCHANGED <<shard, opLog, known, sent, delivered, gone, late>>
    BY DEF PullBegin, PullOps, Advance, MsHistory
<1>4. CASE PullBegin(c)
    <2>1. PICK n \in MsNodes, S \in (SUBSET Scopes) \ {{}} :
              MsSet(c, [msCall[c] EXCEPT !.pc = "pullOps", !.by = n, !.left = S,
                                         !.upTo = SmallestOf({cursor[n][s] : s \in S})])
        BY <1>4 DEF PullBegin
    <2>2. PICK r : r = [msCall[c] EXCEPT !.pc = "pullOps", !.by = n, !.left = S,
                                         !.upTo = SmallestOf({cursor[n][s] : s \in S})]
        OBVIOUS
    <2>3. r.by = n /\ r.held = msCall[c].held /\ r.in = msCall[c].in /\ r.ops = msCall[c].ops
        BY <1>1, <2>2 DEF MsRow
    <2>4. MsTyped(r, opLog)
        BY <1>2, <2>3 DEF MsTyped, Writers
    <2> QED BY <1>2, <1>3, <2>1, <2>2, <2>4, MsRowStep
<1>5. CASE PullOps(c)
    <2>1. PICK ops, to : ops = Since(msCall[c].upTo, msCall[c].left) /\ to = Advanced(msCall[c].upTo, ops)
        OBVIOUS
    <2>2. PICK r : r = [msCall[c] EXCEPT !.pc = "advance", !.ops = ops, !.upTo = to]
        OBVIOUS
    <2>3. MsSet(c, r)
        BY <1>5, <2>1, <2>2 DEF PullOps
    <2>4. r.by = msCall[c].by /\ r.held = msCall[c].held /\ r.in = msCall[c].in /\ r.ops = ops
        BY <1>1, <2>2 DEF MsRow
    <2>5. ops \subseteq opLog
        BY <2>1 DEF Since
    <2> QED BY <1>3, <2>3, <2>4, <2>5, MsKeepTypes
<1>6. CASE Advance(c)
    <2>1. PICK s \in msCall[c].left :
              MsSet(c, [msCall[c] EXCEPT !.left = @ \ {s}, !.pc = IF msCall[c].left = {s} THEN "answer" ELSE "advance"])
        BY <1>6 DEF Advance
    <2>2. PICK r : r = [msCall[c] EXCEPT !.left = @ \ {s}, !.pc = IF msCall[c].left = {s} THEN "answer" ELSE "advance"]
        OBVIOUS
    <2>3. r.by = msCall[c].by /\ r.held = msCall[c].held /\ r.in = msCall[c].in /\ r.ops = msCall[c].ops
        BY <1>1, <2>2 DEF MsRow
    <2> QED BY <1>2, <1>3, <2>1, <2>2, <2>3, MsKeepTypes DEF MsTyped
<1> QED BY <1>4, <1>5, <1>6

LEMMA AnswerTypes == ASSUME MsInv, MsTypes, NEW c \in MsCalls, Answer(c) PROVE MsTypes'
<1> DEFINE m == msCall[c]
<1>1. PICK h, i, p : m \in MsRow(h, i, p)
    BY DEF MsInv, MsShapes, IsCall
<1>2. MsTyped(m, opLog) /\ shard \in ShardRow
    BY DEF MsTypes
<1>3. PICK n \in MsNodes : n = m.by
    BY DEF Answer, MsAt, MsInv, PullsHold, PullHolds, Pulling
<1>4. MsGo(c, "done") /\ UNCHANGED <<shard, opLog, sent, late>>
    BY DEF Answer
<1>5. PICK r : r = [m EXCEPT !.pc = "done"]
    OBVIOUS
<1>6. r.by = m.by /\ r.held = m.held /\ r.in = m.in /\ r.ops = m.ops
    BY <1>1, <1>5 DEF MsRow
<1>7. MsSet(c, r) /\ MsTyped(r, opLog')
    BY <1>2, <1>4, <1>5, <1>6 DEF MsGo, MsTyped
<1>8. \A d \in MsCalls : MsTyped(msCall'[d], opLog')
    BY <1>4, <1>7, OneTyped
<1>9. PICK ops : ops = m.ops /\ ops \subseteq opLog /\ IsFiniteSet(ops)
    BY <1>2, FS_Subset DEF MsTyped, MsInv, MsShapes
<1>10. \A o \in ops : o \in Entry /\ o.seq \in Nat /\ o.write.version \in Nat /\ o.write.clock \in Clock
    BY <1>9 DEF MsTypes, Entry, Write, Version
<1>11. Seqs(ops) \subseteq Nat
    BY <1>10 DEF Seqs
<1>12. known \in [MsNodes -> [version : Version, clock : Clock]]
    BY DEF MsTypes
<1> HIDE DEF m
<1>13. CASE /\ delivered' = [delivered EXCEPT ![n] = @ \union Seqs(ops)]
            /\ known' = [known EXCEPT ![n] =
                 [version |-> LargestOf({known[n].version} \union {o.write.version : o \in ops}),
                  clock |-> [w \in Writers |-> LargestOf({known[n].clock[w]} \union {o.write.clock[w] : o \in ops})]]]
            /\ UNCHANGED gone
    <2>1. known[n].version \in Nat /\ known[n].clock \in Clock
        BY <1>12 DEF Version
    <2>2. LargestOf({known[n].version} \union {o.write.version : o \in ops}) \in Version
        <3> DEFINE f == [o \in ops |-> o.write.version]
                   T == {known[n].version} \union {f[o] : o \in ops}
        <3>1. f \in [ops -> Nat]
            BY <1>10
        <3>2. T = {known[n].version} \union {o.write.version : o \in ops} /\ T \subseteq Nat
            BY <1>10, <2>1
        <3> HIDE DEF f
        <3>3. LargestOf(T) \in T
            BY <1>9, <2>1, <3>1, LargestIs
        <3> HIDE DEF T
        <3> QED BY <3>2, <3>3 DEF Version
    <2>3. ASSUME NEW w \in Writers
          PROVE  LargestOf({known[n].clock[w]} \union {o.write.clock[w] : o \in ops}) \in 0 .. MaxClock
        <3> DEFINE f == [o \in ops |-> o.write.clock[w]]
                   T == {known[n].clock[w]} \union {f[o] : o \in ops}
        <3>1. known[n].clock[w] \in 0 .. MaxClock /\ \A o \in ops : o.write.clock[w] \in 0 .. MaxClock
            BY <1>10, <2>1 DEF Clock
        <3>2. f \in [ops -> Nat] /\ known[n].clock[w] \in Nat
            BY <3>1
        <3>3. T = {known[n].clock[w]} \union {o.write.clock[w] : o \in ops} /\ T \subseteq 0 .. MaxClock
            BY <3>1
        <3> HIDE DEF f
        <3>4. LargestOf(T) \in T
            BY <1>9, <3>2, LargestIs
        <3> HIDE DEF T
        <3> QED BY <3>3, <3>4
    <2>4. PICK v \in Version : v = LargestOf({known[n].version} \union {o.write.version : o \in ops})
        BY <2>2
    <2>5. PICK k \in Clock : k = [w \in Writers |-> LargestOf({known[n].clock[w]} \union {o.write.clock[w] : o \in ops})]
        BY <2>3 DEF Clock
    <2>6. known' = [known EXCEPT ![n] = [version |-> v, clock |-> k]]
        BY <1>13, <2>4, <2>5
    <2>7. known' \in [MsNodes -> [version : Version, clock : Clock]]
        BY <1>12, <2>6
    <2>8. \A a \in MsNodes : delivered'[a] \subseteq Nat /\ gone'[a] \subseteq Nat
        BY <1>11, <1>13 DEF MsTypes, MsInv, MsShapes
    <2> QED BY <1>4, <1>8, <2>7, <2>8 DEF MsTypes
<1>14. CASE gone' = [gone EXCEPT ![n] = @ \union Seqs(ops)] /\ UNCHANGED <<delivered, known>>
    <2>1. \A a \in MsNodes : delivered'[a] \subseteq Nat /\ gone'[a] \subseteq Nat
        BY <1>11, <1>14 DEF MsTypes, MsInv, MsShapes
    <2> QED BY <1>4, <1>8, <1>14, <2>1 DEF MsTypes
<1> QED BY <1>3, <1>9, <1>13, <1>14 DEF Answer, m

LEMMA MsTypesStep == MsInv /\ MsTypes /\ [MsNext]_msVars => MsTypes'
<1> SUFFICES ASSUME MsInv, MsTypes, [MsNext]_msVars PROVE MsTypes'
    OBVIOUS
<1>1. CASE UNCHANGED msVars
    BY <1>1 DEF msVars, MsTypes
<1>2. ASSUME NEW c \in MsCalls,
             \/ PutBegin(c) \/ PutRead(c) \/ PutWrite(c) \/ ReadBack(c) \/ Draw(c) \/ AppendOp(c)
             \/ ApplyRead(c) \/ Commit(c) \/ ReadCommitted(c)
             \/ PullBegin(c) \/ PullOps(c) \/ Advance(c) \/ Answer(c)
      PROVE  MsTypes'
    BY <1>2, PutBeginTypes, PutReadTypes, PutWriteTypes, SettleTypes, DrawTypes, AppendOpTypes, ApplyReadTypes,
       PullTypes, AnswerTypes
<1> QED BY <1>1, <1>2 DEF MsNext

LEMMA MsTypesAlways == MsSpec => [](MsInv /\ MsTypes)
<1> QED BY MsInitHolds, MsTypesInit, MsStepHolds, MsTypesStep, PTL DEF MsSpec

\* The row, the log, cursors and calls are of their types; the clocks of every
\* writer stay within the bound.
THEOREM MemorySyncTypeCorrect == MsSpec => []MsTypeOK
<1>1. MsInv /\ MsTypes => MsTypeOK
  <2> SUFFICES ASSUME MsInv, MsTypes PROVE MsTypeOK
      OBVIOUS
  <2>1. nextSeq \in Nat /\ cursor \in [MsNodes -> [Scopes -> Nat]]
      BY DEF MsInv, MsShapes
  <2>2. ASSUME NEW c \in MsCalls PROVE msCall[c].pc \in MsPcs /\ MsTyped(msCall[c], opLog)
      BY DEF MsInv, MsShapes, IsCall, MsRow, MsTypes
  <2> QED BY <2>1, <2>2 DEF MsTypes, MsTypeOK, MsPcs, MsTyped
<1> QED BY <1>1, MsTypesAlways, PTL

-----------------------------------------------------------------------------
(* Backups: sums over the rows.                                            *)

LEMMA SmallestOfThese ==
    ASSUME NEW n \in Nat, NEW T \in SUBSET (0 .. n), T # {}
    PROVE  \E m \in T : \A k \in T : m <= k
<1> DEFINE back == {n - k : k \in T}
<1>1. back \in SUBSET (0 .. n) /\ back # {}
    <2>1. \A k \in T : n - k \in 0 .. n
        OBVIOUS
    <2>2. PICK k \in T : TRUE
        OBVIOUS
    <2>3. n - k \in back
        OBVIOUS
    <2>4. back \subseteq 0 .. n
        BY <2>1
    <2> QED BY <2>3, <2>4
<1> HIDE DEF back
<1>2. PICK q \in back : \A k \in back : k <= q
    BY <1>1, GreatestOf
<1>3. PICK m \in T : q = n - m
    BY <1>2 DEF back
<1>4. ASSUME NEW k \in T PROVE m <= k
    <2>1. n - k \in back
        BY DEF back
    <2>2. n - k <= n - m
        BY <1>2, <1>3, <2>1
    <2> QED BY <2>2
<1> QED BY <1>4

\* A sum to be taken row by row.
SumsTo(f, w) ==
    f = [n \in 0 .. MaxBackups |-> IF n = 0 THEN 0 ELSE f[n - 1] + w[n]]

LEMMA SumExists ==
    ASSUME NEW w \in [Bks -> Nat]
    PROVE  \E f \in [0 .. MaxBackups -> Nat] : SumsTo(f, w)
<1> DEFINE Part(n, f) == f \in [0 .. n -> Nat] /\ f[0] = 0 /\ \A k \in 1 .. n : f[k] = f[k - 1] + w[k]
           bad == {n \in 0 .. MaxBackups : ~ \E f : Part(n, f)}
<1>m. MaxBackups \in Nat
    BY BackupsAssumption
<1>1. bad = {}
  <2> SUFFICES ASSUME bad # {} PROVE FALSE
      OBVIOUS
  <2>1. PICK n \in bad : \A k \in bad : n <= k
      <3>1. bad \in SUBSET (0 .. MaxBackups)
          OBVIOUS
      <3> HIDE DEF bad
      <3> QED BY <1>m, <3>1, SmallestOfThese
  <2>2. n # 0
      <3>1. Part(0, [k \in 0 .. 0 |-> 0])
          OBVIOUS
      <3> QED BY <3>1
  <2>3. n \in 1 .. MaxBackups /\ n - 1 \in 0 .. MaxBackups /\ n - 1 \notin bad
      <3>1. n \in 0 .. MaxBackups
          OBVIOUS
      <3>2. n \in 1 .. MaxBackups /\ n - 1 \in 0 .. MaxBackups /\ ~(n <= n - 1)
          BY <1>m, <2>2, <3>1
      <3> HIDE DEF bad
      <3> QED BY <2>1, <3>2
  <2>4. PICK f : Part(n - 1, f)
      BY <2>3
  <2> DEFINE g == [k \in 0 .. n |-> IF k = n THEN f[n - 1] + w[n] ELSE f[k]]
  <2>5. w[n] \in Nat /\ f[n - 1] \in Nat
      BY <1>m, <2>3, <2>4 DEF Bks
  <2>6. Part(n, g)
      <3>1. g \in [0 .. n -> Nat]
          BY <1>m, <2>3, <2>4, <2>5
      <3>2. g[0] = 0
          BY <1>m, <2>3, <2>4
      <3>3. ASSUME NEW k \in 1 .. n PROVE g[k] = g[k - 1] + w[k]
          <4>1. CASE k = n
              BY <1>m, <2>3, <2>4, <4>1
          <4>2. CASE k # n
              <5>1. k \in 1 .. n - 1 /\ k \in 0 .. n /\ k - 1 \in 0 .. n /\ k - 1 # n
                  BY <1>m, <2>3, <4>2
              <5>2. f[k] = f[k - 1] + w[k]
                  BY <2>4, <5>1
              <5> QED BY <4>2, <5>1, <5>2
          <4> QED BY <4>1, <4>2
      <3> QED BY <3>1, <3>2, <3>3
  <2> QED BY <2>1, <2>6
<1>2. PICK f : Part(MaxBackups, f)
    BY <1>m, <1>1
<1>3. f = [n \in 0 .. MaxBackups |-> IF n = 0 THEN 0 ELSE f[n - 1] + w[n]]
  <2>1. \A n \in 0 .. MaxBackups : f[n] = IF n = 0 THEN 0 ELSE f[n - 1] + w[n]
      BY <1>m, <1>2
  <2> QED BY <1>2, <2>1
<1> QED BY <1>2, <1>3 DEF SumsTo

LEMMA TotalIs ==
    ASSUME NEW w \in [Bks -> Nat]
    PROVE  \E f \in [0 .. MaxBackups -> Nat] :
              /\ f[0] = 0 /\ \A n \in Bks : f[n] = f[n - 1] + w[n]
              /\ Total(w) = f[MaxBackups]
<1> DEFINE sum == CHOOSE f : f = [n \in 0 .. MaxBackups |-> IF n = 0 THEN 0 ELSE f[n - 1] + w[n]]
<1>1. Total(w) = sum[MaxBackups]
    BY DEF Total
<1>2. sum = [n \in 0 .. MaxBackups |-> IF n = 0 THEN 0 ELSE sum[n - 1] + w[n]]
    BY SumExists DEF SumsTo
<1> HIDE DEF sum
<1>m. MaxBackups \in Nat
    BY BackupsAssumption
<1>3. sum[0] = 0
    BY <1>m, <1>2
<1>4. ASSUME NEW n \in Bks PROVE sum[n] = sum[n - 1] + w[n]
    <2>1. n \in 0 .. MaxBackups /\ n # 0
        BY <1>m DEF Bks
    <2> QED BY <1>2, <2>1
<1> DEFINE bad == {n \in 0 .. MaxBackups : sum[n] \notin Nat}
<1>5. bad = {}
  <2> SUFFICES ASSUME bad # {} PROVE FALSE
      OBVIOUS
  <2>1. PICK n \in bad : \A k \in bad : n <= k
      <3>1. bad \in SUBSET (0 .. MaxBackups)
          OBVIOUS
      <3> HIDE DEF bad
      <3> QED BY <1>m, <3>1, SmallestOfThese
  <2>2. n \in 0 .. MaxBackups /\ sum[n] \notin Nat
      OBVIOUS
  <2>3. n \in Bks /\ n - 1 \in 0 .. MaxBackups /\ ~(n <= n - 1)
      BY <1>m, <1>3, <2>2 DEF Bks
  <2>4. sum[n - 1] \in Nat
      BY <2>1, <2>3
  <2>5. w[n] \in Nat
      BY <2>3
  <2> QED BY <1>4, <2>2, <2>3, <2>4, <2>5
<1>6. sum \in [0 .. MaxBackups -> Nat]
    <2>1. \A n \in 0 .. MaxBackups : sum[n] \in Nat
        BY <1>5
    <2> QED BY <1>2, <2>1
<1> QED BY <1>1, <1>3, <1>4, <1>6

LEMMA TotalNat == ASSUME NEW w \in [Bks -> Nat] PROVE Total(w) \in Nat
<1>1. MaxBackups \in 0 .. MaxBackups
    BY BackupsAssumption
<1> QED BY <1>1, TotalIs

\* Row by row, the sum of two numbers.
LEMMA TotalAdds ==
    ASSUME NEW u \in [Bks -> Nat], NEW v \in [Bks -> Nat], NEW w \in [Bks -> Nat],
           \A n \in Bks : u[n] = v[n] + w[n]
    PROVE  Total(u) = Total(v) + Total(w)
<1>m. MaxBackups \in Nat
    BY BackupsAssumption
<1>1. PICK f \in [0 .. MaxBackups -> Nat] :
          f[0] = 0 /\ (\A n \in Bks : f[n] = f[n - 1] + u[n]) /\ Total(u) = f[MaxBackups]
    BY TotalIs
<1>2. PICK g \in [0 .. MaxBackups -> Nat] :
          g[0] = 0 /\ (\A n \in Bks : g[n] = g[n - 1] + v[n]) /\ Total(v) = g[MaxBackups]
    BY TotalIs
<1>3. PICK h \in [0 .. MaxBackups -> Nat] :
          h[0] = 0 /\ (\A n \in Bks : h[n] = h[n - 1] + w[n]) /\ Total(w) = h[MaxBackups]
    BY TotalIs
<1> DEFINE bad == {n \in 0 .. MaxBackups : f[n] # g[n] + h[n]}
<1>4. bad = {}
  <2> SUFFICES ASSUME bad # {} PROVE FALSE
      OBVIOUS
  <2>1. PICK n \in bad : \A k \in bad : n <= k
      <3>1. bad \in SUBSET (0 .. MaxBackups)
          OBVIOUS
      <3> HIDE DEF bad
      <3> QED BY <1>m, <3>1, SmallestOfThese
  <2>2. n \in 0 .. MaxBackups /\ f[n] # g[n] + h[n]
      OBVIOUS
  <2>3. n \in Bks /\ n - 1 \in 0 .. MaxBackups /\ ~(n <= n - 1)
      BY <1>m, <1>1, <1>2, <1>3, <2>2 DEF Bks
  <2>4. f[n - 1] = g[n - 1] + h[n - 1]
      BY <2>1, <2>3
  <2>5. f[n] = f[n - 1] + u[n] /\ g[n] = g[n - 1] + v[n] /\ h[n] = h[n - 1] + w[n] /\ u[n] = v[n] + w[n]
      BY <1>1, <1>2, <1>3, <2>3
  <2>6. f[n - 1] \in Nat /\ g[n - 1] \in Nat /\ h[n - 1] \in Nat /\ u[n] \in Nat /\ v[n] \in Nat /\ w[n] \in Nat
      BY <2>3
  <2> QED BY <2>2, <2>4, <2>5, <2>6
<1>5. MaxBackups \in 0 .. MaxBackups
    BY <1>m
<1> QED BY <1>1, <1>2, <1>3, <1>4, <1>5

\* Of numbers that are 0 but for one row, that one.
LEMMA TotalOfOne ==
    ASSUME NEW w \in [Bks -> Nat], NEW b \in Bks, \A n \in Bks : n # b => w[n] = 0
    PROVE  Total(w) = w[b]
<1>m. MaxBackups \in Nat
    BY BackupsAssumption
<1>1. PICK f \in [0 .. MaxBackups -> Nat] :
          f[0] = 0 /\ (\A n \in Bks : f[n] = f[n - 1] + w[n]) /\ Total(w) = f[MaxBackups]
    BY TotalIs
<1> DEFINE upTo(n) == IF n < b THEN 0 ELSE w[b]
           bad == {n \in 0 .. MaxBackups : f[n] # upTo(n)}
<1>2. bad = {}
  <2> SUFFICES ASSUME bad # {} PROVE FALSE
      OBVIOUS
  <2>1. PICK n \in bad : \A k \in bad : n <= k
      <3>1. bad \in SUBSET (0 .. MaxBackups)
          OBVIOUS
      <3> HIDE DEF bad
      <3> QED BY <1>m, <3>1, SmallestOfThese
  <2>2. n \in 0 .. MaxBackups /\ f[n] # upTo(n)
      OBVIOUS
  <2>3. n \in Bks /\ n - 1 \in 0 .. MaxBackups /\ ~(n <= n - 1)
      <3>1. n # 0
          BY <1>m, <1>1, <2>2 DEF Bks
      <3> QED BY <1>m, <2>2, <3>1 DEF Bks
  <2>4. f[n - 1] = upTo(n - 1)
      BY <2>1, <2>3
  <2>5. f[n] = f[n - 1] + w[n] /\ w[n] \in Nat /\ w[b] \in Nat /\ f[n - 1] \in Nat
      BY <1>1, <2>3
  <2>6. CASE n = b
      BY <1>m, <2>2, <2>3, <2>4, <2>5, <2>6 DEF Bks
  <2>7. CASE n # b
      <3>1. (n < b <=> n - 1 < b)
          BY <1>m, <2>3, <2>7 DEF Bks
      <3>2. w[n] = 0
          BY <2>3, <2>7
      <3> QED BY <2>2, <2>4, <2>5, <3>1, <3>2
  <2> QED BY <2>6, <2>7
<1>3. MaxBackups \in 0 .. MaxBackups /\ ~(MaxBackups < b)
    BY <1>m DEF Bks
<1> QED BY <1>1, <1>2, <1>3

\* What a set of artefacts weighs, by the rows that are given.
Weigh(rows, B) == Total([b \in Bks |-> IF b \in B THEN rows[b].size ELSE 0])
SizesOf(rows) == \A b \in Bks : rows[b].size \in Nat

LEMMA WeighNat == ASSUME NEW rows, NEW B, SizesOf(rows) PROVE Weigh(rows, B) \in Nat
<1>1. [b \in Bks |-> IF b \in B THEN rows[b].size ELSE 0] \in [Bks -> Nat]
    BY DEF SizesOf
<1> QED BY <1>1, TotalNat DEF Weigh

LEMMA WeighAdds ==
    ASSUME NEW rows, NEW A, NEW B, SizesOf(rows), A \intersect B = {}
    PROVE  Weigh(rows, A \union B) = Weigh(rows, A) + Weigh(rows, B)
<1> DEFINE of(S) == [b \in Bks |-> IF b \in S THEN rows[b].size ELSE 0]
<1>1. of(A) \in [Bks -> Nat] /\ of(B) \in [Bks -> Nat] /\ of(A \union B) \in [Bks -> Nat]
    BY DEF SizesOf
<1>2. ASSUME NEW n \in Bks PROVE of(A \union B)[n] = of(A)[n] + of(B)[n]
    <2>1. rows[n].size \in Nat
        BY DEF SizesOf
    <2> QED BY <2>1
<1> HIDE DEF of
<1>3. Total(of(A \union B)) = Total(of(A)) + Total(of(B))
    BY <1>1, <1>2, TotalAdds
<1> QED BY <1>3 DEF Weigh, of

LEMMA WeighOne ==
    ASSUME NEW rows, NEW b \in Bks, SizesOf(rows) PROVE Weigh(rows, {b}) = rows[b].size
<1> DEFINE w == [a \in Bks |-> IF a \in {b} THEN rows[a].size ELSE 0]
<1>1. w \in [Bks -> Nat]
    BY DEF SizesOf
<1>2. w[b] = rows[b].size /\ \A a \in Bks : a # b => w[a] = 0
    OBVIOUS
<1> HIDE DEF w
<1>3. Total(w) = w[b]
    BY <1>1, <1>2, TotalOfOne
<1> QED BY <1>2, <1>3 DEF Weigh, w

LEMMA WeighNone == ASSUME NEW rows, SizesOf(rows) PROVE Weigh(rows, {}) = 0
<1>1. {} \union {} = {} /\ {} \intersect {} = {}
    OBVIOUS
<1>2. Weigh(rows, {}) = Weigh(rows, {}) + Weigh(rows, {})
    BY <1>1, WeighAdds
<1>3. Weigh(rows, {}) \in Nat
    BY WeighNat
<1>4. ASSUME NEW x \in Nat, x = x + x PROVE x = 0
    BY <1>4
<1> QED BY <1>2, <1>3, <1>4

LEMMA WeighPart ==
    ASSUME NEW rows, NEW A, NEW B, SizesOf(rows), A \subseteq B
    PROVE  /\ Weigh(rows, A) <= Weigh(rows, B)
           /\ Weigh(rows, B \ A) = Weigh(rows, B) - Weigh(rows, A)
<1>1. A \union (B \ A) = B /\ A \intersect (B \ A) = {}
    OBVIOUS
<1>2. Weigh(rows, A \union (B \ A)) = Weigh(rows, A) + Weigh(rows, B \ A)
    BY <1>1, WeighAdds
<1>3. Weigh(rows, A) \in Nat /\ Weigh(rows, B \ A) \in Nat
    BY WeighNat
<1>4. Weigh(rows, B) = Weigh(rows, A) + Weigh(rows, B \ A)
    BY <1>1, <1>2
<1> QED BY <1>3, <1>4

\* Rows that have grown elsewhere weigh the same.
LEMMA WeighSame ==
    ASSUME NEW rows, NEW later, NEW B, \A b \in Bks : b \in B => later[b].size = rows[b].size
    PROVE  Weigh(later, B) = Weigh(rows, B)
<1>1. [b \in Bks |-> IF b \in B THEN later[b].size ELSE 0] = [b \in Bks |-> IF b \in B THEN rows[b].size ELSE 0]
    OBVIOUS
<1> QED BY <1>1 DEF Weigh

-----------------------------------------------------------------------------
(* What an instance holds.                                                 *)

\* A list of backups, each of them once.
Once(s) == s \in Seq(Bks) /\ \A j, k \in 1 .. Len(s) : s[j] = s[k] => j = k

LEMMA WithoutOnce ==
    ASSUME NEW s, NEW b, Once(s)
    PROVE  Once(Without(s, b)) /\ Among(Without(s, b)) = Among(s) \ {b}
<1>1. CASE b \notin Among(s)
    BY <1>1 DEF Without
<1>2. CASE b \in Among(s)
  <2> DEFINE p == PlaceOf(s, b)
             t == [j \in 1 .. Len(s) - 1 |-> IF j < p THEN s[j] ELSE s[j + 1]]
  <2>1. s \in Seq(Bks) /\ Len(s) \in Nat /\ DOMAIN s = 1 .. Len(s)
      BY DEF Once
  <2>2. p \in 1 .. Len(s) /\ s[p] = b
      BY <1>2, <2>1 DEF Among, PlaceOf
  <2> HIDE DEF p
  <2>3. Without(s, b) = t
      BY <1>2 DEF Without, p
  <2>4. ASSUME NEW j \in 1 .. Len(s) - 1 PROVE t[j] \in Bks /\ t[j] \in Among(s) /\ t[j] # b
      <3>1. j \in 1 .. Len(s) /\ j + 1 \in 1 .. Len(s) /\ (~(j < p) => j + 1 # p) /\ (j < p => j # p)
          BY <2>1, <2>2
      <3>2. CASE j < p BY <2>1, <2>2, <3>1, <3>2 DEF Once, Among
      <3>3. CASE ~(j < p) BY <2>1, <2>2, <3>1, <3>3 DEF Once, Among
      <3> QED BY <3>2, <3>3
  <2>5. t \in Seq(Bks) /\ Len(t) = Len(s) - 1
      <3>1. Len(s) - 1 \in Nat
          BY <2>1, <2>2
      <3>2. t \in [1 .. Len(s) - 1 -> Bks]
          BY <2>4
      <3> QED BY <3>1, <3>2
  <2>6. ASSUME NEW j \in 1 .. Len(s) - 1, NEW k \in 1 .. Len(s) - 1, t[j] = t[k] PROVE j = k
      <3>1. j \in 1 .. Len(s) /\ j + 1 \in 1 .. Len(s) /\ k \in 1 .. Len(s) /\ k + 1 \in 1 .. Len(s)
          BY <2>1
      <3>2. CASE j < p /\ k < p BY <2>6, <3>1, <3>2 DEF Once
      <3>3. CASE ~(j < p) /\ ~(k < p)
          <4>1. s[j + 1] = s[k + 1] BY <2>6, <3>3
          <4>2. j + 1 = k + 1 BY <3>1, <4>1 DEF Once
          <4> QED BY <4>2
      <3>4. CASE j < p /\ ~(k < p)
          <4>1. s[j] = s[k + 1] BY <2>6, <3>4
          <4>2. j = k + 1 BY <3>1, <4>1 DEF Once
          <4> QED BY <2>2, <3>4, <4>2
      <3>5. CASE ~(j < p) /\ k < p
          <4>1. s[j + 1] = s[k] BY <2>6, <3>5
          <4>2. j + 1 = k BY <3>1, <4>1 DEF Once
          <4> QED BY <2>2, <3>5, <4>2
      <3> QED BY <3>2, <3>3, <3>4, <3>5
  <2>7. ASSUME NEW a \in Among(s), a # b PROVE a \in Among(t)
      <3>1. PICK j \in 1 .. Len(s) : s[j] = a
          BY <2>1 DEF Among
      <3>2. CASE j < p
          <4>1. j \in 1 .. Len(s) - 1 /\ t[j] = a
              BY <2>1, <2>2, <3>1, <3>2
          <4> QED BY <4>1 DEF Among
      <3>3. CASE ~(j < p)
          <4>1. j # p
              BY <2>2, <2>7, <3>1
          <4>2. j - 1 \in 1 .. Len(s) - 1 /\ ~(j - 1 < p) /\ (j - 1) + 1 = j
              BY <2>1, <2>2, <3>3, <4>1
          <4>3. t[j - 1] = a
              BY <3>1, <4>2
          <4> QED BY <4>2, <4>3 DEF Among
      <3> QED BY <3>2, <3>3
  <2>8. DOMAIN t = 1 .. Len(s) - 1
      OBVIOUS
  <2>9. Among(t) = Among(s) \ {b}
      <3>1. Among(t) \subseteq Among(s) \ {b}
          BY <2>4, <2>8 DEF Among
      <3> QED BY <2>7, <3>1
  <2> QED BY <2>3, <2>5, <2>6, <2>9 DEF Once
<1> QED BY <1>1, <1>2

LEMMA AppendOnce ==
    ASSUME NEW s, NEW b \in Bks, Once(s), b \notin Among(s)
    PROVE  /\ Once(Append(s, b)) /\ Among(Append(s, b)) = Among(s) \union {b}
           /\ Len(Append(s, b)) = Len(s) + 1 /\ Append(s, b)[Len(s) + 1] = b
<1>1. s \in Seq(Bks) /\ Len(s) \in Nat /\ DOMAIN s = 1 .. Len(s)
    BY DEF Once
<1> DEFINE t == Append(s, b)
<1>2. /\ t \in Seq(Bks) /\ Len(t) = Len(s) + 1 /\ DOMAIN t = 1 .. Len(s) + 1
      /\ t[Len(s) + 1] = b /\ \A j \in 1 .. Len(s) : t[j] = s[j]
    BY <1>1
<1> HIDE DEF t
<1>3. \A j \in 1 .. Len(s) : s[j] # b
    BY <1>1 DEF Among
<1>4. Once(t)
    <2>1. ASSUME NEW j \in 1 .. Len(t), NEW k \in 1 .. Len(t), t[j] = t[k] PROVE j = k
        <3>1. CASE j = Len(s) + 1 /\ k = Len(s) + 1 BY <3>1
        <3>2. CASE j \in 1 .. Len(s) /\ k \in 1 .. Len(s) BY <1>2, <2>1, <3>2 DEF Once
        <3>3. CASE j \in 1 .. Len(s) /\ k = Len(s) + 1 BY <1>2, <1>3, <2>1, <3>3
        <3>4. CASE j = Len(s) + 1 /\ k \in 1 .. Len(s) BY <1>2, <1>3, <2>1, <3>4
        <3> QED BY <1>1, <1>2, <3>1, <3>2, <3>3, <3>4
    <2> QED BY <1>2, <2>1 DEF Once
<1>5. Among(t) = Among(s) \union {b}
    <2>1. \A a \in Among(t) : a \in Among(s) \/ a = b
        <3>1. ASSUME NEW j \in 1 .. Len(s) + 1 PROVE t[j] \in Among(s) \/ t[j] = b
            <4>1. CASE j \in 1 .. Len(s) BY <1>1, <1>2, <4>1 DEF Among
            <4>2. CASE j = Len(s) + 1 BY <1>2, <4>2
            <4> QED BY <1>1, <4>1, <4>2
        <3> QED BY <1>2, <3>1 DEF Among
    <2>2. b \in Among(t)
        <3>1. Len(s) + 1 \in DOMAIN t BY <1>1, <1>2
        <3> QED BY <1>2, <3>1 DEF Among
    <2>3. \A a \in Among(s) : a \in Among(t)
        <3>1. ASSUME NEW j \in 1 .. Len(s) PROVE s[j] \in Among(t)
            <4>1. j \in DOMAIN t BY <1>1, <1>2
            <4> QED BY <1>2, <4>1 DEF Among
        <3> QED BY <1>1, <3>1 DEF Among
    <2> QED BY <2>1, <2>2, <2>3
<1> QED BY <1>2, <1>4, <1>5 DEF t

\* A list, cut in two.
CutAt(n, s, head, tail) ==
    /\ Once(tail) /\ Among(tail) = Among(s) \ Among(head) /\ Among(head) \subseteq Among(s)
    /\ n < Len(s) => s[Len(s)] \in Among(tail)
    /\ n = 0 => Among(tail) = Among(s)

LEMMA CutOnce ==
    ASSUME NEW s, Once(s), NEW n \in 0 .. Len(s)
    PROVE  CutAt(n, s, SubSeq(s, 1, n), SubSeq(s, n + 1, Len(s)))
<1>1. s \in Seq(Bks) /\ Len(s) \in Nat /\ DOMAIN s = 1 .. Len(s)
    BY DEF Once
<1> DEFINE head == SubSeq(s, 1, n)
           tail == SubSeq(s, n + 1, Len(s))
<1>2. head \in Seq(Bks) /\ DOMAIN head = 1 .. n /\ \A j \in 1 .. n : head[j] = s[j]
    BY <1>1
<1>a. Len(s) - n \in Nat /\ Len(s) - (n + 1) + 1 = Len(s) - n
    BY <1>1
<1>b. tail = [j \in 1 .. Len(s) - n |-> s[n + j]]
    <2>1. tail = [j \in 1 .. Len(s) - (n + 1) + 1 |-> s[j + (n + 1) - 1]]
        BY DEF SubSeq
    <2>2. \A j \in 1 .. Len(s) - n : j + (n + 1) - 1 = n + j
        BY <1>1
    <2> QED BY <1>a, <2>1, <2>2
<1>4. \A j \in 1 .. Len(s) - n : tail[j] = s[n + j] /\ n + j \in 1 .. Len(s)
    <2> HIDE DEF tail
    <2> QED BY <1>1, <1>b
<1>3. tail \in Seq(Bks) /\ Len(tail) = Len(s) - n /\ DOMAIN tail = 1 .. Len(s) - n
    <2> HIDE DEF tail
    <2>1. tail \in [1 .. Len(s) - n -> Bks]
        BY <1>1, <1>b, <1>4
    <2>2. ASSUME NEW m \in Nat, tail \in [1 .. m -> Bks]
          PROVE  tail \in Seq(Bks) /\ Len(tail) = m /\ DOMAIN tail = 1 .. m
        BY <2>2
    <2> QED BY <1>a, <2>1, <2>2
<1> HIDE DEF head, tail
<1>5. Once(tail)
    <2>1. ASSUME NEW j \in 1 .. Len(tail), NEW k \in 1 .. Len(tail), tail[j] = tail[k] PROVE j = k
        <3>1. s[n + j] = s[n + k] /\ n + j \in 1 .. Len(s) /\ n + k \in 1 .. Len(s)
            BY <1>3, <1>4, <2>1
        <3>2. n + j = n + k
            BY <3>1 DEF Once
        <3> QED BY <1>1, <1>3, <3>2
    <2> QED BY <1>3, <2>1 DEF Once
<1>6. Among(head) \subseteq Among(s)
    <2>1. \A j \in 1 .. n : j \in DOMAIN s
        BY <1>1
    <2> QED BY <1>2, <2>1 DEF Among
<1>7. Among(tail) \subseteq Among(s) \ Among(head)
    <2>1. ASSUME NEW j \in 1 .. Len(s) - n PROVE tail[j] \in Among(s) /\ tail[j] \notin Among(head)
        <3>1. tail[j] = s[n + j] /\ n + j \in 1 .. Len(s)
            BY <1>4
        <3>2. tail[j] \in Among(s)
            BY <1>1, <3>1 DEF Among
        <3>3. ASSUME NEW k \in 1 .. n, head[k] = tail[j] PROVE FALSE
            <4>1. s[k] = s[n + j] /\ k \in 1 .. Len(s)
                BY <1>1, <1>2, <3>1, <3>3
            <4>2. k = n + j
                BY <3>1, <4>1 DEF Once
            <4> QED BY <1>1, <4>2
        <3> QED BY <1>2, <3>2, <3>3 DEF Among
    <2> QED BY <1>3, <2>1 DEF Among
<1>8. Among(s) \ Among(head) \subseteq Among(tail)
    <2>1. ASSUME NEW j \in 1 .. Len(s), s[j] \notin Among(head) PROVE s[j] \in Among(tail)
        <3>1. ~(j \in 1 .. n)
            BY <1>2, <2>1 DEF Among
        <3>2. j - n \in 1 .. Len(s) - n /\ n + (j - n) = j
            BY <1>1, <3>1
        <3>3. tail[j - n] = s[j]
            BY <1>4, <3>2
        <3> QED BY <1>3, <3>2, <3>3 DEF Among
    <2> QED BY <1>1, <2>1 DEF Among
<1>9. n < Len(s) => s[Len(s)] \in Among(tail)
    <2> SUFFICES ASSUME n < Len(s) PROVE s[Len(s)] \in Among(tail)
        OBVIOUS
    <2>1. Len(s) - n \in 1 .. Len(s) - n /\ n + (Len(s) - n) = Len(s)
        BY <1>1
    <2>2. tail[Len(s) - n] = s[Len(s)]
        BY <1>4, <2>1
    <2> QED BY <1>3, <2>1, <2>2 DEF Among
<1>10. n = 0 => Among(tail) = Among(s)
    <2>1. n = 0 => Among(head) = {}
        BY <1>2 DEF Among
    <2> QED BY <1>7, <1>8, <2>1
<1>11. CutAt(n, s, head, tail)
    BY <1>5, <1>6, <1>7, <1>8, <1>9, <1>10 DEF CutAt
<1> QED BY <1>11 DEF head, tail

LEMMA OnceCounts == ASSUME NEW s, Once(s) PROVE Cardinality(Among(s)) = Len(s) /\ Among(s) \subseteq Bks
<1>1. s \in Seq(Bks) /\ Len(s) \in Nat /\ DOMAIN s = 1 .. Len(s)
    BY DEF Once
<1>2. s \in Bijection(1 .. Len(s), Among(s))
    <2>1. s \in [1 .. Len(s) -> Among(s)]
        BY <1>1 DEF Among
    <2>2. s \in Injection(1 .. Len(s), Among(s))
        BY <2>1 DEF Injection, Once, IsInjective
    <2>3. s \in Surjection(1 .. Len(s), Among(s))
        BY <1>1, <2>1 DEF Surjection, Among
    <2> QED BY <2>2, <2>3 DEF Bijection
<1>3. ExistsBijection(1 .. Len(s), Among(s))
    BY <1>2 DEF ExistsBijection
<1>4. Cardinality(Among(s)) = Len(s)
    BY <1>1, <1>3, FS_CountingElements
<1>5. Among(s) \subseteq Bks
    BY <1>1 DEF Among
<1> QED BY <1>4, <1>5

-----------------------------------------------------------------------------
(* The invariant, and what it keeps on one map.                            *)

BkStatuses == {"none", "RUNNING", "SUCCEEDED", "VERIFIED", "CORRUPT", "FAILED", "EXPIRED"}
BkPcs == {"idle", "export", "record", "failed", "keep", "read", "verdict",
          "finish", "exercised", "prune", "forget", "done"}
BkRows == [status : BkStatuses, stored : BOOLEAN, size : BodySizes \union {0}, due : BOOLEAN, by : BkHosts]
BkCallRows == [pc : BkPcs, op : {"run", "verify", "restore", "prune"}, on : BkHosts,
               b : Bks \union {NoBk}, stored : BOOLEAN, readable : BOOLEAN, dry : BOOLEAN,
               due : SUBSET Bks, restore : {"none", "RUNNING", "SUCCEEDED", "FAILED"}]
Making == {"export", "record", "failed", "keep"}

\* A map, by its list, its weight, what was kept, the rows and what is exposed:
\* what is kept and not exposed is there.
MapHolds(s, w, k, rows, ex) ==
    /\ Once(s) /\ Among(s) \subseteq k /\ k \subseteq Bks
    /\ w = Weigh(rows, Among(s))
    /\ \A b \in k : rows[b].stored /\ rows[b].status # "none" /\ (b \in ex \/ b \in Among(s))

\* A call: a backup that is made was kept nowhere yet, and one that is read was
\* kept where it is read, or is exposed.
BkCallHolds(m, rows, k, ex) ==
    /\ m.pc \in Making =>
          m.b \in Bks /\ rows[m.b].status # "none" /\ \A i \in BkHosts : m.b \notin k[i]
    /\ m.pc = "keep" => rows[m.b].stored
    /\ m.pc = "read" => m.b \in Bks /\ (m.b \in ex \/ (m.b \in k[m.on] /\ m.stored))
    /\ m.pc = "verdict" => m.b \in Bks /\ (m.b \in ex \/ m.readable)
    /\ m.pc \in {"finish", "exercised", "forget"} => m.b \in Bks
    /\ m.pc = "forget" => m.b \in ex

\* No two calls make one backup.
MakersApart(calls) ==
    \A c, d \in BkCalls :
        c # d /\ calls[c].pc \in Making /\ calls[d].pc \in Making => calls[c].b # calls[d].b

BkShapes ==
    /\ backup \in [Bks -> BkRows] /\ bkCall \in [BkCalls -> BkCallRows] /\ exposed \subseteq Bks
    /\ held = [i \in BkHosts |-> held[i]] /\ weight = [i \in BkHosts |-> weight[i]]
    /\ kept = [i \in BkHosts |-> kept[i]]
MapsHold == \A i \in BkHosts : MapHolds(held[i], weight[i], kept[i], backup, exposed)
BkCallsHold == \A c \in BkCalls : BkCallHolds(bkCall[c], backup, kept, exposed)
BkInv == BkShapes /\ MapsHold /\ BkCallsHold /\ MakersApart(bkCall) /\ CorruptHasACause

\* The rows go on: what is stored stays so, and so does what was begun.
GoneOn(rows, later) ==
    \A b \in Bks : /\ rows[b].stored => later[b].stored
                   /\ rows[b].status # "none" => later[b].status # "none"

LEMMA BkSizes == ASSUME NEW rows \in [Bks -> BkRows] PROVE SizesOf(rows)
<1>1. BodySizes \union {0} \subseteq Nat
    BY BackupsAssumption
<1>2. \A b \in Bks : rows[b].size \in BodySizes \union {0}
    BY DEF BkRows
<1> QED BY <1>1, <1>2 DEF SizesOf

LEMMA NoBkCallIsRow == NoBkCall \in BkCallRows /\ NoBkCall.pc = "idle" /\ NoBkCall.b = NoBk
<1>1. (CHOOSE i \in BkHosts : TRUE) \in BkHosts
    BY BackupsAssumption
<1> QED BY <1>1 DEF NoBkCall, BkCallRows, BkPcs

LEMMA MapRests ==
    ASSUME NEW s, NEW w, NEW k, NEW rows, NEW ex, NEW later, NEW lex,
           MapHolds(s, w, k, rows, ex), GoneOn(rows, later), ex \subseteq lex,
           \A b \in k : later[b].size = rows[b].size
    PROVE  MapHolds(s, w, k, later, lex)
<1>1. Weigh(later, Among(s)) = Weigh(rows, Among(s))
    BY WeighSame DEF MapHolds
<1> QED BY <1>1 DEF MapHolds, GoneOn

LEMMA MapEmpty ==
    ASSUME NEW rows, NEW ex, SizesOf(rows) PROVE MapHolds(<<>>, 0, {}, rows, ex)
<1>1. Once(<<>>) /\ Among(<<>>) = {}
    BY DEF Once, Among
<1>2. Weigh(rows, {}) = 0
    BY WeighNone
<1> QED BY <1>1, <1>2 DEF MapHolds

LEMMA MapReads ==
    ASSUME NEW s, NEW w, NEW k, NEW rows, NEW ex, MapHolds(s, w, k, rows, ex), NEW b \in Bks, b \in Among(s)
    PROVE  MapHolds(Append(Without(s, b), b), w, k, rows, ex)
<1> DEFINE t == Without(s, b)
           u == Append(t, b)
<1>1. Once(t) /\ Among(t) = Among(s) \ {b}
    BY WithoutOnce DEF MapHolds
<1> HIDE DEF t
<1>2. Once(u) /\ Among(u) = Among(t) \union {b}
    BY <1>1, AppendOnce
<1> HIDE DEF u
<1>3. Among(u) = Among(s)
    BY <1>1, <1>2
<1>4. MapHolds(u, w, k, rows, ex)
    BY <1>2, <1>3 DEF MapHolds
<1> QED BY <1>4 DEF u, t

LEMMA MapForgets ==
    ASSUME NEW s, NEW w, NEW k, NEW rows, NEW ex, MapHolds(s, w, k, rows, ex), SizesOf(rows), NEW b \in Bks
    PROVE  MapHolds(Without(s, b), w - Weigh(rows, Among(s) \intersect {b}), k \ {b}, rows, ex)
<1> DEFINE t == Without(s, b)
           both == Among(s) \intersect {b}
<1>1. Once(t) /\ Among(t) = Among(s) \ {b}
    BY WithoutOnce DEF MapHolds
<1> HIDE DEF t
<1>2. Among(t) = Among(s) \ both /\ both \subseteq Among(s)
    BY <1>1
<1> HIDE DEF both
<1>3. Weigh(rows, Among(t)) = w - Weigh(rows, both)
    BY <1>2, WeighPart DEF MapHolds
<1>4. MapHolds(t, w - Weigh(rows, both), k \ {b}, rows, ex)
    BY <1>1, <1>3 DEF MapHolds
<1> QED BY <1>4 DEF t, both

LEMMA EvictionsStop ==
    ASSUME NEW s, NEW w, Once(s), Len(s) > 0
    PROVE  /\ Evictions(s, w) \in 0 .. Len(s) - 1
           /\ (w <= ARTEFACT_CACHE_BYTES + SizeOf(Among(SubSeq(s, 1, 0))) => Evictions(s, w) = 0)
<1>1. Len(s) \in Nat /\ Len(s) - 1 \in Nat
    BY DEF Once
<1> DEFINE Fits(k) == w <= ARTEFACT_CACHE_BYTES + SizeOf(Among(SubSeq(s, 1, k))) \/ k = Len(s) - 1
           fit == {k \in 0 .. Len(s) - 1 : Fits(k)}
           Stops(n) == Fits(n) /\ \A k \in 0 .. n - 1 : ~Fits(k)
<1>2. fit \in SUBSET (0 .. Len(s) - 1) /\ fit # {}
    <2>1. Len(s) - 1 \in fit
        BY <1>1
    <2> QED BY <2>1
<1>3. PICK n \in fit : \A k \in fit : n <= k
    <2> HIDE DEF fit
    <2> QED BY <1>1, <1>2, SmallestOfThese
<1>4. n \in 0 .. Len(s) - 1 /\ Stops(n)
    <2>1. n \in 0 .. Len(s) - 1 /\ Fits(n)
        OBVIOUS
    <2>2. ASSUME NEW k \in 0 .. n - 1, Fits(k) PROVE FALSE
        <3>1. k \in 0 .. Len(s) - 1 /\ ~(n <= k)
            BY <1>1, <2>1
        <3>2. k \in fit
            BY <2>2, <3>1
        <3> QED BY <1>3, <3>1, <3>2
    <2> QED BY <2>1, <2>2
<1>5. Evictions(s, w) = CHOOSE m \in 0 .. Len(s) - 1 : Stops(m)
    BY DEF Evictions
<1> HIDE DEF Stops
<1>6. Evictions(s, w) \in 0 .. Len(s) - 1 /\ Stops(Evictions(s, w))
    BY <1>4, <1>5
<1>7. ASSUME w <= ARTEFACT_CACHE_BYTES + SizeOf(Among(SubSeq(s, 1, 0))) PROVE Evictions(s, w) = 0
    <2>1. Fits(0)
        BY <1>7
    <2>2. \A k \in 0 .. Evictions(s, w) - 1 : ~Fits(k)
        BY <1>6 DEF Stops
    <2> HIDE DEF Fits
    <2> QED BY <1>6, <2>1, <2>2
<1> QED BY <1>6, <1>7

\* What is put in a map leaves everything there when all that was kept fits;
\* otherwise what was kept before is exposed.
LEMMA MapKeeps ==
    ASSUME NEW s, NEW w, NEW k, NEW ex, NEW b \in Bks,
           MapHolds(s, w, k, backup, ex), SizesOf(backup), backup[b].stored, backup[b].status # "none",
           NEW lex, ex \subseteq lex, Weigh(backup, k \union {b}) > ARTEFACT_CACHE_BYTES => k \subseteq lex,
           NEW t, t = Append(Without(s, b), b),
           NEW v, v = w - SizeOf(Among(s) \intersect {b}) + backup[b].size
    PROVE  MapHolds(SubSeq(t, Evictions(t, v) + 1, Len(t)),
                    v - SizeOf(Among(SubSeq(t, 1, Evictions(t, v)))), k \union {b}, backup, lex)
<1> DEFINE rest == Without(s, b)
           n == Evictions(t, v)
           tail == SubSeq(t, n + 1, Len(t))
           head == SubSeq(t, 1, n)
<1>1. Once(rest) /\ Among(rest) = Among(s) \ {b}
    BY WithoutOnce DEF MapHolds
<1> HIDE DEF rest
<1>2. Once(t) /\ Among(t) = Among(rest) \union {b} /\ Len(t) = Len(rest) + 1 /\ t[Len(rest) + 1] = b
    <2>1. t = Append(rest, b)
        BY DEF rest
    <2>2. b \notin Among(rest)
        BY <1>1
    <2> QED BY <1>1, <2>1, <2>2, AppendOnce
<1>3. Len(rest) \in Nat /\ Len(t) \in Nat /\ Len(t) > 0
    BY <1>1, <1>2 DEF Once
<1>4. v = Weigh(backup, Among(t))
    <2> DEFINE both == Among(s) \intersect {b}
    <2>1. both \subseteq Among(s) /\ Among(rest) = Among(s) \ both /\ SizeOf(both) = Weigh(backup, both)
        BY <1>1 DEF SizeOf, Weigh
    <2> HIDE DEF both
    <2>2. Weigh(backup, Among(rest)) = w - SizeOf(both)
        BY <2>1, WeighPart DEF MapHolds
    <2>3. Among(rest) \intersect {b} = {}
        BY <1>1
    <2>4. Weigh(backup, Among(rest) \union {b}) = Weigh(backup, Among(rest)) + Weigh(backup, {b})
        BY <2>3, WeighAdds
    <2>5. Weigh(backup, {b}) = backup[b].size
        BY WeighOne
    <2>6. v = w - SizeOf(both) + backup[b].size
        BY DEF both
    <2> QED BY <1>2, <2>2, <2>4, <2>5, <2>6
<1>5. n \in 0 .. Len(t) - 1
    BY <1>2, <1>3, EvictionsStop
<1>6. SizeOf(Among(head)) = Weigh(backup, Among(head))
    BY DEF SizeOf, Weigh
<1>7. n = 0 \/ k \subseteq lex
    <2> SUFFICES ASSUME ~(k \subseteq lex) PROVE n = 0
        OBVIOUS
    <2>1. Weigh(backup, k \union {b}) \in Nat /\ Weigh(backup, Among(t)) \in Nat
        BY WeighNat
    <2>2. Weigh(backup, k \union {b}) <= ARTEFACT_CACHE_BYTES
        BY <2>1, BackupsAssumption
    <2>3. Among(t) \subseteq k \union {b}
        BY <1>1, <1>2 DEF MapHolds
    <2>4. Weigh(backup, Among(t)) <= Weigh(backup, k \union {b})
        BY <2>3, WeighPart
    <2>5. SizeOf(Among(SubSeq(t, 1, 0))) \in Nat
        <3>1. SizeOf(Among(SubSeq(t, 1, 0))) = Weigh(backup, Among(SubSeq(t, 1, 0)))
            BY DEF SizeOf, Weigh
        <3> QED BY <3>1, WeighNat
    <2>6. v <= ARTEFACT_CACHE_BYTES + SizeOf(Among(SubSeq(t, 1, 0)))
        BY <1>4, <2>1, <2>2, <2>4, <2>5, BackupsAssumption
    <2> QED BY <1>2, <1>3, <2>6, EvictionsStop
<1> HIDE DEF n
<1>8. n \in 0 .. Len(t) /\ n < Len(t)
    BY <1>3, <1>5
<1>9. /\ Once(tail) /\ Among(tail) = Among(t) \ Among(head) /\ Among(head) \subseteq Among(t)
      /\ t[Len(t)] \in Among(tail) /\ (n = 0 => Among(tail) = Among(t))
    <2>1. CutAt(n, t, head, tail)
        BY <1>2, <1>8, CutOnce
    <2> HIDE DEF head, tail
    <2> QED BY <1>8, <2>1 DEF CutAt
<1> HIDE DEF tail, head
<1>10. b \in Among(tail)
    BY <1>2, <1>9
<1>11. Weigh(backup, Among(tail)) = v - SizeOf(Among(head))
    <2>1. Weigh(backup, Among(t) \ Among(head)) = Weigh(backup, Among(t)) - Weigh(backup, Among(head))
        BY <1>9, WeighPart
    <2> QED BY <1>4, <1>6, <1>9, <2>1
<1>12. Among(tail) \subseteq k \union {b}
    BY <1>1, <1>2, <1>9 DEF MapHolds
<1>13. ASSUME NEW a \in k \union {b} PROVE backup[a].stored /\ backup[a].status # "none" /\ (a \in lex \/ a \in Among(tail))
    <2>1. CASE a = b
        BY <1>10, <2>1
    <2>2. CASE a # b
        <3>1. a \in k /\ backup[a].stored /\ backup[a].status # "none" /\ (a \in ex \/ a \in Among(s))
            BY <2>2 DEF MapHolds
        <3>2. a \in Among(s) => a \in Among(t)
            BY <1>1, <1>2, <2>2
        <3> QED BY <1>7, <1>9, <3>1, <3>2
    <2> QED BY <2>1, <2>2
<1>14. MapHolds(tail, v - SizeOf(Among(head)), k \union {b}, backup, lex)
    <2>1. k \union {b} \subseteq Bks
        BY DEF MapHolds
    <2> QED BY <1>9, <1>11, <1>12, <1>13, <2>1 DEF MapHolds
<1> QED BY <1>14 DEF tail, head, n

-----------------------------------------------------------------------------
(* One call moves.                                                         *)

\* Rows and maps as they are in a state.
Hosted == <<held, weight, kept>>

LEMMA MapsRest ==
    ASSUME BkInv, UNCHANGED Hosted, GoneOn(backup, backup'), exposed \subseteq exposed',
           \A i \in BkHosts : \A b \in kept[i] : backup'[b].size = backup[b].size
    PROVE  MapsHold'
<1>1. ASSUME NEW i \in BkHosts PROVE MapHolds(held[i], weight[i], kept[i], backup', exposed')
    <2>1. MapHolds(held[i], weight[i], kept[i], backup, exposed)
        BY DEF BkInv, MapsHold
    <2> QED BY <2>1, MapRests
<1> QED BY <1>1 DEF MapsHold, Hosted

\* A call whose backup is where it was, or is exposed.
LEMMA CallRests ==
    ASSUME NEW m \in BkCallRows, NEW rows, NEW later, NEW k, NEW lk, NEW ex, NEW lex,
           BkCallHolds(m, rows, k, ex), GoneOn(rows, later), ex \subseteq lex,
           m.b \in k[m.on] => m.b \in lk[m.on] \/ m.b \in lex,
           m.pc \in Making => \A i \in BkHosts : m.b \notin lk[i]
    PROVE  BkCallHolds(m, later, lk, lex)
<1>1. m.pc \in Making => m.b \in Bks /\ later[m.b].status # "none"
    BY DEF BkCallHolds, GoneOn
<1>2. m.pc = "keep" => later[m.b].stored
    BY DEF BkCallHolds, GoneOn, Making
<1>3. m.pc = "read" => m.b \in Bks /\ (m.b \in lex \/ (m.b \in lk[m.on] /\ m.stored))
    BY DEF BkCallHolds
<1>4. m.pc = "verdict" => m.b \in Bks /\ (m.b \in lex \/ m.readable)
    BY DEF BkCallHolds
<1>5. (m.pc \in {"finish", "exercised", "forget"} => m.b \in Bks) /\ (m.pc = "forget" => m.b \in lex)
    BY DEF BkCallHolds
<1> QED BY <1>1, <1>2, <1>3, <1>4, <1>5 DEF BkCallHolds

\* One call moves.
LEMMA BkOneCall ==
    ASSUME BkInv, NEW c \in BkCalls, NEW r \in BkCallRows, bkCall' = [bkCall EXCEPT ![c] = r],
           BkCallHolds(r, backup', kept', exposed'),
           GoneOn(backup, backup'), exposed \subseteq exposed',
           \A i \in BkHosts : \A b \in kept[i] : b \in kept'[i] \/ b \in exposed',
           \A d \in BkCalls \ {c} : bkCall[d].pc \in Making => \A i \in BkHosts : bkCall[d].b \notin kept'[i],
           r.pc \in Making =>
              \/ bkCall[c].pc \in Making /\ r.b = bkCall[c].b
              \/ \A d \in BkCalls : bkCall[d].pc \in Making => bkCall[d].b # r.b
    PROVE  bkCall' \in [BkCalls -> BkCallRows] /\ BkCallsHold' /\ MakersApart(bkCall')
<1>1. bkCall \in [BkCalls -> BkCallRows]
    BY DEF BkInv, BkShapes
<1>2. bkCall' \in [BkCalls -> BkCallRows] /\ bkCall'[c] = r /\ \A d \in BkCalls \ {c} : bkCall'[d] = bkCall[d]
    BY <1>1
<1>3. ASSUME NEW d \in BkCalls \ {c} PROVE BkCallHolds(bkCall[d], backup', kept', exposed')
    <2>1. BkCallHolds(bkCall[d], backup, kept, exposed)
        BY DEF BkInv, BkCallsHold
    <2>2. bkCall[d] \in BkCallRows /\ bkCall[d].on \in BkHosts
        BY <1>1 DEF BkCallRows
    <2>3. bkCall[d].b \in kept[bkCall[d].on] => bkCall[d].b \in kept'[bkCall[d].on] \/ bkCall[d].b \in exposed'
        BY <2>2
    <2> QED BY <2>1, <2>2, <2>3, CallRests
<1>4. BkCallsHold'
    <2>1. ASSUME NEW d \in BkCalls PROVE BkCallHolds(bkCall'[d], backup', kept', exposed')
        BY <1>2, <1>3
    <2> QED BY <2>1 DEF BkCallsHold
<1>5. MakersApart(bkCall')
    <2>1. MakersApart(bkCall)
        BY DEF BkInv
    <2>2. ASSUME NEW d \in BkCalls, d # c, bkCall[d].pc \in Making, r.pc \in Making PROVE bkCall[d].b # r.b
        <3>1. CASE bkCall[c].pc \in Making /\ r.b = bkCall[c].b
            BY <2>1, <2>2, <3>1 DEF MakersApart
        <3>2. CASE \A a \in BkCalls : bkCall[a].pc \in Making => bkCall[a].b # r.b
            BY <2>2, <3>2
        <3> QED BY <2>2, <3>1, <3>2
    <2>3. ASSUME NEW d \in BkCalls, NEW e \in BkCalls, d # e, bkCall'[d].pc \in Making, bkCall'[e].pc \in Making
          PROVE  bkCall'[d].b # bkCall'[e].b
        <3>1. CASE d = c
            BY <1>2, <2>2, <2>3, <3>1
        <3>2. CASE e = c
            BY <1>2, <2>2, <2>3, <3>2
        <3>3. CASE d # c /\ e # c
            BY <1>2, <2>1, <2>3, <3>3 DEF MakersApart
        <3> QED BY <3>1, <3>2, <3>3
    <2> QED BY <2>3 DEF MakersApart
<1> QED BY <1>2, <1>4, <1>5

\* One call moves, nothing is put in a map, and no row is new.
LEMMA BkQuietStep ==
    ASSUME BkInv, NEW c \in BkCalls, NEW r \in BkCallRows, bkCall' = [bkCall EXCEPT ![c] = r],
           BkCallHolds(r, backup', kept', exposed'),
           backup' \in [Bks -> BkRows], GoneOn(backup, backup'), exposed \subseteq exposed', exposed' \subseteq Bks,
           \A i \in BkHosts : \A b \in kept[i] : backup'[b].size = backup[b].size,
           UNCHANGED Hosted, CorruptHasACause',
           r.pc \in Making =>
              \/ bkCall[c].pc \in Making /\ r.b = bkCall[c].b
              \/ \A d \in BkCalls : bkCall[d].pc \in Making => bkCall[d].b # r.b
    PROVE  BkInv'
<1>1. kept' = kept
    BY DEF Hosted
<1>2. \A d \in BkCalls : bkCall[d].pc \in Making => \A i \in BkHosts : bkCall[d].b \notin kept[i]
    BY DEF BkInv, BkCallsHold, BkCallHolds
<1>3. bkCall' \in [BkCalls -> BkCallRows] /\ BkCallsHold' /\ MakersApart(bkCall')
    BY <1>1, <1>2, BkOneCall
<1>4. MapsHold'
    BY MapsRest
<1>5. BkShapes'
    BY <1>3 DEF BkInv, BkShapes, Hosted
<1> QED BY <1>3, <1>4, <1>5 DEF BkInv

\* A row takes another status.
LEMMA StatusIsSet ==
    ASSUME BkInv, NEW b \in Bks, NEW s \in BkStatuses, s # "none", SetStatusOf(b, s)
    PROVE  /\ backup' \in [Bks -> BkRows] /\ GoneOn(backup, backup')
           /\ \A a \in Bks : backup'[a].size = backup[a].size
           /\ backup'[b].status = s /\ \A a \in Bks : a # b => backup'[a].status = backup[a].status
<1>1. backup \in [Bks -> BkRows]
    BY DEF BkInv, BkShapes
<1>2. [backup[b] EXCEPT !.status = s] \in BkRows
    <2>1. backup[b] \in BkRows BY <1>1
    <2> QED BY <2>1 DEF BkRows
<1>3. backup' = [backup EXCEPT ![b] = [backup[b] EXCEPT !.status = s]]
    BY DEF SetStatusOf
<1>4. backup' \in [Bks -> BkRows]
    BY <1>1, <1>2, <1>3
<1>5. ASSUME NEW a \in Bks
      PROVE  /\ backup'[a].size = backup[a].size /\ backup'[a].stored = backup[a].stored
             /\ backup'[a].status = IF a = b THEN s ELSE backup[a].status
    <2>1. backup[a] \in BkRows BY <1>1
    <2>2. CASE a = b BY <1>1, <1>3, <2>1, <2>2 DEF BkRows
    <2>3. CASE a # b BY <1>1, <1>3, <2>3
    <2> QED BY <2>2, <2>3
<1> QED BY <1>4, <1>5 DEF GoneOn

\* A call goes on, or is over.
LEMMA BkGoes ==
    ASSUME BkInv, NEW c \in BkCalls, NEW step \in BkPcs, BkGo(c, step)
    PROVE  \E r \in BkCallRows :
              /\ bkCall' = [bkCall EXCEPT ![c] = r] /\ r.pc = step
              /\ step \notin BkOver => r = [bkCall[c] EXCEPT !.pc = step]
<1>1. bkCall[c] \in BkCallRows
    BY DEF BkInv, BkShapes
<1>2. [NoBkCall EXCEPT !.pc = step, !.restore = bkCall[c].restore] \in BkCallRows
    BY <1>1, NoBkCallIsRow DEF BkCallRows
<1>3. [bkCall[c] EXCEPT !.pc = step] \in BkCallRows
    BY <1>1 DEF BkCallRows
<1>4. [NoBkCall EXCEPT !.pc = step, !.restore = bkCall[c].restore].pc = step /\ [bkCall[c] EXCEPT !.pc = step].pc = step
    BY <1>1, NoBkCallIsRow DEF BkCallRows
<1> QED BY <1>2, <1>3, <1>4 DEF BkGo, BkSet

\* Nothing is asked of a call that is over.
LEMMA OverHolds ==
    ASSUME NEW r, r.pc \in BkOver, NEW rows, NEW k, NEW ex PROVE BkCallHolds(r, rows, k, ex) /\ r.pc \notin Making
BY DEF BkCallHolds, BkOver, Making

LEMMA RowsRest == ASSUME NEW rows PROVE GoneOn(rows, rows)
BY DEF GoneOn

-----------------------------------------------------------------------------
(* The actions.                                                            *)

LEMMA RunKeeps == ASSUME BkInv, NEW c \in BkCalls, NEW i \in BkHosts, RunBackup(c, i) PROVE BkInv'
<1>1. PICK b \in Bks :
          /\ backup[b].status = "none"
          /\ backup' = [backup EXCEPT ![b] = [@ EXCEPT !.status = "RUNNING", !.by = i]]
          /\ BkSet(c, [NoBkCall EXCEPT !.pc = "export", !.on = i, !.b = b])
    BY DEF RunBackup
<1>2. backup \in [Bks -> BkRows] /\ exposed \subseteq Bks
    BY DEF BkInv, BkShapes
<1> DEFINE row == [backup[b] EXCEPT !.status = "RUNNING", !.by = i]
           r == [NoBkCall EXCEPT !.pc = "export", !.on = i, !.b = b]
<1>3. row \in BkRows /\ row.status = "RUNNING" /\ row.stored = backup[b].stored /\ row.size = backup[b].size
    <2>1. backup[b] \in BkRows BY <1>2
    <2> QED BY <2>1 DEF BkRows, BkStatuses
<1>4. r \in BkCallRows /\ r.pc = "export" /\ r.b = b
    BY NoBkCallIsRow DEF BkCallRows, BkPcs
<1>5. bkCall' = [bkCall EXCEPT ![c] = r] /\ backup' = [backup EXCEPT ![b] = row]
    BY <1>1 DEF BkSet
<1>6. exposed' = exposed /\ UNCHANGED Hosted /\ kept' = kept
    BY DEF RunBackup, Hosted
<1> HIDE DEF row, r
<1>7. backup' \in [Bks -> BkRows] /\ backup'[b] = row /\ \A a \in Bks : a # b => backup'[a] = backup[a]
    BY <1>2, <1>3, <1>5
<1>8. GoneOn(backup, backup') /\ \A a \in Bks : backup'[a].size = backup[a].size
    BY <1>3, <1>7 DEF GoneOn
<1>9. \A h \in BkHosts : b \notin kept[h] /\ kept[h] \subseteq Bks
    BY <1>1 DEF BkInv, MapsHold, MapHolds
<1>10. BkCallHolds(r, backup', kept', exposed')
    BY <1>3, <1>4, <1>6, <1>7, <1>9 DEF BkCallHolds, Making
<1>11. \A d \in BkCalls : bkCall[d].pc \in Making => bkCall[d].b # r.b
    BY <1>1, <1>4 DEF BkInv, BkCallsHold, BkCallHolds
<1>12. CorruptHasACause'
    BY <1>3, <1>6, <1>7 DEF BkInv, CorruptHasACause
<1>13. \A h \in BkHosts : \A a \in kept[h] : backup'[a].size = backup[a].size
    BY <1>8, <1>9
<1> QED BY <1>2, <1>4, <1>5, <1>6, <1>7, <1>8, <1>10, <1>11, <1>12, <1>13, BkQuietStep

LEMMA UploadKeeps == ASSUME BkInv, NEW c \in BkCalls, Upload(c) PROVE BkInv'
<1> DEFINE b == bkCall[c].b
<1>1. bkCall[c].pc = "export" /\ exposed' = exposed /\ UNCHANGED Hosted /\ kept' = kept /\ exposed \subseteq Bks
    BY DEF Upload, BkAt, Hosted, BkInv, BkShapes
<1>2. bkCall[c] \in BkCallRows /\ backup \in [Bks -> BkRows]
    BY DEF BkInv, BkShapes
<1>3. BkCallHolds(bkCall[c], backup, kept, exposed)
    BY DEF BkInv, BkCallsHold
<1>4. b \in Bks /\ backup[b].status # "none" /\ \A i \in BkHosts : b \notin kept[i]
    BY <1>1, <1>3 DEF BkCallHolds, Making
<1>5. \A i \in BkHosts : kept[i] \subseteq Bks
    BY DEF BkInv, MapsHold, MapHolds
<1>6. ASSUME NEW step \in {"failed", "record"}, BkGo(c, step), NEW n \in BodySizes \union {0},
             backup' = [backup EXCEPT ![b].size = n] \/ backup' = backup
      PROVE  BkInv'
  <2>1. PICK r \in BkCallRows : bkCall' = [bkCall EXCEPT ![c] = r] /\ r.pc = step /\ r.b = b
      <3>1. PICK r \in BkCallRows : bkCall' = [bkCall EXCEPT ![c] = r] /\ r.pc = step /\ r = [bkCall[c] EXCEPT !.pc = step]
          BY <1>6, BkGoes DEF BkPcs, BkOver
      <3> QED BY <1>2, <3>1 DEF BkCallRows
  <2>2. /\ backup' \in [Bks -> BkRows] /\ \A a \in Bks : a # b => backup'[a].size = backup[a].size
        /\ \A a \in Bks : backup'[a].status = backup[a].status /\ backup'[a].stored = backup[a].stored
      <3>1. CASE backup' = backup
          BY <1>2, <3>1
      <3>2. CASE backup' = [backup EXCEPT ![b].size = n]
          <4> DEFINE row == [backup[b] EXCEPT !.size = n]
          <4>1. row \in BkRows /\ row.status = backup[b].status /\ row.stored = backup[b].stored
              <5>1. backup[b] \in BkRows BY <1>2, <1>4
              <5> QED BY <5>1 DEF BkRows
          <4>2. backup' = [backup EXCEPT ![b] = row]
              BY <3>2
          <4> HIDE DEF row
          <4>3. backup' \in [Bks -> BkRows] /\ backup'[b] = row /\ \A a \in Bks : a # b => backup'[a] = backup[a]
              BY <1>2, <1>4, <4>1, <4>2
          <4> QED BY <4>1, <4>3
      <3> QED BY <1>6, <3>1, <3>2
  <2>3. GoneOn(backup, backup')
      BY <2>2 DEF GoneOn
  <2>4. \A i \in BkHosts : \A a \in kept[i] : backup'[a].size = backup[a].size
      BY <1>4, <1>5, <2>2
  <2>5. CorruptHasACause'
      BY <1>1, <2>2 DEF BkInv, CorruptHasACause
  <2>6. BkCallHolds(r, backup', kept', exposed')
      BY <1>1, <1>4, <2>1, <2>2 DEF BkCallHolds
  <2> QED BY <1>1, <2>1, <2>2, <2>3, <2>4, <2>5, <2>6, BkQuietStep DEF Making
<1>7. CASE BkGo(c, "failed") /\ UNCHANGED backup
    BY <1>6, <1>7
<1>8. CASE BkGo(c, "record") /\ \E n \in BodySizes : backup' = [backup EXCEPT ![b].size = n]
    BY <1>6, <1>8
<1> QED BY <1>7, <1>8 DEF Upload

LEMMA RecordKeeps == ASSUME BkInv, NEW c \in BkCalls, RecordBackup(c) PROVE BkInv'
<1> DEFINE b == bkCall[c].b
<1>1. exposed' = exposed /\ UNCHANGED Hosted /\ kept' = kept /\ exposed \subseteq Bks
    BY DEF RecordBackup, Hosted, BkInv, BkShapes
<1>2. bkCall[c] \in BkCallRows /\ backup \in [Bks -> BkRows]
    BY DEF BkInv, BkShapes
<1>3. BkCallHolds(bkCall[c], backup, kept, exposed) /\ bkCall[c].pc \in {"record", "failed"}
    BY DEF BkInv, BkCallsHold, RecordBackup, BkAt
<1>4. b \in Bks /\ backup[b].status # "none" /\ \A i \in BkHosts : b \notin kept[i]
    BY <1>3 DEF BkCallHolds, Making
<1>5. CASE BkAt(c, "record") /\ BkGo(c, "keep")
           /\ backup' = [backup EXCEPT ![bkCall[c].b] = [@ EXCEPT !.status = "SUCCEEDED", !.stored = TRUE]]
  <2>1. PICK r \in BkCallRows : bkCall' = [bkCall EXCEPT ![c] = r] /\ r.pc = "keep" /\ r.b = b
      <3>1. PICK r \in BkCallRows : bkCall' = [bkCall EXCEPT ![c] = r] /\ r.pc = "keep" /\ r = [bkCall[c] EXCEPT !.pc = "keep"]
          BY <1>5, BkGoes DEF BkPcs, BkOver
      <3> QED BY <1>2, <3>1 DEF BkCallRows
  <2> DEFINE row == [backup[b] EXCEPT !.status = "SUCCEEDED", !.stored = TRUE]
  <2>2. row \in BkRows /\ row.status = "SUCCEEDED" /\ row.stored /\ row.size = backup[b].size
      <3>1. backup[b] \in BkRows BY <1>2, <1>4
      <3> QED BY <3>1 DEF BkRows, BkStatuses
  <2>3. backup' = [backup EXCEPT ![b] = row]
      BY <1>5
  <2> HIDE DEF row
  <2>4. backup' \in [Bks -> BkRows] /\ backup'[b] = row /\ \A a \in Bks : a # b => backup'[a] = backup[a]
      BY <1>2, <1>4, <2>2, <2>3
  <2>5. GoneOn(backup, backup') /\ \A a \in Bks : backup'[a].size = backup[a].size
      BY <2>2, <2>4 DEF GoneOn
  <2>6. \A i \in BkHosts : \A a \in kept[i] : backup'[a].size = backup[a].size
      BY <2>5 DEF BkInv, MapsHold, MapHolds
  <2>7. CorruptHasACause'
      BY <1>1, <2>2, <2>4 DEF BkInv, CorruptHasACause
  <2>8. BkCallHolds(r, backup', kept', exposed')
      BY <1>1, <1>4, <2>1, <2>2, <2>4 DEF BkCallHolds
  <2> QED BY <1>1, <1>3, <2>1, <2>4, <2>5, <2>6, <2>7, <2>8, BkQuietStep DEF Making
<1>6. CASE BkAt(c, "record") /\ BkGo(c, "failed") /\ UNCHANGED backup
  <2>1. PICK r \in BkCallRows : bkCall' = [bkCall EXCEPT ![c] = r] /\ r.pc = "failed" /\ r.b = b
      <3>1. PICK r \in BkCallRows : bkCall' = [bkCall EXCEPT ![c] = r] /\ r.pc = "failed" /\ r = [bkCall[c] EXCEPT !.pc = "failed"]
          BY <1>6, BkGoes DEF BkPcs, BkOver
      <3> QED BY <1>2, <3>1 DEF BkCallRows
  <2>2. CorruptHasACause'
      BY <1>1, <1>6 DEF BkInv, CorruptHasACause
  <2>3. BkCallHolds(r, backup', kept', exposed')
      BY <1>1, <1>4, <1>6, <2>1 DEF BkCallHolds
  <2>4. backup' = backup
      BY <1>6
  <2> QED BY <1>1, <1>2, <1>3, <2>1, <2>2, <2>3, <2>4, RowsRest, BkQuietStep DEF Making
<1>7. CASE BkAt(c, "failed") /\ BkGo(c, "done") /\ SetStatusOf(bkCall[c].b, "FAILED")
  <2>1. PICK r \in BkCallRows : bkCall' = [bkCall EXCEPT ![c] = r] /\ r.pc = "done"
      BY <1>7, BkGoes DEF BkPcs
  <2>2. /\ backup' \in [Bks -> BkRows] /\ GoneOn(backup, backup')
        /\ \A a \in Bks : backup'[a].size = backup[a].size
        /\ backup'[b].status = "FAILED" /\ \A a \in Bks : a # b => backup'[a].status = backup[a].status
      BY <1>4, <1>7, StatusIsSet DEF BkStatuses
  <2>3. \A i \in BkHosts : \A a \in kept[i] : backup'[a].size = backup[a].size
      BY <2>2 DEF BkInv, MapsHold, MapHolds
  <2>4. CorruptHasACause'
      BY <1>1, <2>2 DEF BkInv, CorruptHasACause
  <2>5. BkCallHolds(r, backup', kept', exposed') /\ r.pc \notin Making
      BY <2>1, OverHolds DEF BkOver
  <2> QED BY <1>1, <2>1, <2>2, <2>3, <2>4, <2>5, BkQuietStep
<1> QED BY <1>5, <1>6, <1>7 DEF RecordBackup

LEMMA ReadsKeep ==
    ASSUME BkInv, NEW c \in BkCalls, NEW i \in BkHosts, NEW op \in {"verify", "restore"}, NEW b \in Bks,
           NEW dry \in BOOLEAN, Reads(c, i, op, b, dry)
    PROVE  BkInv'
<1> DEFINE r == [NoBkCall EXCEPT !.pc = "read", !.op = op, !.on = i, !.b = b, !.dry = dry,
                 !.stored = backup[b].stored, !.restore = IF op = "restore" THEN "RUNNING" ELSE "none"]
<1>1. UNCHANGED Hosted /\ backup' = backup /\ kept' = kept
    BY DEF Reads, Hosted
<1>2. backup \in [Bks -> BkRows] /\ exposed \subseteq Bks /\ backup[b].stored \in BOOLEAN
    BY DEF BkInv, BkShapes, BkRows
<1>3. exposed' = exposed \union {x \in {b} : Misplaced(b, i)}
    BY DEF Reads
<1>4. r \in BkCallRows /\ r.pc = "read" /\ r.b = b /\ r.on = i /\ r.stored = backup[b].stored
    BY <1>2, NoBkCallIsRow DEF BkCallRows, BkPcs
<1>5. bkCall' = [bkCall EXCEPT ![c] = r]
    BY DEF Reads, BkSet
<1> HIDE DEF r
<1>6. exposed \subseteq exposed' /\ exposed' \subseteq Bks /\ (b \in exposed' \/ b \in kept[i])
    BY <1>2, <1>3 DEF Misplaced
<1>7. b \in kept[i] => backup[b].stored
    BY DEF BkInv, MapsHold, MapHolds
<1>8. BkCallHolds(r, backup', kept', exposed')
    BY <1>1, <1>4, <1>6, <1>7 DEF BkCallHolds, Making
<1>9. CorruptHasACause'
    BY <1>1, <1>6 DEF BkInv, CorruptHasACause
<1>10. r.pc \notin Making
    BY <1>4 DEF Making
<1> QED BY <1>1, <1>2, <1>4, <1>5, <1>6, <1>8, <1>9, <1>10, RowsRest, BkQuietStep

LEMMA ReadArtefactKeeps == ASSUME BkInv, NEW c \in BkCalls, ReadArtefact(c) PROVE BkInv'
<1> DEFINE m == bkCall[c]
           hit == m.b \in Among(held[m.on])
           found == hit \/ (m.stored /\ Location(m.b) \in object)
           r == [m EXCEPT !.readable = found /\ m.stored, !.pc = IF m.op = "verify" THEN "verdict" ELSE "finish"]
<1>1. /\ m.pc = "read" /\ bkCall' = [bkCall EXCEPT ![c] = r]
      /\ IF hit THEN MapGet(m.on, m.b) ELSE UNCHANGED held
      /\ backup' = backup /\ weight' = weight /\ exposed' = exposed /\ kept' = kept
    BY DEF ReadArtefact, BkAt, BkSet
<1>2. m \in BkCallRows /\ backup \in [Bks -> BkRows] /\ m.on \in BkHosts /\ held = [i \in BkHosts |-> held[i]]
      /\ exposed \subseteq Bks /\ m.stored \in BOOLEAN
    BY DEF BkInv, BkShapes, BkCallRows
<1>3. m.b \in Bks /\ (m.b \in exposed \/ (m.b \in kept[m.on] /\ m.stored))
    BY <1>1 DEF BkInv, BkCallsHold, BkCallHolds
<1>4. m.b \in exposed \/ (m.stored /\ hit)
    BY <1>2, <1>3 DEF BkInv, MapsHold, MapHolds
<1>5. r \in BkCallRows /\ r.pc \in {"verdict", "finish"} /\ r.b = m.b /\ (r.b \in exposed \/ r.readable)
    <2>1. (found /\ m.stored) \in BOOLEAN
        OBVIOUS
    <2>2. m.b \in exposed \/ (found /\ m.stored)
        BY <1>4
    <2> HIDE DEF found, m
    <2> QED BY <1>2, <2>1, <2>2 DEF BkCallRows, BkPcs
<1>6. held' = [i \in BkHosts |-> held'[i]]
    BY <1>1, <1>2 DEF MapGet
<1>7. ASSUME NEW i \in BkHosts PROVE MapHolds(held'[i], weight[i], kept[i], backup, exposed)
    <2>1. MapHolds(held[i], weight[i], kept[i], backup, exposed)
        BY DEF BkInv, MapsHold
    <2>2. CASE hit /\ i = m.on
        <3>1. held'[i] = Append(Without(held[i], m.b), m.b)
            BY <1>1, <1>2, <2>2 DEF MapGet
        <3>2. MapHolds(Append(Without(held[i], m.b), m.b), weight[i], kept[i], backup, exposed)
            BY <1>3, <2>1, <2>2, MapReads
        <3> QED BY <3>1, <3>2
    <2>3. CASE ~(hit /\ i = m.on)
        <3>1. held'[i] = held[i]
            BY <1>1, <1>2, <2>3 DEF MapGet
        <3> QED BY <2>1, <3>1
    <2> QED BY <2>2, <2>3
<1> HIDE DEF r, m
<1>8. BkCallHolds(r, backup', kept', exposed') /\ r.pc \notin Making
    BY <1>1, <1>3, <1>5 DEF BkCallHolds, Making
<1>9. \A d \in BkCalls : bkCall[d].pc \in Making => \A i \in BkHosts : bkCall[d].b \notin kept[i]
    BY DEF BkInv, BkCallsHold, BkCallHolds
<1>10. bkCall' \in [BkCalls -> BkCallRows] /\ BkCallsHold' /\ MakersApart(bkCall')
    BY <1>1, <1>5, <1>8, <1>9, RowsRest, BkOneCall
<1>11. MapsHold'
    BY <1>1, <1>7 DEF MapsHold
<1>12. BkShapes' /\ CorruptHasACause'
    BY <1>1, <1>2, <1>6, <1>10 DEF BkInv, BkShapes, CorruptHasACause
<1> QED BY <1>10, <1>11, <1>12 DEF BkInv

LEMMA KeepKeeps == ASSUME BkInv, NEW c \in BkCalls, KeepArtefact(c) PROVE BkInv'
<1> DEFINE m == bkCall[c]
<1>1. m.pc = "keep" /\ backup' = backup
    BY DEF KeepArtefact, BkAt
<1>2. m \in BkCallRows /\ backup \in [Bks -> BkRows] /\ m.on \in BkHosts /\ exposed \subseteq Bks
    BY DEF BkInv, BkShapes, BkCallRows
<1>s. held = [i \in BkHosts |-> held[i]] /\ weight = [i \in BkHosts |-> weight[i]] /\ kept = [i \in BkHosts |-> kept[i]]
    BY DEF BkInv, BkShapes
<1>3. m.b \in Bks /\ backup[m.b].status # "none" /\ backup[m.b].stored
    BY <1>1 DEF BkInv, BkCallsHold, BkCallHolds, Making
<1>4. SizesOf(backup)
    BY <1>2, BkSizes
<1> DEFINE h == m.on
           t == Append(Without(held[h], m.b), m.b)
           v == weight[h] - SizeOf(Among(held[h]) \intersect {m.b}) + backup[m.b].size
           n == Evictions(t, v)
<1>5. /\ held' = [held EXCEPT ![h] = SubSeq(t, n + 1, Len(t))]
      /\ weight' = [weight EXCEPT ![h] = v - SizeOf(Among(SubSeq(t, 1, n)))]
    BY DEF KeepArtefact, MapSet
<1>6. kept' = [kept EXCEPT ![h] = kept[h] \union {m.b}]
    BY DEF KeepArtefact
<1>7. exposed' = exposed \union (IF SizeOf(kept'[h]) > ARTEFACT_CACHE_BYTES THEN kept[h] ELSE {})
    BY DEF KeepArtefact
<1>8. SizeOf(kept'[h]) = Weigh(backup, kept[h] \union {m.b})
    BY <1>2, <1>s, <1>6 DEF SizeOf, Weigh
<1>9. ASSUME NEW i \in BkHosts PROVE MapHolds(held[i], weight[i], kept[i], backup, exposed)
    BY DEF BkInv, MapsHold
<1>10. exposed \subseteq exposed' /\ exposed' \subseteq Bks
       /\ (Weigh(backup, kept[h] \union {m.b}) > ARTEFACT_CACHE_BYTES => kept[h] \subseteq exposed')
    <2>1. kept[h] \subseteq Bks
        BY <1>2, <1>9 DEF MapHolds
    <2> HIDE DEF m
    <2> QED BY <1>2, <1>7, <1>8, <2>1
<1>11. MapHolds(SubSeq(t, n + 1, Len(t)), v - SizeOf(Among(SubSeq(t, 1, n))), kept[h] \union {m.b}, backup, exposed')
    <2>1. MapHolds(held[h], weight[h], kept[h], backup, exposed)
        BY <1>2, <1>9
    <2> HIDE DEF m
    <2> QED BY <1>3, <1>4, <1>10, <2>1, MapKeeps
<1> HIDE DEF n, v, t
<1>12. ASSUME NEW i \in BkHosts PROVE MapHolds(held'[i], weight'[i], kept'[i], backup, exposed')
    <2>1. CASE i = h
        <3>1. /\ held'[i] = SubSeq(t, n + 1, Len(t)) /\ weight'[i] = v - SizeOf(Among(SubSeq(t, 1, n)))
              /\ kept'[i] = kept[h] \union {m.b}
            BY <1>2, <1>s, <1>5, <1>6, <2>1
        <3> QED BY <1>11, <3>1
    <2>2. CASE i # h
        <3>1. held'[i] = held[i] /\ weight'[i] = weight[i] /\ kept'[i] = kept[i]
            BY <1>2, <1>s, <1>5, <1>6, <2>2
        <3>2. MapHolds(held[i], weight[i], kept[i], backup, exposed')
            BY <1>9, <1>10, RowsRest, MapRests
        <3> QED BY <3>1, <3>2
    <2> QED BY <2>1, <2>2
<1>13. \A i \in BkHosts : kept[i] \subseteq kept'[i] /\ kept'[i] \subseteq kept[i] \union {m.b}
    BY <1>2, <1>s, <1>6
<1>14. PICK r \in BkCallRows : bkCall' = [bkCall EXCEPT ![c] = r] /\ r.pc = "done"
    BY BkGoes DEF KeepArtefact, BkPcs
<1>15. BkCallHolds(r, backup', kept', exposed') /\ r.pc \notin Making
    BY <1>14, OverHolds DEF BkOver
<1>16. \A d \in BkCalls \ {c} : bkCall[d].pc \in Making => \A i \in BkHosts : bkCall[d].b \notin kept'[i]
    <2>1. \A d \in BkCalls \ {c} : bkCall[d].pc \in Making => bkCall[d].b # m.b
        BY <1>1 DEF BkInv, MakersApart, Making
    <2>2. \A d \in BkCalls : bkCall[d].pc \in Making => \A i \in BkHosts : bkCall[d].b \notin kept[i]
        BY DEF BkInv, BkCallsHold, BkCallHolds
    <2> QED BY <1>13, <2>1, <2>2
<1>17. bkCall' \in [BkCalls -> BkCallRows] /\ BkCallsHold' /\ MakersApart(bkCall')
    BY <1>1, <1>10, <1>13, <1>14, <1>15, <1>16, RowsRest, BkOneCall
<1>18. MapsHold'
    BY <1>1, <1>12 DEF MapsHold
<1>19. CorruptHasACause'
    BY <1>1, <1>10 DEF BkInv, CorruptHasACause
<1>20. BkShapes'
    <2>1. held' = [i \in BkHosts |-> held'[i]] /\ weight' = [i \in BkHosts |-> weight'[i]]
        BY <1>s, <1>5
    <2>2. kept' = [i \in BkHosts |-> kept'[i]]
        BY <1>s, <1>6
    <2> QED BY <1>1, <1>2, <1>10, <1>17, <2>1, <2>2 DEF BkShapes
<1> QED BY <1>17, <1>18, <1>19, <1>20 DEF BkInv

LEMMA VerdictKeeps == ASSUME BkInv, NEW c \in BkCalls, Verdict(c) PROVE BkInv'
<1> DEFINE b == bkCall[c].b
<1>1. bkCall[c].pc = "verdict" /\ BkGo(c, "done") /\ UNCHANGED Hosted /\ kept' = kept /\ exposed \subseteq Bks
    BY DEF Verdict, BkAt, Hosted, BkInv, BkShapes
<1>2. b \in Bks /\ (b \in exposed \/ bkCall[c].readable)
    BY <1>1 DEF BkInv, BkCallsHold, BkCallHolds
<1>3. PICK s \in {"VERIFIED", "CORRUPT"} :
          /\ SetStatusOf(b, s) /\ (exposed' = exposed \/ exposed' = exposed \union {b})
          /\ (s = "CORRUPT" => b \in exposed')
    <2>1. CASE SetStatusOf(b, IF bkCall[c].readable THEN "VERIFIED" ELSE "CORRUPT") /\ UNCHANGED exposed
        BY <1>2, <2>1
    <2>2. CASE SetStatusOf(b, "CORRUPT") /\ exposed' = exposed \union {b}
        BY <2>2
    <2> QED BY <2>1, <2>2 DEF Verdict
<1> HIDE DEF b
<1>4. s \in BkStatuses /\ s # "none"
    BY DEF BkStatuses
<1>5. /\ backup' \in [Bks -> BkRows] /\ GoneOn(backup, backup')
      /\ \A a \in Bks : backup'[a].size = backup[a].size
      /\ backup'[b].status = s /\ \A a \in Bks : a # b => backup'[a].status = backup[a].status
    BY <1>2, <1>3, <1>4, StatusIsSet
<1>6. exposed \subseteq exposed' /\ exposed' \subseteq Bks
    BY <1>1, <1>2, <1>3
<1>7. CorruptHasACause'
    <2>1. \A a \in Bks : backup[a].status = "CORRUPT" => a \in exposed
        BY DEF BkInv, CorruptHasACause
    <2> QED BY <1>3, <1>5, <1>6, <2>1 DEF CorruptHasACause
<1>8. \A i \in BkHosts : \A a \in kept[i] : backup'[a].size = backup[a].size
    BY <1>5 DEF BkInv, MapsHold, MapHolds
<1>9. PICK r \in BkCallRows : bkCall' = [bkCall EXCEPT ![c] = r] /\ r.pc = "done"
    BY <1>1, BkGoes DEF BkPcs
<1>10. BkCallHolds(r, backup', kept', exposed') /\ r.pc \notin Making
    BY <1>9, OverHolds DEF BkOver
<1> QED BY <1>1, <1>5, <1>6, <1>7, <1>8, <1>9, <1>10, BkQuietStep

\* A call goes on about the backup it was about, or is over; nothing else moves.
LEMMA BkCallMoves ==
    ASSUME BkInv, NEW c \in BkCalls, NEW r \in BkCallRows, bkCall' = [bkCall EXCEPT ![c] = r],
           r.pc \notin Making, BkCallHolds(r, backup, kept, exposed),
           UNCHANGED <<backup, held, weight, exposed, kept>>
    PROVE  BkInv'
<1>1. backup \in [Bks -> BkRows] /\ exposed \subseteq Bks
    BY DEF BkInv, BkShapes
<1>2. CorruptHasACause'
    BY DEF BkInv, CorruptHasACause
<1>3. UNCHANGED Hosted
    BY DEF Hosted
<1>4. BkCallHolds(r, backup', kept', exposed')
    OBVIOUS
<1> QED BY <1>1, <1>2, <1>3, <1>4, RowsRest, BkQuietStep

LEMMA FinishRestoreKeeps == ASSUME BkInv, NEW c \in BkCalls, FinishRestore(c) PROVE BkInv'
<1> DEFINE m == bkCall[c]
<1>1. UNCHANGED <<backup, held, weight, exposed, kept>> /\ m.pc = "finish"
    BY DEF FinishRestore, BkAt
<1>2. m \in BkCallRows /\ m.b \in Bks
    BY <1>1 DEF BkInv, BkShapes, BkCallsHold, BkCallHolds
<1>3. \E r \in BkCallRows : bkCall' = [bkCall EXCEPT ![c] = r] /\ r.pc \in {"done", "exercised"} /\ (r.pc = "exercised" => r.b \in Bks)
    <2> DEFINE failed == [NoBkCall EXCEPT !.restore = "FAILED", !.pc = "done"]
               tested == [NoBkCall EXCEPT !.restore = "SUCCEEDED", !.pc = "done"]
               restored == [m EXCEPT !.restore = "SUCCEEDED", !.pc = "exercised"]
    <2>1. failed \in BkCallRows /\ failed.pc = "done" /\ tested \in BkCallRows /\ tested.pc = "done"
        BY NoBkCallIsRow DEF BkCallRows, BkPcs
    <2>2. restored \in BkCallRows /\ restored.pc = "exercised" /\ restored.b = m.b
        BY <1>2 DEF BkCallRows, BkPcs
    <2>3. bkCall' = [bkCall EXCEPT ![c] = failed] \/ bkCall' = [bkCall EXCEPT ![c] = tested] \/ bkCall' = [bkCall EXCEPT ![c] = restored]
        <3>1. CASE m.dry BY <3>1 DEF FinishRestore, BkSet
        <3>2. CASE ~m.dry BY <3>2 DEF FinishRestore, BkSet
        <3> QED BY <3>1, <3>2
    <2> HIDE DEF failed, tested, restored
    <2>4. CASE bkCall' = [bkCall EXCEPT ![c] = failed] BY <2>1, <2>4
    <2>5. CASE bkCall' = [bkCall EXCEPT ![c] = tested] BY <2>1, <2>5
    <2>6. CASE bkCall' = [bkCall EXCEPT ![c] = restored] BY <1>2, <2>2, <2>6
    <2> QED BY <2>3, <2>4, <2>5, <2>6
<1>4. PICK r \in BkCallRows : bkCall' = [bkCall EXCEPT ![c] = r] /\ r.pc \in {"done", "exercised"} /\ (r.pc = "exercised" => r.b \in Bks)
    BY <1>3
<1>5. r.pc \notin Making /\ BkCallHolds(r, backup, kept, exposed)
    BY <1>4 DEF Making, BkCallHolds
<1> QED BY <1>1, <1>4, <1>5, BkCallMoves

LEMMA ExercisedKeeps == ASSUME BkInv, NEW c \in BkCalls, Exercised(c) PROVE BkInv'
<1> DEFINE b == bkCall[c].b
<1>1. bkCall[c].pc = "exercised" /\ UNCHANGED Hosted /\ kept' = kept /\ exposed' = exposed /\ exposed \subseteq Bks
    BY DEF Exercised, BkAt, Hosted, BkInv, BkShapes
<1>2. b \in Bks
    BY <1>1 DEF BkInv, BkCallsHold, BkCallHolds
<1>3. CASE SetStatusOf(b, "VERIFIED") /\ BkGo(c, "done")
  <2>1. PICK r \in BkCallRows : bkCall' = [bkCall EXCEPT ![c] = r] /\ r.pc = "done"
      BY <1>3, BkGoes DEF BkPcs
  <2>2. /\ backup' \in [Bks -> BkRows] /\ GoneOn(backup, backup')
        /\ \A a \in Bks : backup'[a].size = backup[a].size
        /\ backup'[b].status = "VERIFIED" /\ \A a \in Bks : a # b => backup'[a].status = backup[a].status
      BY <1>2, <1>3, StatusIsSet DEF BkStatuses
  <2>3. \A i \in BkHosts : \A a \in kept[i] : backup'[a].size = backup[a].size
      BY <2>2 DEF BkInv, MapsHold, MapHolds
  <2>4. CorruptHasACause'
      BY <1>1, <2>2 DEF BkInv, CorruptHasACause
  <2>5. BkCallHolds(r, backup', kept', exposed') /\ r.pc \notin Making
      BY <2>1, OverHolds DEF BkOver
  <2> QED BY <1>1, <2>1, <2>2, <2>3, <2>4, <2>5, BkQuietStep
<1>4. CASE BkSet(c, [NoBkCall EXCEPT !.restore = "FAILED", !.pc = "done"]) /\ UNCHANGED backup
  <2> DEFINE r == [NoBkCall EXCEPT !.restore = "FAILED", !.pc = "done"]
  <2>1. r \in BkCallRows /\ r.pc = "done"
      BY NoBkCallIsRow DEF BkCallRows, BkPcs
  <2>2. bkCall' = [bkCall EXCEPT ![c] = r]
      BY <1>4 DEF BkSet
  <2> HIDE DEF r
  <2>3. BkCallHolds(r, backup, kept, exposed) /\ r.pc \notin Making
      BY <2>1, OverHolds DEF BkOver
  <2>4. UNCHANGED <<backup, held, weight, exposed, kept>>
      BY <1>1, <1>4 DEF Hosted
  <2> QED BY <2>1, <2>2, <2>3, <2>4, BkCallMoves
<1> QED BY <1>3, <1>4 DEF Exercised

LEMMA PruneKeeps == ASSUME BkInv, NEW c \in BkCalls, NEW i \in BkHosts, Prune(c, i) PROVE BkInv'
<1> DEFINE r == [NoBkCall EXCEPT !.pc = "prune", !.op = "prune", !.on = i, !.due = Expired]
<1>1. Expired \in SUBSET Bks
    BY DEF Expired
<1>2. r \in BkCallRows /\ r.pc = "prune"
    BY <1>1, NoBkCallIsRow DEF BkCallRows, BkPcs
<1>3. bkCall' = [bkCall EXCEPT ![c] = r] /\ UNCHANGED <<backup, held, weight, exposed, kept>>
    BY DEF Prune, BkSet
<1> HIDE DEF r
<1>4. r.pc \notin Making /\ BkCallHolds(r, backup, kept, exposed)
    BY <1>2 DEF Making, BkCallHolds
<1> QED BY <1>2, <1>3, <1>4, BkCallMoves

LEMMA PruneRowKeeps == ASSUME BkInv, NEW c \in BkCalls, PruneRow(c) PROVE BkInv'
<1> DEFINE m == bkCall[c]
<1>1. UNCHANGED Hosted /\ kept' = kept /\ exposed \subseteq Bks /\ m \in BkCallRows
    BY DEF PruneRow, Hosted, BkInv, BkShapes
<1>2. CASE BkGo(c, "done") /\ UNCHANGED <<backup, exposed>>
  <2>1. PICK r \in BkCallRows : bkCall' = [bkCall EXCEPT ![c] = r] /\ r.pc = "done"
      BY <1>2, BkGoes DEF BkPcs
  <2>2. BkCallHolds(r, backup, kept, exposed) /\ r.pc \notin Making
      BY <2>1, OverHolds DEF BkOver
  <2>3. UNCHANGED <<backup, held, weight, exposed, kept>>
      BY <1>1, <1>2 DEF Hosted
  <2> QED BY <2>1, <2>2, <2>3, BkCallMoves
<1>3. CASE \E b \in m.due :
              /\ SetStatusOf(b, "EXPIRED") /\ exposed' = exposed \union {b}
              /\ BkSet(c, [m EXCEPT !.pc = "forget", !.b = b, !.due = @ \ {b}])
  <2>1. PICK b \in m.due :
              /\ SetStatusOf(b, "EXPIRED") /\ exposed' = exposed \union {b}
              /\ BkSet(c, [m EXCEPT !.pc = "forget", !.b = b, !.due = @ \ {b}])
      BY <1>3
  <2> DEFINE r == [m EXCEPT !.pc = "forget", !.b = b, !.due = @ \ {b}]
  <2>2. b \in Bks
      BY <1>1 DEF BkCallRows
  <2>3. r \in BkCallRows /\ r.pc = "forget" /\ r.b = b
      BY <1>1, <2>2 DEF BkCallRows, BkPcs
  <2>4. bkCall' = [bkCall EXCEPT ![c] = r]
      BY <2>1 DEF BkSet
  <2> HIDE DEF r
  <2>5. /\ backup' \in [Bks -> BkRows] /\ GoneOn(backup, backup')
        /\ \A a \in Bks : backup'[a].size = backup[a].size
        /\ backup'[b].status = "EXPIRED" /\ \A a \in Bks : a # b => backup'[a].status = backup[a].status
      BY <2>1, <2>2, StatusIsSet DEF BkStatuses
  <2>6. exposed \subseteq exposed' /\ exposed' \subseteq Bks /\ b \in exposed'
      BY <1>1, <2>1, <2>2
  <2>7. \A i \in BkHosts : \A a \in kept[i] : backup'[a].size = backup[a].size
      BY <2>5 DEF BkInv, MapsHold, MapHolds
  <2>8. CorruptHasACause'
      <3>1. \A a \in Bks : backup[a].status = "CORRUPT" => a \in exposed
          BY DEF BkInv, CorruptHasACause
      <3> QED BY <2>5, <2>6, <3>1 DEF CorruptHasACause
  <2>9. BkCallHolds(r, backup', kept', exposed') /\ r.pc \notin Making
      BY <2>2, <2>3, <2>6 DEF BkCallHolds, Making
  <2> QED BY <1>1, <2>3, <2>4, <2>5, <2>6, <2>7, <2>8, <2>9, BkQuietStep
<1> QED BY <1>2, <1>3 DEF PruneRow

LEMMA ForgetKeeps == ASSUME BkInv, NEW c \in BkCalls, Forget(c) PROVE BkInv'
<1> DEFINE m == bkCall[c]
           h == m.on
<1>1. m.pc = "forget" /\ backup' = backup /\ exposed' = exposed
    BY DEF Forget, BkAt
<1>2. m \in BkCallRows /\ backup \in [Bks -> BkRows] /\ h \in BkHosts /\ exposed \subseteq Bks
    BY DEF BkInv, BkShapes, BkCallRows
<1>s. held = [i \in BkHosts |-> held[i]] /\ weight = [i \in BkHosts |-> weight[i]] /\ kept = [i \in BkHosts |-> kept[i]]
    BY DEF BkInv, BkShapes
<1>3. m.b \in Bks /\ m.b \in exposed
    BY <1>1 DEF BkInv, BkCallsHold, BkCallHolds
<1>4. SizesOf(backup)
    BY <1>2, BkSizes
<1>5. /\ held' = [held EXCEPT ![h] = Without(held[h], m.b)]
      /\ weight' = [weight EXCEPT ![h] = weight[h] - SizeOf(Among(held[h]) \intersect {m.b})]
      /\ kept' = [kept EXCEPT ![h] = kept[h] \ {m.b}]
    BY DEF Forget, MapDelete
<1>6. SizeOf(Among(held[h]) \intersect {m.b}) = Weigh(backup, Among(held[h]) \intersect {m.b})
    BY DEF SizeOf, Weigh
<1>7. ASSUME NEW i \in BkHosts PROVE MapHolds(held'[i], weight'[i], kept'[i], backup, exposed)
    <2>1. MapHolds(held[i], weight[i], kept[i], backup, exposed)
        BY DEF BkInv, MapsHold
    <2>2. CASE i = h
        <3>1. /\ held'[i] = Without(held[i], m.b) /\ kept'[i] = kept[i] \ {m.b}
              /\ weight'[i] = weight[i] - Weigh(backup, Among(held[i]) \intersect {m.b})
            BY <1>2, <1>s, <1>5, <1>6, <2>2
        <3>2. MapHolds(Without(held[i], m.b), weight[i] - Weigh(backup, Among(held[i]) \intersect {m.b}),
                       kept[i] \ {m.b}, backup, exposed)
            BY <1>3, <1>4, <2>1, MapForgets
        <3> QED BY <3>1, <3>2
    <2>3. CASE i # h
        <3>1. held'[i] = held[i] /\ weight'[i] = weight[i] /\ kept'[i] = kept[i]
            BY <1>2, <1>s, <1>5, <2>3
        <3> QED BY <2>1, <3>1
    <2> QED BY <2>2, <2>3
<1>8. \A i \in BkHosts : kept'[i] \subseteq kept[i] /\ \A a \in kept[i] : a \in kept'[i] \/ a \in exposed
    BY <1>2, <1>3, <1>s, <1>5
<1>9. PICK r \in BkCallRows : bkCall' = [bkCall EXCEPT ![c] = r] /\ r.pc = "prune"
    BY BkGoes DEF Forget, BkPcs
<1>10. BkCallHolds(r, backup', kept', exposed') /\ r.pc \notin Making
    BY <1>9 DEF BkCallHolds, Making
<1>11. \A d \in BkCalls : bkCall[d].pc \in Making => \A i \in BkHosts : bkCall[d].b \notin kept'[i]
    <2>1. \A d \in BkCalls : bkCall[d].pc \in Making => \A i \in BkHosts : bkCall[d].b \notin kept[i]
        BY DEF BkInv, BkCallsHold, BkCallHolds
    <2> QED BY <1>8, <2>1
<1>12. bkCall' \in [BkCalls -> BkCallRows] /\ BkCallsHold' /\ MakersApart(bkCall')
    BY <1>1, <1>8, <1>9, <1>10, <1>11, RowsRest, BkOneCall
<1>13. MapsHold'
    BY <1>1, <1>7 DEF MapsHold
<1>14. CorruptHasACause'
    BY <1>1 DEF BkInv, CorruptHasACause
<1>15. BkShapes'
    <2>1. held' = [i \in BkHosts |-> held'[i]] /\ weight' = [i \in BkHosts |-> weight'[i]] /\ kept' = [i \in BkHosts |-> kept'[i]]
        BY <1>s, <1>5
    <2> QED BY <1>1, <1>2, <1>12, <2>1 DEF BkShapes
<1> QED BY <1>12, <1>13, <1>14, <1>15 DEF BkInv

LEMMA RetentionKeeps == ASSUME BkInv, NEW b \in Bks, RetentionEnds(b) PROVE BkInv'
<1>1. UNCHANGED Hosted /\ kept' = kept /\ exposed' = exposed /\ bkCall' = bkCall
    BY DEF RetentionEnds, Hosted
<1>2. backup \in [Bks -> BkRows] /\ backup' = [backup EXCEPT ![b] = [backup[b] EXCEPT !.due = TRUE]]
    BY DEF BkInv, BkShapes, RetentionEnds
<1> DEFINE row == [backup[b] EXCEPT !.due = TRUE]
<1>3. row \in BkRows /\ row.status = backup[b].status /\ row.stored = backup[b].stored /\ row.size = backup[b].size
    <2>1. backup[b] \in BkRows BY <1>2
    <2> QED BY <2>1 DEF BkRows
<1>4. backup' = [backup EXCEPT ![b] = row]
    BY <1>2
<1> HIDE DEF row
<1>5. backup' \in [Bks -> BkRows] /\ backup'[b] = row /\ \A a \in Bks : a # b => backup'[a] = backup[a]
    BY <1>2, <1>3, <1>4
<1>6. \A a \in Bks : backup'[a].status = backup[a].status /\ backup'[a].stored = backup[a].stored
                     /\ backup'[a].size = backup[a].size
    BY <1>3, <1>5
<1>7. GoneOn(backup, backup')
    BY <1>6 DEF GoneOn
<1>8. MapsHold'
    <2>1. \A i \in BkHosts : \A a \in kept[i] : backup'[a].size = backup[a].size
        BY <1>6 DEF BkInv, MapsHold, MapHolds
    <2> QED BY <1>1, <1>7, <2>1, MapsRest
<1>9. BkCallsHold'
    <2>1. ASSUME NEW c \in BkCalls PROVE BkCallHolds(bkCall[c], backup', kept, exposed)
        <3>1. bkCall[c] \in BkCallRows /\ BkCallHolds(bkCall[c], backup, kept, exposed)
            BY DEF BkInv, BkShapes, BkCallsHold
        <3>2. bkCall[c].pc \in Making => \A i \in BkHosts : bkCall[c].b \notin kept[i]
            BY <3>1 DEF BkCallHolds
        <3> QED BY <1>7, <3>1, <3>2, CallRests
    <2> QED BY <1>1, <2>1 DEF BkCallsHold
<1>10. CorruptHasACause'
    BY <1>1, <1>6 DEF BkInv, CorruptHasACause
<1>11. BkShapes' /\ MakersApart(bkCall')
    BY <1>1, <1>5 DEF BkInv, BkShapes, Hosted
<1> QED BY <1>8, <1>9, <1>10, <1>11 DEF BkInv

LEMMA RestartKeeps == ASSUME BkInv, NEW i \in BkHosts, HostRestarts(i) PROVE BkInv'
<1>1. backup' = backup
    BY DEF HostRestarts
<1>2. backup \in [Bks -> BkRows] /\ bkCall \in [BkCalls -> BkCallRows] /\ exposed \subseteq Bks
    BY DEF BkInv, BkShapes
<1>s. held = [h \in BkHosts |-> held[h]] /\ weight = [h \in BkHosts |-> weight[h]] /\ kept = [h \in BkHosts |-> kept[h]]
    BY DEF BkInv, BkShapes
<1>3. /\ held' = [held EXCEPT ![i] = <<>>] /\ weight' = [weight EXCEPT ![i] = 0]
      /\ kept' = [kept EXCEPT ![i] = {}]
    BY DEF HostRestarts
<1>4. exposed \subseteq exposed' /\ exposed' \subseteq Bks
    BY <1>2 DEF HostRestarts
<1> DEFINE Dies(c) == bkCall[c].on = i /\ bkCall[c].pc \notin BkOver
           dead(c) == [NoBkCall EXCEPT !.pc = "done", !.restore = bkCall[c].restore]
<1>5. bkCall' = [c \in BkCalls |-> IF Dies(c) THEN dead(c) ELSE bkCall[c]]
    BY DEF HostRestarts
<1>6. ASSUME NEW c \in BkCalls PROVE dead(c) \in BkCallRows /\ dead(c).pc = "done"
    <2>1. bkCall[c].restore \in {"none", "RUNNING", "SUCCEEDED", "FAILED"}
        BY <1>2 DEF BkCallRows
    <2> QED BY <2>1, NoBkCallIsRow DEF BkCallRows, BkPcs
<1> HIDE DEF dead
<1>7. bkCall' \in [BkCalls -> BkCallRows]
    BY <1>2, <1>5, <1>6
<1>8. ASSUME NEW c \in BkCalls PROVE bkCall'[c].pc \in BkOver \/ (bkCall'[c] = bkCall[c] /\ bkCall[c].on # i)
    <2>1. CASE Dies(c)
        <3>1. bkCall'[c] = dead(c) BY <1>5, <2>1
        <3> QED BY <1>6, <3>1 DEF BkOver
    <2>2. CASE ~Dies(c)
        <3>1. bkCall'[c] = bkCall[c] BY <1>5, <2>2
        <3> QED BY <2>2, <3>1
    <2> QED BY <2>1, <2>2
<1> HIDE DEF Dies
<1>9. ASSUME NEW h \in BkHosts
      PROVE  IF h = i THEN held'[h] = <<>> /\ weight'[h] = 0 /\ kept'[h] = {}
             ELSE held'[h] = held[h] /\ weight'[h] = weight[h] /\ kept'[h] = kept[h]
    BY <1>s, <1>3
<1>10. ASSUME NEW h \in BkHosts PROVE MapHolds(held'[h], weight'[h], kept'[h], backup, exposed')
    <2>1. CASE h = i
        <3>1. SizesOf(backup)
            BY <1>2, BkSizes
        <3>2. MapHolds(<<>>, 0, {}, backup, exposed')
            BY <3>1, MapEmpty
        <3>3. held'[h] = <<>> /\ weight'[h] = 0 /\ kept'[h] = {}
            BY <1>9, <2>1
        <3> QED BY <3>2, <3>3
    <2>2. CASE h # i
        <3>1. MapHolds(held[h], weight[h], kept[h], backup, exposed)
            BY DEF BkInv, MapsHold
        <3>2. MapHolds(held[h], weight[h], kept[h], backup, exposed')
            BY <1>4, <3>1, RowsRest, MapRests
        <3>3. held'[h] = held[h] /\ weight'[h] = weight[h] /\ kept'[h] = kept[h]
            BY <1>9, <2>2
        <3> QED BY <3>2, <3>3
    <2> QED BY <2>1, <2>2
<1>11. ASSUME NEW c \in BkCalls PROVE BkCallHolds(bkCall'[c], backup, kept', exposed')
    <2>1. CASE bkCall'[c].pc \in BkOver
        BY <2>1, OverHolds
    <2>2. CASE bkCall'[c] = bkCall[c] /\ bkCall[c].on # i
        <3>1. bkCall[c] \in BkCallRows /\ bkCall[c].on \in BkHosts /\ BkCallHolds(bkCall[c], backup, kept, exposed)
            BY <1>2 DEF BkInv, BkCallsHold, BkCallRows
        <3>2. kept'[bkCall[c].on] = kept[bkCall[c].on]
            BY <1>9, <2>2, <3>1
        <3>3. bkCall[c].pc \in Making => \A h \in BkHosts : bkCall[c].b \notin kept'[h]
            <4>1. \A h \in BkHosts : kept'[h] \subseteq kept[h]
                BY <1>9
            <4> QED BY <3>1, <4>1 DEF BkCallHolds
        <3>4. BkCallHolds(bkCall[c], backup, kept', exposed')
            BY <1>4, <3>1, <3>2, <3>3, RowsRest, CallRests
        <3> QED BY <2>2, <3>4
    <2> QED BY <1>8, <2>1, <2>2
<1>12. MakersApart(bkCall')
    <2>1. ASSUME NEW c \in BkCalls, bkCall'[c].pc \in Making PROVE bkCall'[c] = bkCall[c]
        BY <1>8, <2>1 DEF Making, BkOver
    <2>2. MakersApart(bkCall)
        BY DEF BkInv
    <2> QED BY <2>1, <2>2 DEF MakersApart
<1>13. CorruptHasACause'
    BY <1>1, <1>4 DEF BkInv, CorruptHasACause
<1>14. held' = [h \in BkHosts |-> held'[h]] /\ weight' = [h \in BkHosts |-> weight'[h]] /\ kept' = [h \in BkHosts |-> kept'[h]]
    BY <1>s, <1>3
<1>15. MapsHold' /\ BkCallsHold'
    BY <1>1, <1>10, <1>11 DEF MapsHold, BkCallsHold
<1>16. BkShapes'
    BY <1>1, <1>2, <1>4, <1>7, <1>14 DEF BkShapes
<1> QED BY <1>12, <1>13, <1>15, <1>16 DEF BkInv

LEMMA BkInvInit == BkInit => BkInv
<1> SUFFICES ASSUME BkInit PROVE BkInv
    OBVIOUS
<1>1. (CHOOSE i \in BkHosts : TRUE) \in BkHosts
    BY BackupsAssumption
<1>2. backup \in [Bks -> BkRows]
    BY <1>1 DEF BkInit, BkRows, BkStatuses
<1>3. bkCall \in [BkCalls -> BkCallRows] /\ \A c \in BkCalls : bkCall[c].pc \in BkOver
    BY NoBkCallIsRow DEF BkInit, BkOver
<1>4. \A b \in Bks : backup[b].status = "none"
    BY DEF BkInit
<1>5. BkShapes
    BY <1>2, <1>3 DEF BkInit, BkShapes
<1>6. MapsHold
    <2>1. SizesOf(backup)
        BY <1>2, BkSizes
    <2>2. MapHolds(<<>>, 0, {}, backup, exposed)
        BY <2>1, MapEmpty
    <2>3. \A i \in BkHosts : held[i] = <<>> /\ weight[i] = 0 /\ kept[i] = {}
        BY DEF BkInit
    <2> QED BY <2>2, <2>3 DEF MapsHold
<1>7. BkCallsHold /\ MakersApart(bkCall)
    <2>1. \A c \in BkCalls : bkCall[c].pc \notin Making
        BY <1>3, OverHolds
    <2> QED BY <1>3, <2>1, OverHolds DEF BkCallsHold, MakersApart
<1>8. CorruptHasACause
    BY <1>4 DEF CorruptHasACause
<1> QED BY <1>5, <1>6, <1>7, <1>8 DEF BkInv

LEMMA BkInvStep == BkInv /\ [BkNext]_bkVars => BkInv'
<1> SUFFICES ASSUME BkInv, [BkNext]_bkVars PROVE BkInv'
    OBVIOUS
<1>1. CASE UNCHANGED bkVars
    BY <1>1 DEF bkVars, BkInv, BkShapes, MapsHold, BkCallsHold, CorruptHasACause
<1>2. ASSUME NEW c \in BkCalls, NEW i \in BkHosts,
             RunBackup(c, i) \/ Verify(c, i) \/ Restore(c, i) \/ PointInTime(c, i) \/ Prune(c, i)
      PROVE  BkInv'
    <2>1. CASE RunBackup(c, i)
        BY <2>1, RunKeeps
    <2>2. CASE Verify(c, i)
        <3>1. PICK b \in Bks : Reads(c, i, "verify", b, TRUE)
            BY <2>2 DEF Verify
        <3> QED BY <3>1, ReadsKeep
    <2>3. CASE Restore(c, i)
        <3>1. PICK b \in Bks, dry \in BOOLEAN : Reads(c, i, "restore", b, dry)
            BY <2>3 DEF Restore
        <3> QED BY <3>1, ReadsKeep
    <2>4. CASE PointInTime(c, i)
        <3>1. PICK b \in Bks, dry \in BOOLEAN : Reads(c, i, "restore", b, dry)
            BY <2>4 DEF PointInTime
        <3> QED BY <3>1, ReadsKeep
    <2>5. CASE Prune(c, i)
        BY <2>5, PruneKeeps
    <2> QED BY <1>2, <2>1, <2>2, <2>3, <2>4, <2>5
<1>3. ASSUME NEW c \in BkCalls,
             \/ Upload(c) \/ RecordBackup(c) \/ KeepArtefact(c)
             \/ ReadArtefact(c) \/ Verdict(c) \/ FinishRestore(c) \/ Exercised(c)
             \/ PruneRow(c) \/ Forget(c)
      PROVE  BkInv'
    BY <1>3, UploadKeeps, RecordKeeps, KeepKeeps, ReadArtefactKeeps, VerdictKeeps, FinishRestoreKeeps, ExercisedKeeps,
       PruneRowKeeps, ForgetKeeps
<1>4. ASSUME NEW b \in Bks, RetentionEnds(b) PROVE BkInv'
    BY <1>4, RetentionKeeps
<1>5. ASSUME NEW i \in BkHosts, HostRestarts(i) PROVE BkInv'
    BY <1>5, RestartKeeps
<1> QED BY <1>1, <1>2, <1>3, <1>4, <1>5 DEF BkNext

LEMMA BkInvAlways == BkSpec => []BkInv
<1> QED BY BkInvInit, BkInvStep, PTL DEF BkSpec

\* A backup is declared CORRUPT only for a reason (verify(), which takes what
\* it cannot read for damaged).
THEOREM CorruptForCause == BkSpec => []CorruptHasACause
<1>1. BkInv => CorruptHasACause
    BY DEF BkInv
<1> QED BY <1>1, BkInvAlways, PTL

\* Rows, maps and calls are of their types, and a map weighs what it holds.
THEOREM BackupsTypeCorrect == BkSpec => []BkTypeOK
<1>1. BkInv => BkTypeOK
  <2> SUFFICES ASSUME BkInv PROVE BkTypeOK
      OBVIOUS
  <2>1. backup \in [Bks -> BkRows] /\ bkCall \in [BkCalls -> BkCallRows] /\ exposed \subseteq Bks
      BY DEF BkInv, BkShapes
  <2>2. ASSUME NEW i \in BkHosts
        PROVE  /\ Among(held[i]) \subseteq kept[i] /\ kept[i] \subseteq Bks
               /\ Cardinality(Among(held[i])) = Len(held[i]) /\ weight[i] = SizeOf(Among(held[i]))
      <3>1. MapHolds(held[i], weight[i], kept[i], backup, exposed)
          BY DEF BkInv, MapsHold
      <3>2. SizeOf(Among(held[i])) = Weigh(backup, Among(held[i]))
          BY DEF SizeOf, Weigh
      <3>3. Cardinality(Among(held[i])) = Len(held[i])
          BY <3>1, OnceCounts DEF MapHolds
      <3> QED BY <3>1, <3>2, <3>3 DEF MapHolds
  <2> QED BY <2>1, <2>2 DEF BkTypeOK, BkRows, BkCallRows, BkStatuses, BkPcs
<1> QED BY <1>1, BkInvAlways, PTL
=============================================================================

-------------------------- MODULE EvolutionProofs ---------------------------
(***************************************************************************)
(* Deploying what evolution proposes, for any candidates, changes,         *)
(* experiments, deployment rows and calls that overlap, fail and die       *)
(* anywhere: production never runs what is not on record, and a change     *)
(* that needs a person was approved by one.                                *)
(*                                                                         *)
(* Both are read off DpInv, which relates what each call carries to the    *)
(* rows: what it deploys was proposed, what it acts on is on record with   *)
(* what it is to write, and the approval it found is one of its candidate. *)
(* Story carries what calls that neither overlapped nor failed add to      *)
(* that: what the rows in effect tell of production and of its active      *)
(* version, and that a deployment that failed too often does not stay in   *)
(* effect. Rows are only added or turned (RowGoes, RowTurns), calls only   *)
(* move (CallGoes), and Assemble puts the parts of a step together.        *)
(***************************************************************************)
EXTENDS Deployments, FiniteSetTheorems, WellFoundedInduction, TLAPS

\* The greatest of a nonempty set of small numbers: the numbers of T from it on
\* are a minimal one among such sets.
LEMMA LatestOf ==
    ASSUME NEW n \in Nat, NEW T \in SUBSET (0 .. n), T # {}
    PROVE  \E m \in T : \A k \in T : k <= m
<1> DEFINE up == {k .. n : k \in T}
<1>1. IsFiniteSet(0 .. n)
    BY FS_Interval
<1>2. IsWellFoundedOn(StrictSubsetOrdering(0 .. n), FiniteSubsetsOf(0 .. n))
    BY FS_StrictSubsetOrderingWellFounded
<1>3. up \subseteq FiniteSubsetsOf(0 .. n) /\ up # {}
    <2>1. FiniteSubsetsOf(0 .. n) = SUBSET (0 .. n)
        BY <1>1, FS_FiniteSubsetsOfFinite
    <2>2. \A k \in T : k .. n \in SUBSET (0 .. n)
        OBVIOUS
    <2>3. \E k \in T : k .. n \in up
        OBVIOUS
    <2> HIDE DEF up
    <2>4. up # {}
        BY <2>3
    <2>5. up \subseteq SUBSET (0 .. n)
        BY <2>2 DEF up
    <2> QED BY <2>1, <2>4, <2>5
<1> HIDE DEF up
<1>4. PICK d \in up : \A e \in up : <<e, d>> \notin StrictSubsetOrdering(0 .. n)
    BY <1>2, <1>3, WFMin
<1>5. PICK m \in T : d = m .. n
    BY DEF up
<1>6. ASSUME NEW k \in T, m < k PROVE FALSE
    <2>1. k .. n \in up
        BY DEF up
    <2>2. k .. n \subseteq m .. n /\ m \in m .. n /\ m \notin k .. n
        BY <1>6
    <2>3. k .. n \subseteq 0 .. n /\ m .. n \subseteq 0 .. n
        OBVIOUS
    <2> QED BY <1>4, <1>5, <2>1, <2>2, <2>3 DEF StrictSubsetOrdering
<1> QED BY <1>6

DpStates == Changes \union {Original}
DpPcs == {"idle", "before", "approval", "review", "record", "write", "deactivate", "activate", "status",
          "candidate", "rollback", "observe", "sweep"}
DpOps == {"none", "deploy", "rollback", "observe", "sweep"}
DepRow == [status : DepStatus, cand : Candidates, applied : DpStates, rollback : DpStates, approved : BOOLEAN,
           versioned : BOOLEAN, trials : Nat, failures : Nat]
DpRow == [pc : DpPcs, op : DpOps, cand : Candidates, change : DpStates, before : DpStates,
          approval : Rows \union {0}, row : Rows \union {0}, held : SUBSET Rows, failing : SUBSET Rows,
          seen : SUBSET DpStates, trials : Nat, failures : Nat]
CandStatus == Open \union {"none", "DEPLOYED", "REJECTED"}
CandRow == [status : CandStatus, change : DpStates]
ExpRow == [status : {"none", "RUNNING", "CONCLUDED", "ABANDONED"}, cand : Candidates,
           verdict : {"none", "INSUFFICIENT", "BETTER", "WORSE", "TIE"}, trials : BOOLEAN]

DpTyped ==
    /\ prod \in DpStates /\ active \subseteq DpStates
    /\ cand \in [Candidates -> CandRow] /\ exper \in [Exps -> ExpRow]
    /\ dep \in [Rows -> DepRow] /\ dpCall \in [DpCalls -> DpRow]
    /\ proposed \subseteq Candidates \X Changes /\ IsFiniteSet(proposed)
    /\ consented \subseteq proposed

\* Rows are numbered as they are created.
RowsInOrder == \E n \in 0 .. MaxRows : DepRows = 1 .. n

\* Where a call has a row it works on, and what it does there.
Acting == {"write", "deactivate", "activate", "status", "candidate"}
DpInPlace(m) ==
    /\ m.pc \in {"before", "approval", "review", "record"} => m.op = "deploy"
    /\ m.pc \in Acting => m.op # "none"
    /\ m.pc = "observe" => m.op = "observe"
    /\ m.pc = "sweep" => m.op = "sweep"
    /\ m.pc = "rollback" => m.op \in {"rollback", "observe", "sweep"}

\* What a call acts on is on record with what it is to write.
OnRecord(m) ==
    /\ m.pc \in Acting \union {"rollback", "observe"} => m.row \in DepRows
    /\ m.pc \in Acting => dep[m.row].versioned /\ (m.op = "deploy" => dep[m.row].applied = m.change)
    /\ m.op = "sweep" => \A d \in m.held : d \in DepRows /\ dep[d].versioned
EffectiveOnRecord == \A d \in InEffect : dep[d].versioned

\* A call deploys what was proposed, and found the approval of its candidate.
Consenting(m) ==
    /\ m.pc \in {"before", "approval", "review", "record"} => <<m.cand, m.change>> \in proposed
    /\ m.pc \in {"review", "record"} /\ m.approval # 0 =>
          m.approval \in DepRows /\ dep[m.approval].cand = m.cand
    /\ m.pc = "record" /\ m.cand \in NeedsConsent => m.approval # 0 /\ dep[m.approval].approved

\* Approved rows go back to a person; so do deployments that need one.
SomeConsent(c) == \E y : <<c, y>> \in consented
RowConsented(d) ==
    /\ dep[d].approved => SomeConsent(dep[d].cand)
    /\ dep[d].versioned => /\ <<dep[d].cand, dep[d].applied>> \in proposed
                           /\ dep[d].cand \in NeedsConsent => SomeConsent(dep[d].cand)

\* A candidate has a row from its first proposal on, and holds what was proposed;
\* experiments are of candidates that have one.
Born(c) == \E y : <<c, y>> \in proposed
CandProposed ==
    \A c \in Candidates : /\ cand[c].status # "none" => <<c, cand[c].change>> \in proposed
                          /\ Born(c) => cand[c].status # "none"
ExpersBorn == \A e \in ExpRows : Born(exper[e].cand)

DpCallHolds(m) == DpInPlace(m) /\ OnRecord(m) /\ Consenting(m)
DpInv ==
    /\ DpTyped /\ RowsInOrder /\ EffectiveOnRecord /\ EveryChangeRecorded /\ CandProposed /\ ExpersBorn
    /\ \A d \in DepRows : RowConsented(d)
    /\ \A k \in DpCalls : DpCallHolds(dpCall[k])

-----------------------------------------------------------------------------
(* Rows and calls                                                           *)

LEMMA IdleRow ==
    /\ Idle \in DpRow /\ Idle.pc = "idle" /\ DpCallHolds(Idle)
    /\ NoDep \in DepRow /\ NoDep.status = "none" /\ NoDep.trials = 0
<1>1. (CHOOSE c \in Candidates : TRUE) \in Candidates
    BY DeploymentsAssumption
<1>2. Idle \in DpRow /\ Idle.pc = "idle" /\ Idle.op = "none"
    BY <1>1 DEF Idle, DpRow, DpPcs, DpOps, DpStates
<1>3. NoDep \in DepRow /\ NoDep.status = "none" /\ NoDep.trials = 0
    BY <1>1 DEF NoDep, DepRow, DpStates, DepStatus
<1> QED BY <1>2, <1>3 DEF DpCallHolds, DpInPlace, OnRecord, Consenting, Acting

LEMMA DpOneCall ==
    ASSUME dpCall \in [DpCalls -> DpRow], NEW k \in DpCalls, NEW r \in DpRow, DpSet(k, r)
    PROVE  dpCall' \in [DpCalls -> DpRow] /\ dpCall'[k] = r /\ \A j \in DpCalls \ {k} : dpCall'[j] = dpCall[j]
BY DEF DpSet

\* All of a call but where it stands.
SameCall(r, m) ==
    /\ r.op = m.op /\ r.cand = m.cand /\ r.change = m.change /\ r.before = m.before /\ r.approval = m.approval
    /\ r.row = m.row /\ r.held = m.held /\ r.failing = m.failing /\ r.seen = m.seen
    /\ r.trials = m.trials /\ r.failures = m.failures

LEMMA DpGoes ==
    ASSUME DpTyped, NEW k \in DpCalls, NEW step \in DpPcs, DpGo(k, step)
    PROVE  \E r \in DpRow : DpSet(k, r) /\ r.pc = step /\ SameCall(r, dpCall[k])
<1>1. dpCall[k] \in DpRow
    BY DEF DpTyped
<1>2. PICK r \in DpRow : r = [dpCall[k] EXCEPT !.pc = step]
    BY <1>1 DEF DpRow
<1>3. r.pc = step /\ SameCall(r, dpCall[k])
    BY <1>1, <1>2 DEF DpRow, SameCall
<1> QED BY <1>2, <1>3 DEF DpGo

\* What of a row never changes once it is there.
RowsKept ==
    \A d \in DepRows :
        /\ d \in DepRows'
        /\ dep'[d].cand = dep[d].cand /\ dep'[d].applied = dep[d].applied /\ dep'[d].rollback = dep[d].rollback
        /\ dep'[d].approved = dep[d].approved /\ dep'[d].versioned = dep[d].versioned

LEMMA SameRows == ASSUME UNCHANGED dep PROVE RowsKept /\ DepRows' = DepRows /\ InEffect' = InEffect
BY DEF RowsKept, DepRows, InEffect, Effective

\* One row of several is written.
LEMMA OneRow ==
    ASSUME DpTyped, NEW d \in DepRows, NEW r \in DepRow, dep' = [dep EXCEPT ![d] = r],
           r.status # "none", r.cand = dep[d].cand, r.applied = dep[d].applied, r.rollback = dep[d].rollback,
           r.approved = dep[d].approved, r.versioned = dep[d].versioned
    PROVE  /\ dep' \in [Rows -> DepRow] /\ dep'[d] = r /\ \A e \in Rows \ {d} : dep'[e] = dep[e]
           /\ RowsKept /\ DepRows' = DepRows
<1>1. d \in Rows
    BY DEF DepRows
<1>2. dep' \in [Rows -> DepRow] /\ dep'[d] = r /\ \A e \in Rows \ {d} : dep'[e] = dep[e]
    BY <1>1 DEF DpTyped
<1>3. DepRows' = DepRows
    BY <1>1, <1>2 DEF DepRows
<1>4. RowsKept
    BY <1>1, <1>2, <1>3 DEF RowsKept, DepRows
<1> QED BY <1>2, <1>3, <1>4

\* A row is added behind the others.
LEMMA RowAdded ==
    ASSUME DpTyped, RowsInOrder, NEW r \in DepRow, r.status # "none", AddRow(r)
    PROVE  \E n \in Rows :
              /\ n = Cardinality(DepRows) + 1 /\ n \notin DepRows /\ \A d \in DepRows : d < n
              /\ dep' \in [Rows -> DepRow] /\ dep'[n] = r /\ \A e \in Rows \ {n} : dep'[e] = dep[e]
              /\ RowsKept /\ DepRows' = DepRows \union {n} /\ RowsInOrder'
<1>1. PICK m \in 0 .. MaxRows : DepRows = 1 .. m
    BY DEF RowsInOrder
<1>2. Cardinality(DepRows) = m
    BY <1>1, FS_Interval, DeploymentsAssumption
<1>3. m < MaxRows /\ dep' = [dep EXCEPT ![m + 1] = r]
    BY <1>2 DEF AddRow
<1>4. PICK n \in Rows : n = m + 1
    BY <1>3, DeploymentsAssumption DEF Rows
<1>5. n \notin DepRows /\ \A d \in DepRows : d < n
    BY <1>1, <1>4
<1>6. dep' \in [Rows -> DepRow] /\ dep'[n] = r /\ \A e \in Rows \ {n} : dep'[e] = dep[e]
    BY <1>3, <1>4 DEF DpTyped
<1>7. DepRows' = DepRows \union {n}
    BY <1>6 DEF DepRows
<1>8. RowsKept
    BY <1>5, <1>6, <1>7 DEF RowsKept, DepRows
<1>9. DepRows' = 1 .. n /\ n \in 0 .. MaxRows
    BY <1>1, <1>4, <1>7 DEF Rows
<1>10. RowsInOrder'
    BY <1>9 DEF RowsInOrder
<1> QED BY <1>2, <1>4, <1>5, <1>6, <1>7, <1>8, <1>10

\* What a call, a row and production go by stays as long as rows are kept.
LEMMA HoldsOn ==
    ASSUME RowsKept, proposed \subseteq proposed', NEW m \in DpRow, DpCallHolds(m)
    PROVE  DpCallHolds(m)'
<1>1. OnRecord(m)'
    BY DEF DpCallHolds, OnRecord, RowsKept
<1>2. Consenting(m)'
    BY DEF DpCallHolds, Consenting, RowsKept
<1> QED BY <1>1, <1>2 DEF DpCallHolds, DpInPlace

LEMMA RowHoldsOn ==
    ASSUME RowsKept, proposed \subseteq proposed', consented \subseteq consented', NEW d \in DepRows, RowConsented(d)
    PROVE  RowConsented(d)'
BY DEF RowConsented, RowsKept, SomeConsent

LEMMA RecordedOn ==
    ASSUME RowsKept, UNCHANGED prod, EveryChangeRecorded PROVE EveryChangeRecorded'
BY DEF EveryChangeRecorded, RowsKept

-----------------------------------------------------------------------------
(* Actions that leave the rows and the calls alone                          *)

LEMMA DpInvInit == DpInit => DpInv
<1> SUFFICES ASSUME DpInit PROVE DpInv
    OBVIOUS
<1>1. DepRows = {} /\ InEffect = {}
    BY IdleRow DEF DpInit, DepRows, InEffect
<1>2. RowsInOrder
    <2>1. 0 \in 0 .. MaxRows /\ 1 .. 0 = {}
        BY DeploymentsAssumption
    <2> QED BY <1>1, <2>1 DEF RowsInOrder
<1>3. IsFiniteSet(proposed)
    BY FS_EmptySet DEF DpInit
<1>4. cand \in [Candidates -> CandRow]
    BY DEF DpInit, CandRow, CandStatus, DpStates
<1>5. DpTyped
    <2>1. exper \in [Exps -> ExpRow]
        BY DeploymentsAssumption DEF DpInit, ExpRow
    <2>2. dep \in [Rows -> DepRow] /\ dpCall \in [DpCalls -> DpRow]
        BY IdleRow DEF DpInit
    <2> QED BY <1>3, <1>4, <2>1, <2>2 DEF DpInit, DpTyped, DpStates
<1>6. CandProposed /\ ExpersBorn
    <2>1. \A c \in Candidates : cand[c].status = "none" /\ ~Born(c)
        BY DEF DpInit, Born
    <2>2. ExpRows = {}
        BY DEF DpInit, ExpRows
    <2> QED BY <2>1, <2>2 DEF CandProposed, ExpersBorn
<1>7. \A k \in DpCalls : DpCallHolds(dpCall[k])
    BY IdleRow DEF DpInit
<1>8. EveryChangeRecorded /\ EffectiveOnRecord /\ \A d \in DepRows : RowConsented(d)
    BY <1>1 DEF EffectiveOnRecord, EveryChangeRecorded, DpInit
<1> QED BY <1>2, <1>5, <1>6, <1>7, <1>8 DEF DpInv

\* Production, the rows and the calls stay; candidates and what was proposed
\* may change with the step.
LEMMA AsideStep ==
    ASSUME DpInv, UNCHANGED <<prod, dep, dpCall, consented>>, active' \subseteq DpStates,
           cand' \in [Candidates -> CandRow], proposed \subseteq proposed', proposed' \subseteq Candidates \X Changes,
           IsFiniteSet(proposed'), CandProposed', exper' \in [Exps -> ExpRow], ExpersBorn'
    PROVE  DpInv'
<1>1. RowsKept /\ DepRows' = DepRows /\ InEffect' = InEffect
    BY SameRows
<1>2. DpTyped'
    BY DEF DpInv, DpTyped
<1>3. ASSUME NEW k \in DpCalls PROVE DpCallHolds(dpCall[k])'
    <2>1. PICK m \in DpRow : m = dpCall[k]
        BY DEF DpInv, DpTyped
    <2>2. DpCallHolds(m)
        BY <2>1 DEF DpInv
    <2>3. DpCallHolds(m)'
        BY <1>1, <2>2, HoldsOn
    <2>4. m = dpCall'[k]
        BY <2>1
    <2> QED BY <2>3, <2>4 DEF DpCallHolds, DpInPlace, OnRecord, Consenting
<1>4. \A d \in DepRows' : RowConsented(d)'
    BY <1>1, RowHoldsOn DEF DpInv
<1>5. EveryChangeRecorded'
    BY <1>1, RecordedOn DEF DpInv
<1>6. RowsInOrder' /\ EffectiveOnRecord'
    BY <1>1 DEF DpInv, RowsInOrder, EffectiveOnRecord
<1> QED BY <1>2, <1>3, <1>4, <1>5, <1>6 DEF DpInv

LEMMA CandidateSet ==
    ASSUME DpInv, NEW c \in Candidates, NEW s \in CandStatus \ {"none"}, cand[c].status # "none", SetCandidate(c, s),
           proposed' = proposed
    PROVE  cand' \in [Candidates -> CandRow] /\ CandProposed'
<1>1. cand[c] \in CandRow
    BY DEF DpInv, DpTyped
<1>2. PICK r \in CandRow : r = [cand[c] EXCEPT !.status = s]
    BY <1>1 DEF CandRow
<1>3. r.change = cand[c].change
    BY <1>1, <1>2 DEF CandRow
<1>4. cand' = [cand EXCEPT ![c] = r]
    BY <1>2 DEF SetCandidate
<1>5. cand' \in [Candidates -> CandRow] /\ \A o \in Candidates : cand'[o] = IF o = c THEN r ELSE cand[o]
    BY <1>4 DEF DpInv, DpTyped
<1>6. r.status = s /\ s # "none"
    BY <1>1, <1>2 DEF CandRow
<1> QED BY <1>3, <1>5, <1>6 DEF DpInv, CandProposed, Born

LEMMA ProposeInv == ASSUME DpInv, NEW x \in Changes, Propose(x) PROVE DpInv'
<1>1. PICK c \in Candidates :
          /\ proposed' = proposed \union {<<c, x>>}
          /\ \/ cand[c].status # "none" /\ cand' = [cand EXCEPT ![c].change = x]
             \/ cand' = [cand EXCEPT ![c] = [status |-> "DRAFT", change |-> x]]
    BY DEF Propose, Open
<1>2. cand[c] \in CandRow
    BY DEF DpInv, DpTyped
<1>3. PICK r \in CandRow : cand' = [cand EXCEPT ![c] = r] /\ r.change = x /\ r.status # "none"
    <2>1. CASE cand[c].status # "none" /\ cand' = [cand EXCEPT ![c].change = x]
        <3>1. PICK r \in CandRow : r = [cand[c] EXCEPT !.change = x]
            BY <1>2 DEF CandRow, DpStates
        <3>2. r.change = x /\ r.status = cand[c].status
            BY <1>2, <3>1 DEF CandRow
        <3> QED BY <2>1, <3>1, <3>2
    <2>2. CASE cand' = [cand EXCEPT ![c] = [status |-> "DRAFT", change |-> x]]
        <3>1. PICK r \in CandRow : r = [status |-> "DRAFT", change |-> x]
            BY DEF CandRow, CandStatus, Open, DpStates
        <3>2. r.status = "DRAFT" /\ r.change = x
            BY <3>1
        <3> QED BY <2>2, <3>1, <3>2
    <2> QED BY <1>1, <2>1, <2>2
<1>4. cand' \in [Candidates -> CandRow] /\ \A o \in Candidates : cand'[o] = IF o = c THEN r ELSE cand[o]
    BY <1>3 DEF DpInv, DpTyped
<1>5. CandProposed'
    BY <1>1, <1>3, <1>4 DEF DpInv, CandProposed, Born
<1>6. IsFiniteSet(proposed')
    BY <1>1, FS_AddElement DEF DpInv, DpTyped
<1>7. proposed \subseteq proposed' /\ proposed' \subseteq Candidates \X Changes
    BY <1>1 DEF DpInv, DpTyped
<1>8. UNCHANGED <<prod, dep, dpCall, consented>> /\ active' \subseteq DpStates
    BY DEF Propose, DpInv, DpTyped
<1>9. exper' \in [Exps -> ExpRow] /\ ExpersBorn'
    BY <1>7 DEF Propose, DpInv, DpTyped, ExpersBorn, ExpRows, Born
<1> QED BY <1>4, <1>5, <1>6, <1>7, <1>8, <1>9, AsideStep

\* Experiments come with their candidates.
ExpersGo == exper' \in [Exps -> ExpRow] /\ \A e \in ExpRows' : Born(exper'[e].cand)

\* One candidate takes another status.
LEMMA StatusStep ==
    ASSUME DpInv, NEW c \in Candidates, NEW s \in CandStatus \ {"none"}, cand[c].status # "none",
           SetCandidate(c, s), ExpersGo, active' \subseteq DpStates,
           UNCHANGED <<prod, dep, dpCall, consented, proposed>>
    PROVE  DpInv'
<1>1. cand' \in [Candidates -> CandRow] /\ CandProposed'
    BY CandidateSet
<1>2. IsFiniteSet(proposed') /\ proposed' \subseteq Candidates \X Changes
    BY DEF DpInv, DpTyped
<1>3. exper' \in [Exps -> ExpRow] /\ ExpersBorn'
    BY DEF ExpersGo, ExpersBorn, Born
<1> QED BY <1>1, <1>2, <1>3, AsideStep

\* No candidate changes.
LEMMA MeasuringStep ==
    ASSUME DpInv, ExpersGo, UNCHANGED <<prod, active, cand, dep, dpCall, consented, proposed>>
    PROVE  DpInv'
<1>1. cand' \in [Candidates -> CandRow] /\ CandProposed' /\ active' \subseteq DpStates
    BY DEF DpInv, DpTyped, CandProposed, Born
<1>2. IsFiniteSet(proposed') /\ proposed' \subseteq Candidates \X Changes
    BY DEF DpInv, DpTyped
<1>3. exper' \in [Exps -> ExpRow] /\ ExpersBorn'
    BY DEF ExpersGo, ExpersBorn, Born
<1> QED BY <1>1, <1>2, <1>3, AsideStep

\* One experiment changes, and not its candidate.
LEMMA ExperSet ==
    ASSUME DpInv, NEW e \in ExpRows, NEW r \in ExpRow, r.cand = exper[e].cand, exper' = [exper EXCEPT ![e] = r]
    PROVE  ExpersGo
<1>1. e \in Exps
    BY DEF ExpRows
<1>2. exper' \in [Exps -> ExpRow] /\ \A o \in Exps : exper'[o] = IF o = e THEN r ELSE exper[o]
    BY <1>1 DEF DpInv, DpTyped
<1> QED BY <1>2 DEF ExpersGo, DpInv, ExpersBorn, ExpRows

LEMMA ExperSame == ASSUME DpInv, exper' = exper PROVE ExpersGo
BY DEF DpInv, DpTyped, ExpersGo, ExpersBorn, ExpRows

\* The candidate of an experiment.
LEMMA Examined ==
    ASSUME DpInv, NEW e \in ExpRows
    PROVE  e \in Exps /\ exper[e] \in ExpRow /\ exper[e].cand \in Candidates /\ cand[exper[e].cand].status # "none"
<1>1. e \in Exps /\ exper[e] \in ExpRow
    BY DEF ExpRows, DpInv, DpTyped
<1>2. exper[e].cand \in Candidates
    BY <1>1 DEF ExpRow
<1> QED BY <1>1, <1>2 DEF DpInv, ExpersBorn, CandProposed

LEMMA QueueInv == ASSUME DpInv, NEW c \in Candidates, Queue(c) \/ RejectCandidate(c) PROVE DpInv'
<1>1. ExpersGo /\ active' \subseteq DpStates
    BY ExperSame DEF Queue, RejectCandidate, DpInv, DpTyped
<1>2. PICK s \in CandStatus \ {"none"} : SetCandidate(c, s)
    BY DEF Queue, RejectCandidate, CandStatus, Open
<1>3. cand[c].status # "none" /\ UNCHANGED <<prod, dep, dpCall, consented, proposed>>
    BY DEF Queue, RejectCandidate, dpHistory
<1> QED BY <1>1, <1>2, <1>3, StatusStep

LEMMA StartExperimentInv == ASSUME DpInv, NEW c \in Candidates, StartExperiment(c) PROVE DpInv'
<1>1. active' \subseteq DpStates
    BY DEF StartExperiment, DpInv, DpTyped
<1> DEFINE n == Cardinality(ExpRows) + 1
           r == [status |-> "RUNNING", cand |-> c, verdict |-> "none", trials |-> FALSE]
<1>2. r \in ExpRow /\ r.cand = c
    BY DEF ExpRow
<1>3. exper' = [exper EXCEPT ![n] = r]
    BY DEF StartExperiment
<1> HIDE DEF r, n
<1>4. exper' \in [Exps -> ExpRow] /\ \A o \in Exps : exper'[o] = IF o = n THEN r ELSE exper[o]
    BY <1>2, <1>3 DEF DpInv, DpTyped
<1>5. cand[c].status # "none" /\ "TESTING" \in CandStatus \ {"none"} /\ SetCandidate(c, "TESTING")
    BY DEF StartExperiment, Open, CandStatus
<1>6. Born(c)
    BY <1>5 DEF DpInv, CandProposed, Born
<1>7. ExpersGo
    BY <1>2, <1>4, <1>6 DEF ExpersGo, DpInv, ExpersBorn, ExpRows
<1>8. UNCHANGED <<prod, dep, dpCall, consented, proposed>>
    BY DEF StartExperiment, dpHistory
<1> QED BY <1>1, <1>5, <1>7, <1>8, StatusStep

LEMMA RunTrialsInv == ASSUME DpInv, NEW e \in Exps, RunTrials(e) PROVE DpInv'
<1>1. e \in ExpRows
    BY DEF RunTrials, ExpRows
<1>2. exper[e] \in ExpRow
    BY <1>1, Examined
<1>3. PICK r \in ExpRow : r = [exper[e] EXCEPT !.trials = TRUE]
    BY <1>2 DEF ExpRow
<1>4. r.cand = exper[e].cand
    BY <1>2, <1>3 DEF ExpRow
<1>5. exper' = [exper EXCEPT ![e] = r]
    BY <1>3 DEF RunTrials
<1>6. ExpersGo
    BY <1>1, <1>4, <1>5, ExperSet
<1>7. UNCHANGED <<prod, active, cand, dep, dpCall, consented, proposed>>
    BY DEF RunTrials
<1> QED BY <1>6, <1>7, MeasuringStep

LEMMA EvaluateInv == ASSUME DpInv, NEW e \in Exps, Evaluate(e) PROVE DpInv'
<1>1. e \in ExpRows
    BY DEF Evaluate
<1>2. exper[e] \in ExpRow /\ exper[e].cand \in Candidates /\ cand[exper[e].cand].status # "none"
    BY <1>1, Examined
<1>3. UNCHANGED <<prod, active, dep, dpCall, consented, proposed>> /\ active' \subseteq DpStates
    BY DEF Evaluate, dpHistory, DpInv, DpTyped
<1>4. CASE exper' = [exper EXCEPT ![e].verdict = "INSUFFICIENT"] /\ UNCHANGED cand
    <2>1. PICK r \in ExpRow : r = [exper[e] EXCEPT !.verdict = "INSUFFICIENT"]
        BY <1>2 DEF ExpRow
    <2>2. r.cand = exper[e].cand
        BY <1>2, <2>1 DEF ExpRow
    <2>3. ExpersGo
        BY <1>1, <1>4, <2>1, <2>2, ExperSet
    <2> QED BY <1>3, <1>4, <2>3, MeasuringStep
<1>5. ASSUME NEW v \in {"BETTER", "WORSE", "TIE"}, NEW s \in CandStatus \ {"none"},
             exper' = [exper EXCEPT ![e].status = "CONCLUDED", ![e].verdict = v], SetCandidate(exper[e].cand, s)
      PROVE  DpInv'
    <2>1. PICK r \in ExpRow : r = [exper[e] EXCEPT !.status = "CONCLUDED", !.verdict = v]
        BY <1>2 DEF ExpRow
    <2>2. r.cand = exper[e].cand
        BY <1>2, <2>1 DEF ExpRow
    <2>3. exper' = [exper EXCEPT ![e] = r]
        BY <1>2, <1>5, <2>1 DEF ExpRow, DpInv, DpTyped
    <2>4. ExpersGo
        BY <1>1, <2>2, <2>3, ExperSet
    <2> QED BY <1>2, <1>3, <1>5, <2>4, StatusStep
<1>6. {"VALIDATED", "REJECTED", "QUEUED"} \subseteq CandStatus \ {"none"}
    BY DEF CandStatus, Open
<1> QED BY <1>4, <1>5, <1>6 DEF Evaluate

LEMMA AbandonInv == ASSUME DpInv, NEW e \in Exps, Abandon(e) PROVE DpInv'
<1>1. e \in ExpRows
    BY DEF Abandon
<1>2. exper[e] \in ExpRow /\ exper[e].cand \in Candidates /\ cand[exper[e].cand].status # "none"
    BY <1>1, Examined
<1>3. PICK r \in ExpRow : r = [exper[e] EXCEPT !.status = "ABANDONED"]
    BY <1>2 DEF ExpRow
<1>4. r.cand = exper[e].cand
    BY <1>2, <1>3 DEF ExpRow
<1>5. exper' = [exper EXCEPT ![e] = r]
    BY <1>3 DEF Abandon
<1>6. ExpersGo
    BY <1>1, <1>4, <1>5, ExperSet
<1>7. "QUEUED" \in CandStatus \ {"none"} /\ SetCandidate(exper[e].cand, "QUEUED")
    BY DEF CandStatus, Open, Abandon
<1>8. UNCHANGED <<prod, active, dep, dpCall, consented, proposed>> /\ active' \subseteq DpStates
    BY DEF Abandon, dpHistory, DpInv, DpTyped
<1> QED BY <1>2, <1>6, <1>7, <1>8, StatusStep

-----------------------------------------------------------------------------
(* Calls and rows move together                                             *)

DepGoes ==
    /\ dep' \in [Rows -> DepRow] /\ RowsKept /\ RowsInOrder' /\ EffectiveOnRecord'
    /\ \A d \in DepRows' : RowConsented(d)'
CallsGo == dpCall' \in [DpCalls -> DpRow] /\ \A k \in DpCalls : DpCallHolds(dpCall[k])'

LEMMA Assemble ==
    ASSUME DpInv, DepGoes, CallsGo, prod' \in DpStates, active' \subseteq DpStates, EveryChangeRecorded',
           cand' \in [Candidates -> CandRow], CandProposed', UNCHANGED <<exper, proposed>>, consented' \subseteq proposed'
    PROVE  DpInv'
<1>1. DpTyped'
    BY DEF DpInv, DpTyped, DepGoes, CallsGo
<1>2. ExpersBorn'
    BY DEF DpInv, ExpersBorn, ExpRows, Born
<1> QED BY <1>1, <1>2 DEF DpInv, DepGoes, CallsGo

LEMMA DepStays == ASSUME DpInv, UNCHANGED <<dep, proposed, consented>> PROVE DepGoes
<1>1. RowsKept /\ DepRows' = DepRows /\ InEffect' = InEffect
    BY SameRows
<1>2. \A d \in DepRows' : RowConsented(d)'
    BY <1>1, RowHoldsOn DEF DpInv
<1>3. RowsInOrder' /\ EffectiveOnRecord'
    BY <1>1 DEF DpInv, RowsInOrder, EffectiveOnRecord
<1> QED BY <1>1, <1>2, <1>3 DEF DepGoes, DpInv, DpTyped

\* A call that keeps what it holds keeps it whatever rows are added.
LEMMA CallKept ==
    ASSUME DpInv, RowsKept, proposed \subseteq proposed', NEW j \in DpCalls, dpCall'[j] = dpCall[j]
    PROVE  DpCallHolds(dpCall[j])'
<1>1. PICK m \in DpRow : m = dpCall[j]
    BY DEF DpInv, DpTyped
<1>2. DpCallHolds(m)
    BY <1>1 DEF DpInv
<1>3. DpCallHolds(m)'
    BY <1>2, HoldsOn
<1>4. m = dpCall'[j]
    BY <1>1
<1> QED BY <1>3, <1>4 DEF DpCallHolds, DpInPlace, OnRecord, Consenting

LEMMA CallsStay ==
    ASSUME DpInv, RowsKept, UNCHANGED dpCall, proposed \subseteq proposed'
    PROVE  CallsGo
<1>1. \A j \in DpCalls : DpCallHolds(dpCall[j])'
    BY CallKept
<1> QED BY <1>1 DEF CallsGo, DpInv, DpTyped

LEMMA CallGoes ==
    ASSUME DpInv, RowsKept, proposed \subseteq proposed',
           NEW k \in DpCalls, NEW r \in DpRow, DpSet(k, r), DpCallHolds(r)'
    PROVE  CallsGo
<1>1. dpCall' \in [DpCalls -> DpRow] /\ dpCall'[k] = r /\ \A j \in DpCalls \ {k} : dpCall'[j] = dpCall[j]
    BY DpOneCall DEF DpInv, DpTyped
<1>2. ASSUME NEW j \in DpCalls PROVE DpCallHolds(dpCall[j])'
    <2>1. CASE j = k
        <3>1. r = dpCall'[j]
            BY <1>1, <2>1
        <3> QED BY <3>1 DEF DpCallHolds, DpInPlace, OnRecord, Consenting
    <2>2. CASE j # k
        BY <1>1, <2>2, CallKept
    <2> QED BY <2>1, <2>2
<1> QED BY <1>1, <1>2 DEF CallsGo

\* Only the call moves.
LEMMA CallOnly ==
    ASSUME DpInv, NEW k \in DpCalls, NEW r \in DpRow, DpSet(k, r), DpCallHolds(r), active' \subseteq DpStates,
           UNCHANGED <<prod, cand, exper, dep, proposed, consented>>
    PROVE  DpInv'
<1>1. RowsKept
    BY SameRows
<1>2. DpCallHolds(r)'
    BY <1>1, HoldsOn
<1>3. CallsGo
    BY <1>1, <1>2, CallGoes
<1>4. DepGoes /\ EveryChangeRecorded'
    BY <1>1, DepStays, RecordedOn DEF DpInv
<1>5. prod' \in DpStates /\ cand' \in [Candidates -> CandRow] /\ CandProposed' /\ consented' \subseteq proposed'
    BY DEF DpInv, DpTyped, CandProposed, Born
<1> QED BY <1>3, <1>4, <1>5, Assemble

\* The call is over.
LEMMA CallEnds ==
    ASSUME DpInv, NEW k \in DpCalls, DpSet(k, Idle), active' \subseteq DpStates,
           UNCHANGED <<prod, cand, exper, dep, proposed, consented>>
    PROVE  DpInv'
BY IdleRow, CallOnly

\* A row that is neither in effect nor more than it may be is added.
LEMMA RowGoes ==
    ASSUME DpInv, UNCHANGED proposed, consented \subseteq consented', NEW r \in DepRow, AddRow(r),
           r.status \in {"PENDING", "REFUSED"},
           r.approved => SomeConsent(r.cand)',
           r.versioned => <<r.cand, r.applied>> \in proposed /\ (r.cand \in NeedsConsent => SomeConsent(r.cand)')
    PROVE  DepGoes /\ \E n \in DepRows' : n = Cardinality(DepRows) + 1 /\ dep'[n] = r
<1>1. r.status # "none"
    OBVIOUS
<1>2. PICK n \in Rows :
         /\ n = Cardinality(DepRows) + 1 /\ n \notin DepRows
         /\ dep' \in [Rows -> DepRow] /\ dep'[n] = r /\ \A e \in Rows \ {n} : dep'[e] = dep[e]
         /\ RowsKept /\ DepRows' = DepRows \union {n} /\ RowsInOrder'
    BY <1>1, RowAdded DEF DpInv
<1>3. EffectiveOnRecord'
    <2>1. InEffect' \subseteq InEffect /\ \A e \in InEffect : e \in DepRows
        BY <1>2 DEF InEffect, Effective, DepRows
    <2> QED BY <1>2, <2>1 DEF DpInv, EffectiveOnRecord, RowsKept
<1>4. ASSUME NEW d \in DepRows' PROVE RowConsented(d)'
    <2>1. CASE d = n
        BY <1>2, <2>1 DEF RowConsented
    <2>2. CASE d \in DepRows
        BY <1>2, <2>2, RowHoldsOn DEF DpInv
    <2> QED BY <1>2, <2>1, <2>2
<1> QED BY <1>2, <1>3, <1>4 DEF DepGoes

\* One row takes another status and other counts.
LEMMA RowTurns ==
    ASSUME DpInv, UNCHANGED <<proposed, consented>>, NEW d \in DepRows, NEW r \in DepRow,
           dep' = [dep EXCEPT ![d] = r], r.status # "none",
           r.cand = dep[d].cand, r.applied = dep[d].applied, r.rollback = dep[d].rollback,
           r.approved = dep[d].approved, r.versioned = dep[d].versioned,
           r.status = dep[d].status \/ dep[d].versioned
    PROVE  DepGoes
<1>1. /\ dep' \in [Rows -> DepRow] /\ dep'[d] = r /\ \A e \in Rows \ {d} : dep'[e] = dep[e]
      /\ RowsKept /\ DepRows' = DepRows
    BY OneRow DEF DpInv
<1>2. EffectiveOnRecord'
    <2>1. \A e \in InEffect' : e \in InEffect \/ (e = d /\ dep[d].versioned)
        <3>1. ASSUME NEW e \in InEffect', e # d PROVE e \in InEffect
            BY <1>1, <3>1 DEF InEffect, Effective, DepRows
        <3>2. d \in InEffect' => d \in InEffect \/ dep[d].versioned
            BY <1>1 DEF InEffect, Effective
        <3> QED BY <3>1, <3>2
    <2>2. \A e \in InEffect' : e \in DepRows
        BY <1>1 DEF InEffect
    <2> QED BY <1>1, <2>1, <2>2 DEF DpInv, EffectiveOnRecord, RowsKept
<1>3. \A e \in DepRows' : RowConsented(e)'
    BY <1>1, RowHoldsOn DEF DpInv
<1>4. RowsInOrder'
    BY <1>1 DEF DpInv, RowsInOrder
<1> QED BY <1>1, <1>2, <1>3, <1>4 DEF DepGoes

\* The call moves and the rows with it.
LEMMA CallAndRows ==
    ASSUME DpInv, DepGoes, NEW k \in DpCalls, NEW r \in DpRow, DpSet(k, r), DpCallHolds(r)',
           UNCHANGED <<prod, active, cand, exper, proposed, consented>>
    PROVE  DpInv'
<1>1. CallsGo
    BY CallGoes DEF DepGoes
<1>2. EveryChangeRecorded'
    BY RecordedOn DEF DepGoes, DpInv
<1>3. /\ prod' \in DpStates /\ active' \subseteq DpStates /\ cand' \in [Candidates -> CandRow] /\ CandProposed'
      /\ consented' \subseteq proposed'
    BY DEF DpInv, DpTyped, CandProposed, Born
<1> QED BY <1>1, <1>2, <1>3, Assemble

-----------------------------------------------------------------------------
(* Approval and deployment                                                  *)

LEMMA ApproveInv == ASSUME DpInv, NEW c \in Candidates, Approve(c) PROVE DpInv'
<1>1. cand[c].status # "none" /\ cand[c] \in CandRow
    BY DEF Approve, DpInv, DpTyped
<1>2. PICK r \in DepRow : r = [NoDep EXCEPT !.status = "PENDING", !.cand = c, !.applied = cand[c].change,
                                           !.approved = TRUE]
    BY <1>1, IdleRow DEF DepRow, CandRow, DepStatus
<1>3. r.status = "PENDING" /\ r.cand = c /\ ~r.versioned
    BY <1>2 DEF NoDep
<1>4. AddRow(r) /\ consented' = consented \union {<<c, cand[c].change>>} /\ UNCHANGED proposed
    BY <1>2 DEF Approve
<1>5. SomeConsent(r.cand)' /\ consented \subseteq consented'
    BY <1>3, <1>4 DEF SomeConsent
<1>6. DepGoes
    BY <1>3, <1>4, <1>5, RowGoes
<1>7. consented' \subseteq proposed'
    BY <1>1, <1>4 DEF DpInv, DpTyped, CandProposed
<1>8. CallsGo /\ EveryChangeRecorded'
    BY <1>4, <1>6, CallsStay, RecordedOn DEF DepGoes, DpInv, Approve
<1>9. /\ prod' \in DpStates /\ active' \subseteq DpStates /\ cand' \in [Candidates -> CandRow] /\ CandProposed'
      /\ UNCHANGED <<exper, proposed>>
    BY DEF DpInv, DpTyped, CandProposed, Born, Approve
<1> QED BY <1>6, <1>7, <1>8, <1>9, Assemble

LEMMA DeployBeginInv == ASSUME DpInv, NEW k \in DpCalls, DeployBegin(k) PROVE DpInv'
<1>1. PICK c \in Candidates :
         /\ cand[c].status \notin {"none", "DEPLOYED"}
         /\ DpSet(k, [Idle EXCEPT !.pc = "before", !.op = "deploy", !.cand = c, !.change = cand[c].change])
    BY DEF DeployBegin, DpBegin
<1>2. cand[c] \in CandRow
    BY DEF DpInv, DpTyped
<1>3. PICK r \in DpRow : r = [Idle EXCEPT !.pc = "before", !.op = "deploy", !.cand = c, !.change = cand[c].change]
    BY <1>2, IdleRow DEF DpRow, CandRow, DpPcs, DpOps
<1>4. r.pc = "before" /\ r.op = "deploy" /\ r.cand = c /\ r.change = cand[c].change
    BY <1>3 DEF Idle
<1>5. DpCallHolds(r)
    BY <1>1, <1>4 DEF DpCallHolds, DpInPlace, OnRecord, Consenting, Acting, DpInv, CandProposed
<1>6. UNCHANGED <<prod, cand, exper, dep, proposed, consented>> /\ active' \subseteq DpStates
    BY DEF DeployBegin, dpHistory, DpInv, DpTyped
<1> QED BY <1>1, <1>3, <1>5, <1>6, CallOnly

LEMMA DeployBeforeInv == ASSUME DpInv, NEW k \in DpCalls, DeployBefore(k) PROVE DpInv'
<1>1. dpCall[k] \in DpRow /\ DpCallHolds(dpCall[k]) /\ dpCall[k].pc = "before"
    BY DEF DpInv, DpTyped, DeployBefore, DpAt
<1>2. PICK r \in DpRow : r = [dpCall[k] EXCEPT !.pc = "approval", !.before = prod]
    BY <1>1 DEF DpRow, DpPcs, DpInv, DpTyped
<1>3. /\ r.pc = "approval" /\ r.op = dpCall[k].op /\ r.cand = dpCall[k].cand /\ r.change = dpCall[k].change
    BY <1>1, <1>2 DEF DpRow
<1>4. DpCallHolds(r)
    BY <1>1, <1>3 DEF DpCallHolds, DpInPlace, OnRecord, Consenting, Acting
<1>5. UNCHANGED <<prod, cand, exper, dep, proposed, consented>> /\ active' \subseteq DpStates /\ DpSet(k, r)
    BY <1>2 DEF DeployBefore, dpHistory, DpInv, DpTyped, Before
<1> QED BY <1>4, <1>5, CallOnly

LEMMA FindApprovalInv == ASSUME DpInv, NEW k \in DpCalls, FindApproval(k) PROVE DpInv'
<1>1. dpCall[k] \in DpRow /\ DpCallHolds(dpCall[k]) /\ dpCall[k].pc = "approval"
    BY DEF DpInv, DpTyped, FindApproval, DpAt
<1> DEFINE pending == {d \in DepRows : dep[d].cand = dpCall[k].cand /\ dep[d].status = "PENDING"}
           found == IF pending = {} THEN 0 ELSE CHOOSE d \in pending : \A o \in pending : o <= d
<1>2. DpSet(k, [dpCall[k] EXCEPT !.pc = "review", !.approval = found])
    BY DEF FindApproval
<1>3. found = 0 \/ found \in pending
    <2>1. pending \subseteq 0 .. MaxRows /\ MaxRows \in Nat
        BY DeploymentsAssumption DEF DepRows, Rows
    <2>2. pending # {} => \E m \in pending : \A o \in pending : o <= m
        BY <2>1, LatestOf
    <2> QED BY <2>2
<1>4. found = 0 \/ (found \in DepRows /\ dep[found].cand = dpCall[k].cand)
    <2> HIDE DEF found
    <2> QED BY <1>3
<1> HIDE DEF pending, found
<1>5. PICK r \in DpRow : r = [dpCall[k] EXCEPT !.pc = "review", !.approval = found]
    BY <1>1, <1>4 DEF DpRow, DpPcs, DepRows
<1>6. /\ r.pc = "review" /\ r.op = dpCall[k].op /\ r.cand = dpCall[k].cand /\ r.change = dpCall[k].change
      /\ r.approval = found
    BY <1>1, <1>5 DEF DpRow
<1>7. DpCallHolds(r)
    BY <1>1, <1>4, <1>6 DEF DpCallHolds, DpInPlace, OnRecord, Consenting, Acting
<1>8. UNCHANGED <<prod, cand, exper, dep, proposed, consented>> /\ active' \subseteq DpStates
    BY DEF FindApproval, dpHistory, DpInv, DpTyped
<1> QED BY <1>2, <1>5, <1>7, <1>8, CallOnly

LEMMA ReviewInv == ASSUME DpInv, NEW k \in DpCalls, Review(k) PROVE DpInv'
<1>1. dpCall[k] \in DpRow /\ DpCallHolds(dpCall[k]) /\ dpCall[k].pc = "review"
    BY DEF DpInv, DpTyped, Review, DpAt
<1>2. UNCHANGED <<prod, active, cand, exper, proposed, consented>> /\ active' \subseteq DpStates
    BY DEF Review, dpHistory, DpInv, DpTyped
<1>3. CASE HumanConsent(k) /\ DpGo(k, StepAfterReview) /\ UNCHANGED dep
    <2>1. DpGo(k, "record") /\ "record" \in DpPcs
        BY <1>3 DEF StepAfterReview, DpPcs
    <2>2. PICK r \in DpRow : DpSet(k, r) /\ r.pc = "record" /\ SameCall(r, dpCall[k])
        BY <2>1, DpGoes DEF DpInv
    <2>3. r.cand \in NeedsConsent => r.approval # 0 /\ dep[r.approval].approved
        BY <1>3, <2>2 DEF HumanConsent, ApprovedByPerson, SameCall
    <2>4. DpCallHolds(r)
        BY <1>1, <2>2, <2>3 DEF DpCallHolds, DpInPlace, OnRecord, Consenting, Acting, SameCall
    <2> QED BY <1>2, <1>3, <2>2, <2>4, CallOnly
<1>4. CASE /\ AddRow([NoDep EXCEPT !.status = "REFUSED", !.cand = dpCall[k].cand,
                                   !.applied = dpCall[k].change, !.rollback = dpCall[k].before])
           /\ DpSet(k, Idle)
    <2>1. PICK r \in DepRow : r = [NoDep EXCEPT !.status = "REFUSED", !.cand = dpCall[k].cand,
                                               !.applied = dpCall[k].change, !.rollback = dpCall[k].before]
        BY <1>1, IdleRow DEF DepRow, DpRow, DepStatus
    <2>2. r.status = "REFUSED" /\ ~r.approved /\ ~r.versioned
        BY <2>1 DEF NoDep
    <2>3. DepGoes
        BY <1>2, <1>4, <2>1, <2>2, RowGoes
    <2>4. DpCallHolds(Idle)'
        BY IdleRow, HoldsOn, <1>2, <2>3 DEF DepGoes
    <2> QED BY <1>2, <1>4, <2>3, <2>4, IdleRow, CallAndRows
<1> QED BY <1>3, <1>4 DEF Review

LEMMA RecordInv == ASSUME DpInv, NEW k \in DpCalls, Record(k) PROVE DpInv'
<1>1. dpCall[k] \in DpRow /\ DpCallHolds(dpCall[k]) /\ dpCall[k].pc = "record"
    BY DEF DpInv, DpTyped, Record, DpAt
<1>2. UNCHANGED <<prod, active, cand, exper, proposed, consented>>
    BY DEF Record, dpHistory
<1>3. PICK m \in DpRow : m = dpCall[k]
    BY <1>1
<1>4. ApprovedByPerson(k) \in BOOLEAN /\ (ApprovedByPerson(k) => SomeConsent(m.cand))
    <2>1. ApprovedByPerson(k) => m.approval \in DepRows /\ dep[m.approval].cand = m.cand /\ dep[m.approval].approved
        BY <1>1, <1>3 DEF ApprovedByPerson, DpCallHolds, Consenting
    <2>2. ApprovedByPerson(k) \in BOOLEAN
        <3>1. m.approval \in DepRows => dep[m.approval] \in DepRow
            BY DEF DpInv, DpTyped, DepRows
        <3> QED BY <1>1, <1>3, <3>1 DEF ApprovedByPerson, DpCallHolds, Consenting, DepRow
    <2> QED BY <2>1, <2>2 DEF DpInv, RowConsented
<1>5. PICK r \in DepRow : r = [NoDep EXCEPT !.status = "PENDING", !.cand = m.cand, !.applied = m.change,
                                           !.rollback = m.before, !.approved = ApprovedByPerson(k),
                                           !.versioned = TRUE]
    BY <1>4, IdleRow DEF DepRow, DpRow, DepStatus
<1>6. /\ r.status = "PENDING" /\ r.cand = m.cand /\ r.applied = m.change /\ r.versioned
      /\ r.approved = ApprovedByPerson(k)
    BY <1>5 DEF NoDep
<1>7. r.cand \in NeedsConsent => SomeConsent(r.cand)
    BY <1>1, <1>3, <1>4, <1>6 DEF DpCallHolds, Consenting, ApprovedByPerson
<1>8. <<r.cand, r.applied>> \in proposed
    BY <1>1, <1>3, <1>6 DEF DpCallHolds, Consenting
<1>9. SomeConsent(r.cand) => SomeConsent(r.cand)'
    BY <1>2 DEF SomeConsent
<1>10. AddRow(r)
    BY <1>3, <1>5 DEF Record
<1>11. DepGoes /\ \E n \in DepRows' : n = Cardinality(DepRows) + 1 /\ dep'[n] = r
    BY <1>2, <1>4, <1>6, <1>7, <1>8, <1>9, <1>10, RowGoes
<1>12. PICK n \in DepRows' : n = Cardinality(DepRows) + 1 /\ dep'[n] = r
    BY <1>11
<1>13. PICK q \in DpRow : q = [m EXCEPT !.pc = "write", !.row = n]
    BY <1>3, <1>12 DEF DpRow, DpPcs, DepRows
<1>14. DpSet(k, q)
    BY <1>3, <1>12, <1>13 DEF Record
<1>15. q.pc = "write" /\ q.row = n /\ q.op = m.op /\ q.change = m.change /\ q.cand = m.cand
    BY <1>13 DEF DpRow
<1>16. m.op = "deploy"
    BY <1>1, <1>3 DEF DpCallHolds, DpInPlace
<1>17. DpCallHolds(q)'
    BY <1>6, <1>12, <1>15, <1>16 DEF DpCallHolds, DpInPlace, OnRecord, Consenting, Acting
<1> QED BY <1>2, <1>11, <1>14, <1>17, CallAndRows

\* A call goes on with all it holds.
LEMMA CallGoesOn ==
    ASSUME DpInv, NEW k \in DpCalls, NEW from \in Acting, NEW to \in Acting, DpAt(k, from), DpGo(k, to)
    PROVE  \E r \in DpRow : DpSet(k, r) /\ DpCallHolds(r)
<1>1. dpCall[k] \in DpRow /\ DpCallHolds(dpCall[k]) /\ dpCall[k].pc \in Acting
    BY DEF DpInv, DpTyped, DpAt
<1>2. to \in DpPcs
    BY DEF Acting, DpPcs
<1>3. PICK r \in DpRow : DpSet(k, r) /\ r.pc = to /\ SameCall(r, dpCall[k])
    BY <1>2, DpGoes DEF DpInv
<1>4. DpCallHolds(r)
    BY <1>1, <1>3 DEF DpCallHolds, DpInPlace, OnRecord, Consenting, Acting, SameCall
<1> QED BY <1>3, <1>4

\* What a call that acts works on, and what it writes.
LEMMA Acts ==
    ASSUME DpInv, NEW k \in DpCalls, dpCall[k].pc \in Acting
    PROVE  /\ dpCall[k] \in DpRow /\ dpCall[k].row \in DepRows /\ dpCall[k].row \in Rows
           /\ dep[dpCall[k].row] \in DepRow /\ dep[dpCall[k].row].versioned
           /\ Payload(k) \in DpStates
           /\ Payload(k) \in {dep[dpCall[k].row].applied, dep[dpCall[k].row].rollback}
<1>1. dpCall[k] \in DpRow /\ DpCallHolds(dpCall[k])
    BY DEF DpInv, DpTyped
<1>2. dpCall[k].row \in DepRows /\ dpCall[k].row \in Rows
    BY <1>1 DEF DpCallHolds, OnRecord, DepRows
<1>3. dep[dpCall[k].row] \in DepRow
    BY <1>2 DEF DpInv, DpTyped
<1>4. dep[dpCall[k].row].versioned /\ (dpCall[k].op = "deploy" => dep[dpCall[k].row].applied = dpCall[k].change)
    BY <1>1 DEF DpCallHolds, OnRecord
<1>5. Payload(k) \in {dep[dpCall[k].row].applied, dep[dpCall[k].row].rollback}
    BY <1>4 DEF Payload
<1> QED BY <1>1, <1>2, <1>3, <1>4, <1>5 DEF DepRow

LEMMA WriteProductionInv == ASSUME DpInv, NEW k \in DpCalls, WriteProduction(k) PROVE DpInv'
<1>1. DpAt(k, "write") /\ DpGo(k, "deactivate") /\ {"write", "deactivate"} \subseteq Acting
    BY DEF WriteProduction, Acting
<1>2. PICK r \in DpRow : DpSet(k, r) /\ DpCallHolds(r)
    BY <1>1, CallGoesOn
<1>3. UNCHANGED <<active, cand, exper, dep, proposed, consented>> /\ prod' = Payload(k)
    BY DEF WriteProduction, dpHistory
<1>4. dpCall[k].pc \in Acting
    BY <1>1 DEF DpAt
<1>5. /\ dpCall[k].row \in DepRows /\ dep[dpCall[k].row].versioned /\ Payload(k) \in DpStates
      /\ Payload(k) \in {dep[dpCall[k].row].applied, dep[dpCall[k].row].rollback}
    BY <1>4, Acts
<1>6. DepGoes /\ RowsKept /\ DepRows' = DepRows
    BY <1>3, DepStays, SameRows
<1>7. EveryChangeRecorded'
    BY <1>3, <1>5, <1>6 DEF EveryChangeRecorded
<1>8. DpCallHolds(r)'
    BY <1>2, <1>3, <1>6, HoldsOn
<1>9. CallsGo
    BY <1>2, <1>3, <1>6, <1>8, CallGoes
<1>10. /\ prod' \in DpStates /\ active' \subseteq DpStates /\ cand' \in [Candidates -> CandRow] /\ CandProposed'
       /\ consented' \subseteq proposed'
    BY <1>3, <1>5 DEF DpInv, DpTyped, CandProposed, Born
<1> QED BY <1>3, <1>6, <1>7, <1>9, <1>10, Assemble

LEMMA ActivateInv == ASSUME DpInv, NEW k \in DpCalls, Deactivate(k) \/ Activate(k) PROVE DpInv'
<1>1. dpCall[k] \in DpRow /\ DpCallHolds(dpCall[k])
    BY DEF DpInv, DpTyped
<1>2. CASE Deactivate(k)
    <2>1. dpCall[k].pc = "deactivate"
        BY <1>2 DEF Deactivate, DpAt
    <2>2. PICK r \in DpRow : r = [dpCall[k] EXCEPT !.pc = "activate", !.seen = active]
        BY <1>1 DEF DpRow, DpPcs, DpInv, DpTyped
    <2>3. r.pc = "activate" /\ r.op = dpCall[k].op /\ r.row = dpCall[k].row /\ r.change = dpCall[k].change
          /\ r.held = dpCall[k].held /\ r.cand = dpCall[k].cand /\ r.approval = dpCall[k].approval
        BY <1>1, <2>2 DEF DpRow
    <2>4. DpCallHolds(r)
        BY <1>1, <2>1, <2>3 DEF DpCallHolds, DpInPlace, OnRecord, Consenting, Acting
    <2>5. UNCHANGED <<prod, cand, exper, dep, proposed, consented>> /\ active' \subseteq DpStates /\ DpSet(k, r)
        BY <1>2, <2>2 DEF Deactivate, dpHistory, DpInv, DpTyped
    <2> QED BY <2>4, <2>5, CallOnly
<1>3. CASE Activate(k)
    <2>1. DpAt(k, "activate") /\ DpGo(k, "status") /\ {"activate", "status"} \subseteq Acting
        BY <1>3 DEF Activate, Acting
    <2>2. PICK r \in DpRow : DpSet(k, r) /\ DpCallHolds(r)
        BY <2>1, CallGoesOn
    <2>3. dpCall[k].pc \in Acting
        BY <2>1 DEF DpAt
    <2>4. Payload(k) \in DpStates
        BY <2>3, Acts
    <2>5. UNCHANGED <<prod, cand, exper, dep, proposed, consented>> /\ active' \subseteq DpStates
        BY <1>3, <2>4 DEF Activate, dpHistory, DpInv, DpTyped
    <2> QED BY <2>2, <2>5, CallOnly
<1> QED BY <1>2, <1>3

LEMMA RowStatusInv == ASSUME DpInv, NEW k \in DpCalls, RowStatus(k) PROVE DpInv'
<1>1. DpAt(k, "status") /\ DpGo(k, "candidate") /\ {"status", "candidate"} \subseteq Acting
    BY DEF RowStatus, Acting
<1>2. PICK r \in DpRow : DpSet(k, r) /\ DpCallHolds(r)
    BY <1>1, CallGoesOn
<1>3. PICK d \in DepRows : d = dpCall[k].row /\ d \in Rows /\ dep[d] \in DepRow /\ dep[d].versioned
    BY <1>1, Acts DEF DpAt
<1>4. PICK s \in {"MONITORING", "ROLLED_BACK"} : dep' = [dep EXCEPT ![d].status = s]
    BY <1>3 DEF RowStatus
<1>5. PICK q \in DepRow : q = [dep[d] EXCEPT !.status = s]
    BY <1>3 DEF DepRow, DepStatus
<1>6. /\ q.status # "none" /\ q.cand = dep[d].cand /\ q.applied = dep[d].applied /\ q.rollback = dep[d].rollback
      /\ q.approved = dep[d].approved /\ q.versioned = dep[d].versioned
    BY <1>3, <1>5 DEF DepRow
<1>7. UNCHANGED <<prod, active, cand, exper, proposed, consented>> /\ dep' = [dep EXCEPT ![d] = q]
    BY <1>4, <1>5 DEF RowStatus, dpHistory
<1>8. DepGoes
    BY <1>3, <1>6, <1>7, RowTurns
<1>9. DpCallHolds(r)'
    BY <1>2, <1>7, <1>8, HoldsOn DEF DepGoes
<1> QED BY <1>2, <1>7, <1>8, <1>9, CallAndRows

LEMMA CandidateStatusInv == ASSUME DpInv, NEW k \in DpCalls, CandidateStatus(k) PROVE DpInv'
<1>1. dpCall[k] \in DpRow /\ DpCallHolds(dpCall[k]) /\ dpCall[k].pc = "candidate" /\ dpCall[k].pc \in Acting
    BY DEF DpInv, DpTyped, CandidateStatus, DpAt, Acting
<1>2. PICK d \in DepRows : d = dpCall[k].row /\ dep[d] \in DepRow /\ dep[d].versioned
    BY <1>1, Acts
<1>3. PICK c \in Candidates : c = dep[d].cand
    BY <1>2 DEF DepRow
<1>4. cand[c].status # "none"
    BY <1>2, <1>3 DEF DpInv, RowConsented, CandProposed, Born
<1>5. PICK s \in CandStatus \ {"none"} : SetCandidate(c, s)
    BY <1>2, <1>3 DEF CandidateStatus, CandStatus
<1>6. UNCHANGED <<prod, active, exper, dep, proposed, consented>>
    BY DEF CandidateStatus, dpHistory
<1>7. cand' \in [Candidates -> CandRow] /\ CandProposed'
    BY <1>4, <1>5, <1>6, CandidateSet
<1>8. PICK r \in DpRow : DpSet(k, r) /\ DpCallHolds(r)
    <2>1. CASE dpCall[k].op = "sweep" /\ DpGo(k, "sweep")
        <3>1. "sweep" \in DpPcs
            BY DEF DpPcs
        <3>2. PICK r \in DpRow : DpSet(k, r) /\ r.pc = "sweep" /\ SameCall(r, dpCall[k])
            BY <2>1, <3>1, DpGoes DEF DpInv
        <3>3. DpCallHolds(r)
            BY <1>1, <2>1, <3>2 DEF DpCallHolds, DpInPlace, OnRecord, Consenting, Acting, SameCall
        <3> QED BY <3>2, <3>3
    <2>2. CASE DpSet(k, Idle)
        BY <2>2, IdleRow
    <2> QED BY <2>1, <2>2 DEF CandidateStatus
<1>9. DepGoes /\ RowsKept
    BY <1>6, DepStays, SameRows
<1>10. DpCallHolds(r)'
    BY <1>6, <1>8, <1>9, HoldsOn
<1>11. CallsGo /\ EveryChangeRecorded'
    BY <1>6, <1>8, <1>9, <1>10, CallGoes, RecordedOn DEF DpInv
<1>12. prod' \in DpStates /\ active' \subseteq DpStates /\ consented' \subseteq proposed'
    BY <1>6 DEF DpInv, DpTyped
<1> QED BY <1>6, <1>7, <1>9, <1>11, <1>12, Assemble

LEMMA WriteFailsInv == ASSUME DpInv, NEW k \in DpCalls, WriteFails(k) PROVE DpInv'
<1>1. UNCHANGED <<prod, active, cand, exper, proposed, consented>> /\ DpSet(k, Idle) /\ active' \subseteq DpStates
    BY DEF WriteFails, dpHistory, DpInv, DpTyped
<1>2. PICK d \in DepRows : d = dpCall[k].row /\ d \in Rows /\ dep[d] \in DepRow /\ dep[d].versioned
    BY Acts DEF WriteFails, Acting
<1>3. CASE dep' = [dep EXCEPT ![d].status = "FAILED"]
    <2>1. PICK q \in DepRow : q = [dep[d] EXCEPT !.status = "FAILED"]
        BY <1>2 DEF DepRow, DepStatus
    <2>2. /\ q.status # "none" /\ q.cand = dep[d].cand /\ q.applied = dep[d].applied
          /\ q.rollback = dep[d].rollback /\ q.approved = dep[d].approved /\ q.versioned = dep[d].versioned
        BY <1>2, <2>1 DEF DepRow
    <2>3. dep' = [dep EXCEPT ![d] = q]
        BY <1>3, <2>1
    <2>4. DepGoes
        BY <1>1, <1>2, <2>2, <2>3, RowTurns
    <2>5. DpCallHolds(Idle)'
        BY <1>1, <2>4, IdleRow, HoldsOn DEF DepGoes
    <2> QED BY <1>1, <2>4, <2>5, IdleRow, CallAndRows
<1>4. CASE UNCHANGED dep
    BY <1>1, <1>4, CallEnds
<1> QED BY <1>2, <1>3, <1>4 DEF WriteFails

LEMMA DpDiesInv == ASSUME DpInv, NEW k \in DpCalls, DpDies(k) PROVE DpInv'
<1>1. UNCHANGED <<prod, cand, exper, dep, proposed, consented>> /\ DpSet(k, Idle) /\ active' \subseteq DpStates
    BY DEF DpDies, dpHistory, DpInv, DpTyped
<1> QED BY <1>1, CallEnds

-----------------------------------------------------------------------------
(* Rollback, observation and sweep                                          *)

\* A call begins that works on a row there is.
LEMMA WorkBegins ==
    ASSUME DpInv, NEW k \in DpCalls, NEW d \in DepRows, NEW step \in {"rollback", "observe"}, NEW r \in DpRow,
           DpSet(k, r), r.pc = step, r.op = step, r.row = d,
           UNCHANGED <<prod, active, cand, exper, dep, proposed, consented>>
    PROVE  DpInv'
<1>1. DpCallHolds(r)
    BY DEF DpCallHolds, DpInPlace, OnRecord, Consenting, Acting
<1>2. active' \subseteq DpStates
    BY DEF DpInv, DpTyped
<1> QED BY <1>1, <1>2, CallOnly

LEMMA RollbackBeginInv == ASSUME DpInv, NEW k \in DpCalls, RollbackBegin(k) PROVE DpInv'
<1>1. PICK d \in DepRows : DpSet(k, [Idle EXCEPT !.pc = "rollback", !.op = "rollback", !.row = d])
    BY DEF RollbackBegin, DpBegin
<1>2. PICK r \in DpRow : r = [Idle EXCEPT !.pc = "rollback", !.op = "rollback", !.row = d]
    BY IdleRow DEF DpRow, DpPcs, DpOps, DepRows
<1>3. r.pc = "rollback" /\ r.op = "rollback" /\ r.row = d
    BY <1>2 DEF Idle
<1>4. UNCHANGED <<prod, active, cand, exper, dep, proposed, consented>>
    BY DEF RollbackBegin, dpHistory
<1> QED BY <1>1, <1>2, <1>3, <1>4, WorkBegins

LEMMA ObserveBeginInv == ASSUME DpInv, NEW k \in DpCalls, ObserveBegin(k) PROVE DpInv'
<1>1. PICK d \in DepRows, failed \in {0, 1} :
         DpSet(k, [Idle EXCEPT !.pc = "observe", !.op = "observe", !.row = d,
                              !.trials = dep[d].trials + 1, !.failures = dep[d].failures + failed])
    BY DEF ObserveBegin, DpBegin
<1>2. dep[d] \in DepRow
    BY DEF DpInv, DpTyped, DepRows
<1>3. PICK t \in Nat, f \in Nat : t = dep[d].trials + 1 /\ f = dep[d].failures + failed
    BY <1>2 DEF DepRow
<1>4. PICK r \in DpRow : r = [Idle EXCEPT !.pc = "observe", !.op = "observe", !.row = d, !.trials = t, !.failures = f]
    BY IdleRow DEF DpRow, DpPcs, DpOps, DepRows
<1>5. r.pc = "observe" /\ r.op = "observe" /\ r.row = d
    BY <1>4 DEF Idle
<1>6. UNCHANGED <<prod, active, cand, exper, dep, proposed, consented>>
    BY DEF ObserveBegin, dpHistory
<1> QED BY <1>1, <1>3, <1>4, <1>5, <1>6, WorkBegins

LEMMA SweepBeginInv == ASSUME DpInv, NEW k \in DpCalls, SweepBegin(k) PROVE DpInv'
<1>1. PICK S \in SUBSET {d \in DepRows : dep[d].status = "MONITORING"} :
         DpSet(k, [Idle EXCEPT !.pc = "sweep", !.op = "sweep", !.held = S,
                              !.failing = {d \in S : Failing(dep[d].trials, dep[d].failures)}])
    BY DEF SweepBegin, DpBegin
<1>2. PICK F \in SUBSET S : F = {d \in S : Failing(dep[d].trials, dep[d].failures)}
    OBVIOUS
<1>3. PICK r \in DpRow : r = [Idle EXCEPT !.pc = "sweep", !.op = "sweep", !.held = S, !.failing = F]
    BY IdleRow DEF DpRow, DpPcs, DpOps, DepRows
<1>4. r.pc = "sweep" /\ r.op = "sweep" /\ r.held = S
    BY <1>3 DEF Idle
<1>5. \A d \in S : d \in DepRows /\ dep[d].versioned
    BY DEF DpInv, EffectiveOnRecord, InEffect, Effective
<1>6. DpCallHolds(r)
    BY <1>4, <1>5 DEF DpCallHolds, DpInPlace, OnRecord, Consenting, Acting
<1>7. UNCHANGED <<prod, cand, exper, dep, proposed, consented>> /\ active' \subseteq DpStates
    BY DEF SweepBegin, dpHistory, DpInv, DpTyped
<1> QED BY <1>1, <1>2, <1>3, <1>6, <1>7, CallOnly

LEMMA RollbackReadInv == ASSUME DpInv, NEW k \in DpCalls, RollbackRead(k) PROVE DpInv'
<1>1. dpCall[k] \in DpRow /\ DpCallHolds(dpCall[k]) /\ dpCall[k].pc = "rollback"
    BY DEF DpInv, DpTyped, RollbackRead, DpAt
<1>2. UNCHANGED <<prod, cand, exper, dep, proposed, consented>> /\ active' \subseteq DpStates
    BY DEF RollbackRead, dpHistory, DpInv, DpTyped
<1>3. CASE Effective(dpCall[k].row) /\ DpGo(k, "write")
    <2>1. "write" \in DpPcs
        BY DEF DpPcs
    <2>2. PICK r \in DpRow : DpSet(k, r) /\ r.pc = "write" /\ SameCall(r, dpCall[k])
        BY <1>3, <2>1, DpGoes DEF DpInv
    <2>3. dpCall[k].row \in DepRows /\ dep[dpCall[k].row].versioned
        BY <1>1, <1>3 DEF DpCallHolds, OnRecord, DpInv, EffectiveOnRecord, InEffect
    <2>4. DpCallHolds(r)
        BY <1>1, <2>2, <2>3 DEF DpCallHolds, DpInPlace, OnRecord, Consenting, Acting, SameCall
    <2> QED BY <1>2, <2>2, <2>4, CallOnly
<1>4. CASE DpSet(k, Idle)
    BY <1>2, <1>4, CallEnds
<1> QED BY <1>3, <1>4 DEF RollbackRead

LEMMA ObserveWriteInv == ASSUME DpInv, NEW k \in DpCalls, ObserveWrite(k) PROVE DpInv'
<1>1. dpCall[k] \in DpRow /\ DpCallHolds(dpCall[k]) /\ dpCall[k].pc = "observe"
    BY DEF DpInv, DpTyped, ObserveWrite, DpAt
<1>2. PICK d \in DepRows : d = dpCall[k].row /\ d \in Rows /\ dep[d] \in DepRow
    BY <1>1 DEF DpCallHolds, OnRecord, DepRows, DpInv, DpTyped
<1>3. PICK t \in Nat, f \in Nat : t = dpCall[k].trials /\ f = dpCall[k].failures
    BY <1>1 DEF DpRow
<1>4. PICK q \in DepRow : q = [dep[d] EXCEPT !.trials = t, !.failures = f]
    BY <1>2 DEF DepRow
<1>5. /\ q.status = dep[d].status /\ q.cand = dep[d].cand /\ q.applied = dep[d].applied
      /\ q.rollback = dep[d].rollback /\ q.approved = dep[d].approved /\ q.versioned = dep[d].versioned
    BY <1>2, <1>4 DEF DepRow
<1>6. dep' = [dep EXCEPT ![d] = q]
    <2>1. dep' = [dep EXCEPT ![d].trials = t, ![d].failures = f]
        BY <1>2, <1>3 DEF ObserveWrite
    <2> QED BY <1>2, <1>4, <2>1 DEF DpInv, DpTyped, DepRow
<1>7. UNCHANGED <<prod, active, cand, exper, proposed, consented>>
    BY DEF ObserveWrite, dpHistory
<1>8. DepGoes
    BY <1>2, <1>5, <1>6, <1>7, RowTurns DEF DepRows
<1>9. PICK r \in DpRow : DpSet(k, r) /\ DpCallHolds(r)
    <2>1. CASE DpGo(k, "rollback")
        <3>1. "rollback" \in DpPcs
            BY DEF DpPcs
        <3>2. PICK r \in DpRow : DpSet(k, r) /\ r.pc = "rollback" /\ SameCall(r, dpCall[k])
            BY <2>1, <3>1, DpGoes DEF DpInv
        <3>3. DpCallHolds(r)
            BY <1>1, <3>2 DEF DpCallHolds, DpInPlace, OnRecord, Consenting, Acting, SameCall
        <3> QED BY <3>2, <3>3
    <2>2. CASE DpSet(k, Idle)
        BY <2>2, IdleRow
    <2> QED BY <2>1, <2>2 DEF ObserveWrite
<1>10. DpCallHolds(r)'
    BY <1>7, <1>8, <1>9, HoldsOn DEF DepGoes
<1> QED BY <1>7, <1>8, <1>9, <1>10, CallAndRows

LEMMA SweepRowInv == ASSUME DpInv, NEW k \in DpCalls, SweepRow(k) PROVE DpInv'
<1>1. dpCall[k] \in DpRow /\ DpCallHolds(dpCall[k]) /\ dpCall[k].pc = "sweep" /\ dpCall[k].op = "sweep"
    BY DEF DpInv, DpTyped, SweepRow, DpAt, DpCallHolds, DpInPlace
<1>2. UNCHANGED <<prod, active, cand, exper, proposed, consented>> /\ active' \subseteq DpStates
    BY DEF SweepRow, dpHistory, DpInv, DpTyped
<1>3. ASSUME NEW d \in dpCall[k].held PROVE d \in DepRows /\ d \in Rows /\ dep[d] \in DepRow /\ dep[d].versioned
    BY <1>1 DEF DpCallHolds, OnRecord, DepRows, DpInv, DpTyped
<1>4. ASSUME NEW d \in dpCall[k].held, UNCHANGED dep,
             DpSet(k, [dpCall[k] EXCEPT !.held = dpCall[k].held \ {d}, !.row = d, !.pc = "rollback"])
      PROVE  DpInv'
    <2>1. PICK r \in DpRow : r = [dpCall[k] EXCEPT !.held = dpCall[k].held \ {d}, !.row = d, !.pc = "rollback"]
        BY <1>1, <1>3 DEF DpRow, DpPcs
    <2>2. r.pc = "rollback" /\ r.op = "sweep" /\ r.row = d /\ r.held \subseteq dpCall[k].held
        BY <1>1, <2>1 DEF DpRow
    <2>3. DpCallHolds(r)
        BY <1>1, <1>3, <2>2 DEF DpCallHolds, DpInPlace, OnRecord, Consenting, Acting
    <2> QED BY <1>2, <1>4, <2>1, <2>3, CallOnly
<1>5. ASSUME NEW d \in dpCall[k].held, dep' = [dep EXCEPT ![d].status = "SETTLED"],
             DpSet(k, [dpCall[k] EXCEPT !.held = dpCall[k].held \ {d}, !.row = d])
      PROVE  DpInv'
    <2>1. PICK r \in DpRow : r = [dpCall[k] EXCEPT !.held = dpCall[k].held \ {d}, !.row = d]
        BY <1>1, <1>3 DEF DpRow
    <2>2. r.pc = "sweep" /\ r.op = "sweep" /\ r.row = d /\ r.held \subseteq dpCall[k].held
        BY <1>1, <2>1 DEF DpRow
    <2>3. DpCallHolds(r)
        BY <1>1, <1>3, <2>2 DEF DpCallHolds, DpInPlace, OnRecord, Consenting, Acting
    <2>4. PICK q \in DepRow : q = [dep[d] EXCEPT !.status = "SETTLED"]
        BY <1>3 DEF DepRow, DepStatus
    <2>5. /\ q.status # "none" /\ q.cand = dep[d].cand /\ q.applied = dep[d].applied
          /\ q.rollback = dep[d].rollback /\ q.approved = dep[d].approved /\ q.versioned = dep[d].versioned
        BY <1>3, <2>4 DEF DepRow
    <2>6. dep' = [dep EXCEPT ![d] = q]
        BY <1>5, <2>4
    <2>7. DepGoes
        BY <1>2, <1>3, <2>5, <2>6, RowTurns
    <2>8. DpCallHolds(r)'
        BY <1>2, <2>3, <2>7, HoldsOn DEF DepGoes
    <2> QED BY <1>2, <1>5, <2>1, <2>7, <2>8, CallAndRows
<1>6. CASE DpSet(k, Idle) /\ UNCHANGED dep
    BY <1>2, <1>6, CallEnds
<1>7. \/ \E d \in dpCall[k].held :
            /\ UNCHANGED dep
            /\ DpSet(k, [dpCall[k] EXCEPT !.held = dpCall[k].held \ {d}, !.row = d, !.pc = "rollback"])
      \/ \E d \in dpCall[k].held :
            /\ dep' = [dep EXCEPT ![d].status = "SETTLED"]
            /\ DpSet(k, [dpCall[k] EXCEPT !.held = dpCall[k].held \ {d}, !.row = d])
      \/ DpSet(k, Idle) /\ UNCHANGED dep
    BY <1>1 DEF SweepRow, DpRow
<1> QED BY <1>4, <1>5, <1>6, <1>7

-----------------------------------------------------------------------------
(* What changes production                                                  *)

LEMMA DpInvNext == DpInv /\ [DpNext]_dpVars => DpInv'
<1> SUFFICES ASSUME DpInv, [DpNext]_dpVars PROVE DpInv'
    OBVIOUS
<1>1. CASE UNCHANGED dpVars
    BY <1>1, MeasuringStep, ExperSame DEF dpVars
<1>2. CASE \E x \in Changes : Propose(x)
    BY <1>2, ProposeInv
<1>3. ASSUME NEW c \in Candidates, Queue(c) \/ RejectCandidate(c) \/ StartExperiment(c) \/ Approve(c) PROVE DpInv'
    BY <1>3, QueueInv, StartExperimentInv, ApproveInv
<1>4. ASSUME NEW e \in Exps, RunTrials(e) \/ Evaluate(e) \/ Abandon(e) PROVE DpInv'
    BY <1>4, RunTrialsInv, EvaluateInv, AbandonInv
<1>5. ASSUME NEW k \in DpCalls, DpStep(k) PROVE DpInv'
    <2>1. CASE DeployBegin(k) \/ DeployBefore(k) \/ FindApproval(k) \/ Review(k) \/ Record(k)
        BY <2>1, DeployBeginInv, DeployBeforeInv, FindApprovalInv, ReviewInv, RecordInv
    <2>2. CASE WriteProduction(k) \/ Deactivate(k) \/ Activate(k) \/ RowStatus(k) \/ CandidateStatus(k)
        BY <2>2, WriteProductionInv, ActivateInv, RowStatusInv, CandidateStatusInv
    <2>3. CASE WriteFails(k) \/ DpDies(k) \/ RollbackBegin(k) \/ RollbackRead(k)
        BY <2>3, WriteFailsInv, DpDiesInv, RollbackBeginInv, RollbackReadInv
    <2>4. CASE ObserveBegin(k) \/ ObserveWrite(k) \/ SweepBegin(k) \/ SweepRow(k)
        BY <2>4, ObserveBeginInv, ObserveWriteInv, SweepBeginInv, SweepRowInv
    <2> QED BY <1>5, <2>1, <2>2, <2>3, <2>4 DEF DpStep
<1> QED BY <1>1, <1>2, <1>3, <1>4, <1>5 DEF DpNext

\* Candidates, experiments, rows and calls keep to each other whatever calls
\* overlap, fail and die: what a call deploys was proposed, what it acts on is on
\* record, and what was approved or needed approval goes back to a person.
THEOREM DeploymentsHold == DpSpec => []DpInv
BY DpInvInit, DpInvNext, PTL DEF DpSpec

\* More failures than trials are counted nowhere.
Sound(r) == r.failures <= r.trials
DpCounted == (\A d \in Rows : Sound(dep[d])) /\ \A k \in DpCalls : Sound(dpCall[k])

LEMMA NoneCounted == Sound(NoDep) /\ Sound(Idle)
BY DEF Sound, NoDep, Idle

\* A call, or a row, that takes up a sound one.
LEMMA CallCounted ==
    ASSUME DpInv, DpCounted, NEW k \in DpCalls, NEW r, DpSet(k, r), Sound(r)
    PROVE  \A j \in DpCalls : Sound(dpCall'[j])
BY DEF DpSet, DpInv, DpTyped, DpCounted

LEMMA RowCounted ==
    ASSUME DpInv, DpCounted, NEW d, NEW r, dep' = [dep EXCEPT ![d] = r], Sound(r)
    PROVE  \A e \in Rows : Sound(dep'[e])
BY DEF DpInv, DpTyped, DpCounted

LEMMA AddedCounted ==
    ASSUME DpInv, DpCounted, NEW r, AddRow(r), Sound(r) PROVE \A e \in Rows : Sound(dep'[e])
BY RowCounted DEF AddRow

\* A step of a call that counts nothing.
LEMMA GoCounted ==
    ASSUME DpInv, DpCounted, NEW k \in DpCalls, NEW s, DpGo(k, s) \/ DpSet(k, Idle)
    PROVE  \A j \in DpCalls : Sound(dpCall'[j])
<1>1. dpCall[k] \in DpRow /\ Sound(dpCall[k])
    BY DEF DpInv, DpTyped, DpCounted
<1>2. Sound([dpCall[k] EXCEPT !.pc = s])
    BY <1>1 DEF Sound, DpRow
<1> QED BY <1>2, NoneCounted, CallCounted DEF DpGo

LEMMA StatusCounted ==
    ASSUME DpInv, DpCounted, NEW d \in Rows, NEW s, dep' = [dep EXCEPT ![d].status = s]
    PROVE  \A e \in Rows : Sound(dep'[e])
<1>1. dep[d] \in DepRow /\ Sound(dep[d])
    BY DEF DpInv, DpTyped, DpCounted
<1>2. Sound([dep[d] EXCEPT !.status = s])
    BY <1>1 DEF Sound, DepRow
<1> QED BY <1>2, RowCounted

LEMMA DeployCounts ==
    ASSUME DpInv, DpCounted, NEW k \in DpCalls,
           DeployBegin(k) \/ DeployBefore(k) \/ FindApproval(k) \/ Review(k) \/ Record(k)
    PROVE  DpCounted'
<1>1. dpCall[k] \in DpRow /\ Sound(dpCall[k]) /\ \A d \in Rows : Sound(dep[d])
    BY DEF DpInv, DpTyped, DpCounted
<1>2. CASE DeployBegin(k)
    <2>1. PICK c \in Candidates :
             DpSet(k, [Idle EXCEPT !.pc = "before", !.op = "deploy", !.cand = c, !.change = cand[c].change])
        BY <1>2 DEF DeployBegin, DpBegin
    <2>2. Sound([Idle EXCEPT !.pc = "before", !.op = "deploy", !.cand = c, !.change = cand[c].change])
        BY DEF Sound, Idle
    <2> QED BY <1>1, <1>2, <2>1, <2>2, CallCounted DEF DeployBegin, DpCounted
<1>3. CASE DeployBefore(k)
    <2>1. Sound([dpCall[k] EXCEPT !.pc = "approval", !.before = Before(k)])
        BY <1>1 DEF Sound, DpRow
    <2> QED BY <1>1, <1>3, <2>1, CallCounted DEF DeployBefore, DpCounted
<1>4. CASE FindApproval(k)
    <2>1. PICK a : DpSet(k, [dpCall[k] EXCEPT !.pc = "review", !.approval = a])
        BY <1>4 DEF FindApproval
    <2>2. Sound([dpCall[k] EXCEPT !.pc = "review", !.approval = a])
        BY <1>1 DEF Sound, DpRow
    <2> QED BY <1>1, <1>4, <2>1, <2>2, CallCounted DEF FindApproval, DpCounted
<1>5. CASE Review(k)
    <2>1. Sound([NoDep EXCEPT !.status = "REFUSED", !.cand = dpCall[k].cand,
                              !.applied = dpCall[k].change, !.rollback = dpCall[k].before])
        BY DEF Sound, NoDep
    <2>2. \A j \in DpCalls : Sound(dpCall'[j])
        BY <1>5, GoCounted DEF Review
    <2>3. \A d \in Rows : Sound(dep'[d])
        BY <1>1, <1>5, <2>1, AddedCounted DEF Review
    <2> QED BY <2>2, <2>3 DEF DpCounted
<1>6. CASE Record(k)
    <2>1. Sound([NoDep EXCEPT !.status = "PENDING", !.cand = dpCall[k].cand, !.applied = dpCall[k].change,
                              !.rollback = dpCall[k].before, !.approved = ApprovedByPerson(k), !.versioned = TRUE])
        BY DEF Sound, NoDep
    <2>2. Sound([dpCall[k] EXCEPT !.pc = "write", !.row = Cardinality(DepRows) + 1])
        BY <1>1 DEF Sound, DpRow
    <2>3. \A j \in DpCalls : Sound(dpCall'[j])
        BY <1>6, <2>2, CallCounted DEF Record
    <2>4. \A d \in Rows : Sound(dep'[d])
        BY <1>6, <2>1, AddedCounted DEF Record
    <2> QED BY <2>3, <2>4 DEF DpCounted
<1> QED BY <1>2, <1>3, <1>4, <1>5, <1>6

LEMMA WritesCount ==
    ASSUME DpInv, DpCounted, NEW k \in DpCalls,
           \/ WriteProduction(k) \/ Deactivate(k) \/ Activate(k) \/ RowStatus(k) \/ CandidateStatus(k)
           \/ WriteFails(k) \/ DpDies(k) \/ RollbackRead(k)
    PROVE  DpCounted'
<1>1. dpCall[k] \in DpRow /\ Sound(dpCall[k]) /\ DpCallHolds(dpCall[k]) /\ \A d \in Rows : Sound(dep[d])
    BY DEF DpInv, DpTyped, DpCounted
<1>2. Sound([dpCall[k] EXCEPT !.pc = "activate", !.seen = active])
    BY <1>1 DEF Sound, DpRow
<1>3. \A j \in DpCalls : Sound(dpCall'[j])
    BY <1>2, GoCounted, CallCounted
       DEF WriteProduction, Deactivate, Activate, RowStatus, CandidateStatus, WriteFails, DpDies, RollbackRead
<1>4. \/ UNCHANGED dep
      \/ dpCall[k].row \in Rows /\ \E s : dep' = [dep EXCEPT ![dpCall[k].row].status = s]
    BY <1>1 DEF WriteProduction, Deactivate, Activate, RowStatus, CandidateStatus, WriteFails, DpDies, RollbackRead,
                DpAt, DpCallHolds, OnRecord, Acting, DepRows
<1>5. \A d \in Rows : Sound(dep'[d])
    BY <1>1, <1>4, StatusCounted
<1> QED BY <1>3, <1>5 DEF DpCounted

LEMMA ObservingCounts ==
    ASSUME DpInv, DpCounted, NEW k \in DpCalls,
           RollbackBegin(k) \/ ObserveBegin(k) \/ ObserveWrite(k) \/ SweepBegin(k) \/ SweepRow(k)
    PROVE  DpCounted'
<1>1. dpCall[k] \in DpRow /\ Sound(dpCall[k]) /\ DpCallHolds(dpCall[k]) /\ \A d \in Rows : Sound(dep[d])
    BY DEF DpInv, DpTyped, DpCounted
<1>2. CASE RollbackBegin(k)
    <2>1. PICK d \in DepRows : DpSet(k, [Idle EXCEPT !.pc = "rollback", !.op = "rollback", !.row = d])
        BY <1>2 DEF RollbackBegin, DpBegin
    <2>2. Sound([Idle EXCEPT !.pc = "rollback", !.op = "rollback", !.row = d])
        BY DEF Sound, Idle
    <2> QED BY <1>1, <1>2, <2>1, <2>2, CallCounted DEF RollbackBegin, DpCounted
<1>3. CASE ObserveBegin(k)
    <2>1. PICK d \in DepRows, failed \in {0, 1} :
             DpSet(k, [Idle EXCEPT !.pc = "observe", !.op = "observe", !.row = d,
                                   !.trials = dep[d].trials + 1, !.failures = dep[d].failures + failed])
        BY <1>3 DEF ObserveBegin, DpBegin
    <2>2. dep[d] \in DepRow /\ Sound(dep[d])
        BY <1>1 DEF DepRows, DpInv, DpTyped
    <2>3. dep[d].failures + failed <= dep[d].trials + 1
        BY <2>2 DEF Sound, DepRow
    <2>4. Sound([Idle EXCEPT !.pc = "observe", !.op = "observe", !.row = d,
                             !.trials = dep[d].trials + 1, !.failures = dep[d].failures + failed])
        BY <2>3 DEF Sound, Idle
    <2> QED BY <1>1, <1>3, <2>1, <2>4, CallCounted DEF ObserveBegin, DpCounted
<1>4. CASE ObserveWrite(k)
    <2>1. dpCall[k].row \in Rows
        BY <1>1, <1>4 DEF ObserveWrite, DpAt, DpCallHolds, OnRecord, DepRows
    <2>2. PICK d \in Rows : d = dpCall[k].row
        BY <2>1
    <2>3. dep[d] \in DepRow
        BY DEF DpInv, DpTyped
    <2>4. Sound([dep[d] EXCEPT !.trials = dpCall[k].trials, !.failures = dpCall[k].failures])
        BY <1>1, <2>3 DEF Sound, DepRow
    <2>5. dep' = [dep EXCEPT ![d] = [dep[d] EXCEPT !.trials = dpCall[k].trials, !.failures = dpCall[k].failures]]
        BY <1>4, <2>2 DEF ObserveWrite, DpInv, DpTyped
    <2>6. \A e \in Rows : Sound(dep'[e])
        BY <2>4, <2>5, RowCounted
    <2>7. \A j \in DpCalls : Sound(dpCall'[j])
        BY <1>4, GoCounted DEF ObserveWrite
    <2> QED BY <2>6, <2>7 DEF DpCounted
<1>5. CASE SweepBegin(k)
    <2>1. PICK S, F : DpSet(k, [Idle EXCEPT !.pc = "sweep", !.op = "sweep", !.held = S, !.failing = F])
        BY <1>5 DEF SweepBegin, DpBegin
    <2>2. Sound([Idle EXCEPT !.pc = "sweep", !.op = "sweep", !.held = S, !.failing = F])
        BY DEF Sound, Idle
    <2> QED BY <1>1, <1>5, <2>1, <2>2, CallCounted DEF SweepBegin, DpCounted
<1>6. CASE SweepRow(k)
    <2>1. \/ /\ DpSet(k, Idle) /\ UNCHANGED dep
          \/ \E d \in dpCall[k].held :
                /\ UNCHANGED dep \/ dep' = [dep EXCEPT ![d].status = "SETTLED"]
                /\ \/ DpSet(k, [dpCall[k] EXCEPT !.held = dpCall[k].held \ {d}, !.row = d, !.pc = "rollback"])
                   \/ DpSet(k, [dpCall[k] EXCEPT !.held = dpCall[k].held \ {d}, !.row = d])
        BY <1>1, <1>6 DEF SweepRow, DpRow
    <2>2. \A d : /\ Sound([dpCall[k] EXCEPT !.held = dpCall[k].held \ {d}, !.row = d, !.pc = "rollback"])
                 /\ Sound([dpCall[k] EXCEPT !.held = dpCall[k].held \ {d}, !.row = d])
        BY <1>1 DEF Sound, DpRow
    <2>3. \A j \in DpCalls : Sound(dpCall'[j])
        BY <2>1, <2>2, NoneCounted, CallCounted
    <2>4. dpCall[k].held \subseteq Rows
        BY <1>1 DEF DpRow
    <2>5. \A d \in Rows : Sound(dep'[d])
        BY <1>1, <2>1, <2>4, StatusCounted
    <2> QED BY <2>3, <2>5 DEF DpCounted
<1> QED BY <1>2, <1>3, <1>4, <1>5, <1>6

LEMMA CountedNext == DpInv /\ DpCounted /\ [DpNext]_dpVars => DpCounted'
<1> SUFFICES ASSUME DpInv, DpCounted, [DpNext]_dpVars PROVE DpCounted'
    OBVIOUS
<1>1. ASSUME UNCHANGED <<dep, dpCall>> PROVE DpCounted'
    BY <1>1 DEF DpCounted
<1>2. CASE UNCHANGED dpVars \/ \E x \in Changes : Propose(x)
    BY <1>1, <1>2 DEF dpVars, Propose
<1>3. ASSUME NEW c \in Candidates, Queue(c) \/ RejectCandidate(c) \/ StartExperiment(c) PROVE DpCounted'
    BY <1>1, <1>3 DEF Queue, RejectCandidate, StartExperiment
<1>4. ASSUME NEW c \in Candidates, Approve(c) PROVE DpCounted'
    <2>1. Sound([NoDep EXCEPT !.status = "PENDING", !.cand = c, !.applied = cand[c].change, !.approved = TRUE])
        BY DEF Sound, NoDep
    <2> QED BY <1>4, <2>1, AddedCounted DEF Approve, DpCounted
<1>5. ASSUME NEW e \in Exps, RunTrials(e) \/ Evaluate(e) \/ Abandon(e) PROVE DpCounted'
    BY <1>1, <1>5 DEF RunTrials, Evaluate, Abandon
<1>6. ASSUME NEW k \in DpCalls, DpStep(k) PROVE DpCounted'
    BY <1>6, DeployCounts, WritesCount, ObservingCounts DEF DpStep
<1> QED BY <1>2, <1>3, <1>4, <1>5, <1>6 DEF DpNext

\* Rows keep their types, and a deployment never counts more failures than trials,
\* however many observations wrote the counts they had read (observe()).
THEOREM DeploymentsTypeCorrect == DpSpec => []DpTypeOK
<1>1. DpInit => DpCounted
    BY NoneCounted DEF DpInit, DpCounted
<1>2. DpInv /\ DpCounted => DpTypeOK
    <2> SUFFICES ASSUME DpInv, DpCounted PROVE DpTypeOK
        OBVIOUS
    <2>1. ASSUME NEW d \in Rows PROVE dep[d].status \in DepStatus /\ dep[d].failures <= dep[d].trials
        BY DEF DpInv, DpTyped, DepRow, DpCounted, Sound
    <2> QED BY <2>1 DEF DpTypeOK, DpInv, DpTyped, DpStates, CandRow, CandStatus
<1> QED BY <1>1, <1>2, CountedNext, DpInvInit, DpInvNext, PTL DEF DpSpec

\* Whatever production runs is on record as written or as restored by a
\* deployment, wherever a call died (law AUDITABILITY, deploy() and rollback()).
THEOREM ChangesRecorded == DpSpec => []EveryChangeRecorded
<1>1. DpInv => EveryChangeRecorded
    BY DEF DpInv
<1> QED BY <1>1, DeploymentsHold, PTL

\* A candidate proposed with one change only has one.
LEMMA OneChange ==
    ASSUME DpTyped, NEW c \in Candidates, c \notin Reproposed, NEW x, NEW y, <<c, x>> \in proposed, <<c, y>> \in proposed
    PROVE  x = y
<1> DEFINE P == {p \in proposed : p[1] = c}
<1>1. P \subseteq proposed
    OBVIOUS
<1>2. IsFiniteSet(P) /\ Cardinality(P) \in Nat
    BY <1>1, FS_Subset, FS_CardinalityType DEF DpTyped
<1>3. Cardinality(P) <= 1
    BY <1>2 DEF Reproposed
<1>4. <<c, x>> \in P /\ <<c, y>> \in P
    OBVIOUS
<1> HIDE DEF P
<1>5. P # {} /\ Cardinality(P) # 0
    BY <1>2, <1>4, FS_EmptySet
<1>6. Cardinality(P) = 1
    BY <1>2, <1>3, <1>5
<1>7. PICK p \in P : P = {p}
    BY <1>2, <1>6, FS_Singleton
<1>8. <<c, x>> = <<c, y>>
    BY <1>4, <1>7
<1> QED BY <1>8

\* A deployment of a change that needs a person was approved by one, whatever
\* approvals, dead deployments and experiments lie behind it, unless its
\* candidate was proposed again with another change (law HUMAN_CONSENT).
THEOREM PeopleConsented == DpSpec => []ConsentGiven
<1>1. ASSUME DpInv PROVE ConsentGiven
    <2>1. SUFFICES ASSUME NEW d \in DepRows, dep[d].versioned, dep[d].cand \in NeedsConsent \ Reproposed
                   PROVE  <<dep[d].cand, dep[d].applied>> \in consented
        BY DEF ConsentGiven
    <2>2. dep[d] \in DepRow
        BY <1>1 DEF DpInv, DpTyped, DepRows
    <2>3. PICK c \in Candidates : c = dep[d].cand
        BY <2>2 DEF DepRow
    <2>4. PICK x : x = dep[d].applied
        OBVIOUS
    <2>5. PICK y : <<c, y>> \in consented
        BY <1>1, <2>1, <2>3 DEF DpInv, RowConsented, SomeConsent
    <2>6. <<c, x>> \in proposed /\ <<c, y>> \in proposed
        BY <1>1, <2>1, <2>3, <2>4, <2>5 DEF DpInv, DpTyped, RowConsented
    <2>7. x = y
        BY <1>1, <2>1, <2>3, <2>6, OneChange DEF DpInv
    <2> QED BY <2>3, <2>4, <2>5, <2>7
<1> QED BY <1>1, DeploymentsHold, PTL

-----------------------------------------------------------------------------
(* What the rows tell of production                                         *)

\* Nothing failed and no two calls overlapped.
Calm == dpUpset \subseteq {"order"}
Lone(k) == \A j \in DpCalls \ {k} : DpAt(j, "idle")
Writing == {"write", "deactivate", "activate", "status"}
Failed(d) == Failing(dep[d].trials, dep[d].failures)

\* A call that undoes the row whose failure it has just written.
Undoing(m, d) == m.op = "observe" /\ m.row = d /\ m.pc \in Writing \union {"rollback"}

\* Sweeps find nothing that fails, a row to be put into effect has not been
\* observed, and one in effect that fails is being undone.
CalmCall(m) ==
    /\ m.op = "sweep" => m.pc = "sweep" /\ m.failing = {} /\ m.held \subseteq InEffect
    /\ m.op = "deploy" /\ m.pc \in Writing => dep[m.row].status = "PENDING" /\ dep[m.row].trials = 0
    /\ \A d \in InEffect : Failed(d) => Undoing(m, d)

CalmInv ==
    Calm => /\ \A k \in DpCalls : ~DpAt(k, "idle") => Lone(k) /\ CalmCall(dpCall[k])
            /\ DpQuiet => CalmCall(Idle)

\* x is what the newest of the rows S applied, or what was there at first.
Top(row, S, x) == \/ S = {} /\ x = Original
                  \/ \E d \in S : (\A e \in S : e <= d) /\ x = row[d].applied
ToldByRows == Top(dep, InEffect, prod) /\ active \subseteq {prod}

\* What a row in effect is to restore is what the one below it applied.
Below(d) == {e \in InEffect : e < d}
Chain == \A d \in InEffect : Top(dep, Below(d), dep[d].rollback)

Steady == {"idle", "before", "approval", "review", "record", "write", "rollback", "observe", "sweep", "candidate"}
OnTop(m) ==
    IF m.op = "deploy" THEN (\A e \in InEffect : e < m.row) /\ Top(dep, InEffect, dep[m.row].rollback)
                       ELSE m.row \in InEffect /\ \A e \in InEffect : e <= m.row
ChangeOf(m) == IF m.op = "deploy" THEN m.change ELSE dep[m.row].rollback
TellCall(m) ==
    /\ m.pc \in Steady => ToldByRows
    /\ m.pc \in {"approval", "review", "record"} => m.before = prod
    /\ m.pc \in Writing => OnTop(m)
    /\ m.pc \in {"deactivate", "activate", "status"} => prod = ChangeOf(m)
    /\ m.pc = "activate" => active \ m.seen \subseteq {prod}
    /\ m.pc = "status" => active \subseteq {prod}

TellInv ==
    dpUpset = {} => /\ Chain
                    /\ \A k \in DpCalls : ~DpAt(k, "idle") => TellCall(dpCall[k])
                    /\ DpQuiet => TellCall(Idle)
Story == CalmInv /\ TellInv

LEMMA TopSame ==
    ASSUME NEW f, NEW g, NEW S, NEW x, \A d \in S : f[d].applied = g[d].applied, Top(f, S, x)
    PROVE  Top(g, S, x)
BY DEF Top

LEMMA IdleCalm == (CalmCall(Idle) <=> \A d \in InEffect : ~Failed(d)) /\ (TellCall(Idle) <=> ToldByRows)
<1>1. Idle.pc = "idle" /\ Idle.op = "none"
    BY DEF Idle
<1> QED BY <1>1 DEF CalmCall, TellCall, Undoing, Writing, Steady

\* What a call goes by stays while rows, production and versions do.
LEMMA StoryStays ==
    ASSUME UNCHANGED <<prod, active, dep>>, NEW m \in DpRow
    PROVE  /\ CalmCall(m) => CalmCall(m)'
           /\ TellCall(m) => TellCall(m)'
           /\ Chain => Chain'
<1>1. InEffect' = InEffect
    BY SameRows
<1>2. CalmCall(m) => CalmCall(m)'
    BY <1>1 DEF CalmCall, Failed
<1>3. TellCall(m) => TellCall(m)'
    BY <1>1 DEF TellCall, ToldByRows, OnTop, ChangeOf
<1>4. Chain => Chain'
    BY <1>1 DEF Chain, Below
<1> QED BY <1>2, <1>3, <1>4

\* With one call under way, its move is the whole story.
LEMMA StoryMoves ==
    ASSUME DpInv, NEW k \in DpCalls, NEW r \in DpRow, DpSet(k, r), Lone(k), r.pc = "idle" => r = Idle,
           CalmCall(r)', dpUpset' = {} => Chain' /\ TellCall(r)'
    PROVE  Story'
<1>1. dpCall' \in [DpCalls -> DpRow] /\ dpCall'[k] = r /\ \A j \in DpCalls \ {k} : dpCall'[j] = dpCall[j]
    BY DpOneCall DEF DpInv, DpTyped
<1>2. Lone(k)' /\ \A j \in DpCalls : ~DpAt(j, "idle")' => j = k
    BY <1>1 DEF Lone, DpAt
<1>3. DpQuiet' => r = Idle
    BY <1>1 DEF DpQuiet, DpAt
<1>4. r = dpCall'[k]
    BY <1>1
<1>5. CalmCall(dpCall[k])' /\ (DpQuiet' => CalmCall(Idle)')
    BY <1>3, <1>4 DEF CalmCall, Undoing
<1>6. TellCall(r)' => TellCall(dpCall[k])' /\ (DpQuiet' => TellCall(Idle)')
    BY <1>3, <1>4 DEF TellCall, OnTop, ChangeOf
<1>7. CalmInv'
    BY <1>2, <1>5 DEF CalmInv
<1>8. TellInv'
    BY <1>2, <1>6 DEF TellInv
<1> QED BY <1>7, <1>8 DEF Story

\* The story of a calm past: nobody else is under way.
LEMMA Alone ==
    ASSUME Story, Calm', dpUpset \subseteq dpUpset', NEW k \in DpCalls, ~DpAt(k, "idle")
    PROVE  /\ Calm /\ Lone(k) /\ CalmCall(dpCall[k])
           /\ dpUpset' = {} => Chain /\ TellCall(dpCall[k])
BY DEF Story, Calm, CalmInv, TellInv

\* A call begins while production, versions and rows stay.
LEMMA StoryBegins ==
    ASSUME DpInv, Story, Calm', NEW k \in DpCalls, NEW r \in DpRow, DpBegin(k, r), r.pc # "idle",
           UNCHANGED <<prod, active, dep>>,
           (\A d \in InEffect : ~Failed(d)) => CalmCall(r), ToldByRows => TellCall(r)
    PROVE  Story'
<1>1. DpQuiet /\ dpUpset' = dpUpset /\ DpSet(k, r)
    BY DEF DpBegin, Calm, DpQuiet
<1>2. Lone(k)
    BY <1>1 DEF Lone, DpQuiet
<1>3. CalmCall(Idle) /\ (dpUpset' = {} => Chain /\ TellCall(Idle))
    BY <1>1 DEF Story, CalmInv, TellInv, Calm
<1>4. CalmCall(r) /\ (dpUpset' = {} => Chain /\ TellCall(r))
    BY <1>3, IdleCalm
<1>5. CalmCall(r)' /\ (dpUpset' = {} => Chain' /\ TellCall(r)')
    BY <1>4, StoryStays
<1> QED BY <1>1, <1>2, <1>5, StoryMoves

\* A call goes on while production, versions and rows stay.
LEMMA StoryGoesOn ==
    ASSUME DpInv, Story, Calm', dpUpset \subseteq dpUpset', NEW k \in DpCalls, ~DpAt(k, "idle"),
           NEW r \in DpRow, DpSet(k, r), r.pc = "idle" => r = Idle,
           UNCHANGED <<prod, active, dep>>, CalmCall(r), dpUpset' = {} => TellCall(r)
    PROVE  Story'
<1>1. Lone(k) /\ (dpUpset' = {} => Chain)
    BY Alone
<1>2. CalmCall(r)' /\ (dpUpset' = {} => Chain' /\ TellCall(r)')
    BY <1>1, StoryStays
<1> QED BY <1>1, <1>2, StoryMoves

\* No call moves and no row in effect changes; a version may become active
\* where there was none.
LEMMA StoryAside ==
    ASSUME DpInv, Story, UNCHANGED <<prod, dpCall, dpUpset>>, InEffect' = InEffect, RowsKept,
           \A d \in DepRows : dep'[d] = dep[d], active' = active \/ (active = {} /\ active' = {prod})
    PROVE  Story'
<1>1. ASSUME NEW m \in DpRow, CalmCall(m), m.pc \in Acting => m.row \in DepRows PROVE CalmCall(m)'
    <2>1. \A d \in InEffect : d \in DepRows
        BY DEF InEffect
    <2>2. \A d \in InEffect : Failed(d)' <=> Failed(d)
        BY <2>1 DEF Failed
    <2> QED BY <1>1, <2>2 DEF CalmCall, Undoing, Writing, Acting
<1>2. ASSUME NEW x PROVE Top(dep, InEffect, x) => Top(dep', InEffect', x)
    BY TopSame DEF InEffect
<1>3. ToldByRows => ToldByRows'
    BY <1>2 DEF ToldByRows
<1>4. ASSUME NEW m \in DpRow, TellCall(m), m.pc \in Acting => m.row \in DepRows PROVE TellCall(m)'
    <2>1. m.pc \in Writing => dep'[m.row] = dep[m.row]
        BY <1>4 DEF Writing, Acting
    <2>2. m.pc \in Writing => OnTop(m)'
        BY <1>2, <1>4, <2>1 DEF TellCall, OnTop
    <2>3. m.pc \in {"deactivate", "activate", "status"} => prod' = ChangeOf(m)'
        BY <1>4, <2>1 DEF TellCall, ChangeOf, Writing
    <2> QED BY <1>3, <1>4, <2>2, <2>3 DEF TellCall
<1>5. Chain => Chain'
    <2>1. SUFFICES ASSUME Chain, NEW d \in InEffect PROVE Top(dep', Below(d)', dep'[d].rollback)
        BY DEF Chain
    <2>2. Below(d)' = Below(d) /\ \A e \in Below(d) : e \in DepRows
        BY DEF Below, InEffect
    <2>3. Top(dep, Below(d), dep[d].rollback) /\ dep'[d] = dep[d]
        BY <2>1 DEF Chain, InEffect
    <2> QED BY <2>2, <2>3, TopSame
<1>6. \A k \in DpCalls : dpCall[k] \in DpRow /\ (dpCall[k].pc \in Acting => dpCall[k].row \in DepRows)
    BY DEF DpInv, DpTyped, DpCallHolds, OnRecord
<1>7. ASSUME NEW k \in DpCalls
      PROVE  (CalmCall(dpCall[k]) => CalmCall(dpCall[k])') /\ (TellCall(dpCall[k]) => TellCall(dpCall[k])')
    <2>1. PICK m \in DpRow : m = dpCall[k] /\ (m.pc \in Acting => m.row \in DepRows)
        BY <1>6
    <2>2. m = dpCall'[k]
        BY <2>1
    <2>3. CalmCall(m) => CalmCall(dpCall[k])'
        BY <1>1, <2>1, <2>2 DEF CalmCall, Undoing
    <2>4. TellCall(m) => TellCall(dpCall[k])'
        BY <1>4, <2>1, <2>2 DEF TellCall, OnTop, ChangeOf
    <2> QED BY <2>1, <2>3, <2>4
<1>8. (CalmCall(Idle) => CalmCall(Idle)') /\ (TellCall(Idle) => TellCall(Idle)')
    BY <1>1, <1>4, IdleRow DEF Acting
<1>9. CalmInv'
    BY <1>7, <1>8 DEF Story, CalmInv, Calm, Lone, DpAt, DpQuiet
<1>10. TellInv'
    BY <1>5, <1>7, <1>8 DEF Story, TellInv, DpAt, DpQuiet
<1> QED BY <1>9, <1>10 DEF Story

LEMMA NotCalm == ~Calm' => Story'
BY DEF Story, CalmInv, TellInv, Calm

\* Rows in effect keep what they tell.
LEMMA SameStory ==
    ASSUME InEffect' = InEffect,
           \A d \in InEffect : dep'[d].applied = dep[d].applied /\ dep'[d].rollback = dep[d].rollback
    PROVE  /\ \A x : Top(dep, InEffect, x) => Top(dep', InEffect', x)
           /\ Chain => Chain'
<1>1. ASSUME NEW x PROVE Top(dep, InEffect, x) => Top(dep', InEffect', x)
    BY TopSame
<1>2. Chain => Chain'
    <2>1. SUFFICES ASSUME Chain, NEW d \in InEffect PROVE Top(dep', Below(d)', dep'[d].rollback)
        BY DEF Chain
    <2>2. Below(d)' = Below(d) /\ \A e \in Below(d) : e \in InEffect
        BY DEF Below
    <2>3. Top(dep, Below(d), dep[d].rollback)
        BY <2>1 DEF Chain
    <2> QED BY <2>2, <2>3, TopSame
<1> QED BY <1>1, <1>2

\* A row is added that is not in effect.
LEMMA RowAside ==
    ASSUME DpInv, NEW r \in DepRow, AddRow(r), r.status \in {"PENDING", "REFUSED"}
    PROVE  /\ InEffect' = InEffect /\ RowsKept /\ \A d \in DepRows : dep'[d] = dep[d]
           /\ \E n \in Rows : n = Cardinality(DepRows) + 1 /\ dep'[n] = r /\ \A d \in DepRows : d < n
<1>1. r.status # "none"
    OBVIOUS
<1>2. PICK n \in Rows :
         /\ n = Cardinality(DepRows) + 1 /\ n \notin DepRows /\ \A d \in DepRows : d < n
         /\ dep' \in [Rows -> DepRow] /\ dep'[n] = r /\ \A e \in Rows \ {n} : dep'[e] = dep[e]
         /\ RowsKept /\ DepRows' = DepRows \union {n} /\ RowsInOrder'
    BY <1>1, RowAdded DEF DpInv
<1>3. \A d \in DepRows : d \in Rows /\ d # n
    BY <1>2 DEF DepRows
<1>4. InEffect' = InEffect
    BY <1>2, <1>3 DEF InEffect, Effective
<1> QED BY <1>2, <1>3, <1>4

LEMMA AsideStory ==
    ASSUME DpInv, Story, UNCHANGED <<prod, dep, dpCall, dpUpset>>,
           active' = active \/ (active = {} /\ active' = {prod})
    PROVE  Story'
<1>1. InEffect' = InEffect /\ RowsKept
    BY SameRows
<1> QED BY <1>1, StoryAside

LEMMA ApproveStory == ASSUME DpInv, Story, NEW c \in Candidates, Approve(c) PROVE Story'
<1>1. cand[c] \in CandRow
    BY DEF DpInv, DpTyped
<1>2. PICK r \in DepRow : r = [NoDep EXCEPT !.status = "PENDING", !.cand = c, !.applied = cand[c].change,
                                           !.approved = TRUE]
    BY <1>1, IdleRow DEF DepRow, CandRow, DepStatus
<1>3. r.status = "PENDING" /\ AddRow(r)
    BY <1>2 DEF NoDep, Approve
<1>4. InEffect' = InEffect /\ RowsKept /\ \A d \in DepRows : dep'[d] = dep[d]
    BY <1>3, RowAside
<1>5. UNCHANGED <<prod, active, dpCall, dpUpset>>
    BY DEF Approve
<1> QED BY <1>4, <1>5, StoryAside

LEMMA DeployBeginStory == ASSUME DpInv, Story, Calm', NEW k \in DpCalls, DeployBegin(k) PROVE Story'
<1>1. PICK c \in Candidates :
         DpBegin(k, [Idle EXCEPT !.pc = "before", !.op = "deploy", !.cand = c, !.change = cand[c].change])
    BY DEF DeployBegin
<1>2. cand[c] \in CandRow
    BY DEF DpInv, DpTyped
<1>3. PICK r \in DpRow : r = [Idle EXCEPT !.pc = "before", !.op = "deploy", !.cand = c, !.change = cand[c].change]
    BY <1>2, IdleRow DEF DpRow, CandRow, DpPcs, DpOps
<1>4. r.pc = "before" /\ r.op = "deploy"
    BY <1>3 DEF Idle
<1>5. ((\A d \in InEffect : ~Failed(d)) => CalmCall(r)) /\ (ToldByRows => TellCall(r))
    BY <1>4 DEF CalmCall, TellCall, Writing
<1>6. UNCHANGED <<prod, active, dep>> /\ DpBegin(k, r)
    BY <1>1, <1>3 DEF DeployBegin
<1> QED BY <1>4, <1>5, <1>6, StoryBegins

LEMMA DeployBeforeStory == ASSUME DpInv, Story, Calm', NEW k \in DpCalls, DeployBefore(k) PROVE Story'
<1>1. dpCall[k] \in DpRow /\ dpCall[k].pc = "before" /\ dpCall[k].op = "deploy"
    BY DEF DpInv, DpTyped, DeployBefore, DpAt, DpCallHolds, DpInPlace
<1>2. PICK r \in DpRow : r = [dpCall[k] EXCEPT !.pc = "approval", !.before = prod]
    BY <1>1 DEF DpRow, DpPcs, DpInv, DpTyped
<1>3. r.pc = "approval" /\ r.op = "deploy" /\ r.before = prod
    BY <1>1, <1>2 DEF DpRow
<1>4. UNCHANGED <<prod, active, dep, dpUpset>> /\ DpSet(k, r) /\ ~DpAt(k, "idle")
    BY <1>1, <1>2 DEF DeployBefore, Before, DpAt
<1>5. CalmCall(dpCall[k]) /\ (dpUpset' = {} => TellCall(dpCall[k]))
    BY <1>4, Alone
<1>6. CalmCall(r)
    BY <1>1, <1>3, <1>5 DEF CalmCall, Undoing, Writing
<1>7. dpUpset' = {} => TellCall(r)
    BY <1>1, <1>3, <1>5 DEF TellCall, Writing, Steady
<1> QED BY <1>3, <1>4, <1>6, <1>7, StoryGoesOn

LEMMA FindApprovalStory == ASSUME DpInv, Story, Calm', NEW k \in DpCalls, FindApproval(k) PROVE Story'
<1>1. dpCall[k] \in DpRow /\ DpCallHolds(dpCall[k]) /\ dpCall[k].pc = "approval" /\ dpCall[k].op = "deploy"
    BY DEF DpInv, DpTyped, FindApproval, DpAt, DpCallHolds, DpInPlace
<1> DEFINE pending == {d \in DepRows : dep[d].cand = dpCall[k].cand /\ dep[d].status = "PENDING"}
           found == IF pending = {} THEN 0 ELSE CHOOSE d \in pending : \A o \in pending : o <= d
<1>2. DpSet(k, [dpCall[k] EXCEPT !.pc = "review", !.approval = found])
    BY DEF FindApproval
<1>3. found \in Rows \union {0}
    <2>1. pending \subseteq 0 .. MaxRows /\ MaxRows \in Nat
        BY DeploymentsAssumption DEF DepRows, Rows
    <2>2. pending # {} => \E m \in pending : \A o \in pending : o <= m
        BY <2>1, LatestOf
    <2>3. pending \subseteq Rows
        BY DEF DepRows
    <2> QED BY <2>2, <2>3
<1> HIDE DEF pending, found
<1>4. PICK r \in DpRow : r = [dpCall[k] EXCEPT !.pc = "review", !.approval = found]
    BY <1>1, <1>3 DEF DpRow, DpPcs
<1>5. r.pc = "review" /\ r.op = "deploy" /\ r.before = dpCall[k].before
    BY <1>1, <1>4 DEF DpRow
<1>6. UNCHANGED <<prod, active, dep, dpUpset>> /\ DpSet(k, r) /\ ~DpAt(k, "idle")
    BY <1>1, <1>2, <1>4 DEF FindApproval, DpAt
<1>7. CalmCall(dpCall[k]) /\ (dpUpset' = {} => TellCall(dpCall[k]))
    BY <1>6, Alone
<1>8. CalmCall(r)
    BY <1>1, <1>5, <1>7 DEF CalmCall, Undoing, Writing
<1>9. dpUpset' = {} => TellCall(r)
    BY <1>1, <1>5, <1>7 DEF TellCall, Writing, Steady
<1> QED BY <1>5, <1>6, <1>8, <1>9, StoryGoesOn

LEMMA ReviewStory == ASSUME DpInv, Story, Calm', NEW k \in DpCalls, Review(k) PROVE Story'
<1>1. dpCall[k] \in DpRow /\ dpCall[k].pc = "review" /\ dpCall[k].op = "deploy"
    BY DEF DpInv, DpTyped, Review, DpAt, DpCallHolds, DpInPlace
<1>2. UNCHANGED <<prod, active, dpUpset>> /\ ~DpAt(k, "idle")
    BY <1>1 DEF Review, DpAt
<1>3. Lone(k) /\ CalmCall(dpCall[k]) /\ (dpUpset' = {} => Chain /\ TellCall(dpCall[k]))
    BY <1>2, Alone
<1>4. CASE DpGo(k, StepAfterReview) /\ UNCHANGED dep
    <2>1. DpGo(k, "record") /\ "record" \in DpPcs
        BY <1>4 DEF StepAfterReview, DpPcs
    <2>2. PICK r \in DpRow : DpSet(k, r) /\ r.pc = "record" /\ SameCall(r, dpCall[k])
        BY <2>1, DpGoes DEF DpInv
    <2>3. CalmCall(r)
        BY <1>1, <1>3, <2>2 DEF CalmCall, Undoing, Writing, SameCall
    <2>4. dpUpset' = {} => TellCall(r)
        BY <1>1, <1>3, <2>2 DEF TellCall, Writing, Steady, SameCall
    <2> QED BY <1>2, <1>4, <2>2, <2>3, <2>4, StoryGoesOn
<1>5. CASE /\ AddRow([NoDep EXCEPT !.status = "REFUSED", !.cand = dpCall[k].cand,
                                   !.applied = dpCall[k].change, !.rollback = dpCall[k].before])
           /\ DpSet(k, Idle)
    <2>1. PICK r \in DepRow : r = [NoDep EXCEPT !.status = "REFUSED", !.cand = dpCall[k].cand,
                                               !.applied = dpCall[k].change, !.rollback = dpCall[k].before]
        BY <1>1, IdleRow DEF DepRow, DpRow, DepStatus
    <2>2. r.status = "REFUSED"
        BY <2>1 DEF NoDep
    <2>3. InEffect' = InEffect /\ \A d \in DepRows : dep'[d] = dep[d]
        BY <1>5, <2>1, <2>2, RowAside
    <2>4. \A d \in InEffect : dep'[d] = dep[d] /\ ~Failed(d)
        BY <1>1, <1>3, <2>3 DEF InEffect, CalmCall, Undoing
    <2>5. \A d \in InEffect' : ~Failed(d)'
        BY <2>3, <2>4 DEF Failed
    <2>6. CalmCall(Idle)'
        BY <2>5, IdleCalm DEF CalmCall, Idle, Writing
    <2>7. (\A x : Top(dep, InEffect, x) => Top(dep', InEffect', x)) /\ (Chain => Chain')
        BY <2>3, <2>4, SameStory
    <2>8. dpUpset' = {} => ToldByRows
        BY <1>1, <1>3 DEF TellCall, Steady
    <2>9. dpUpset' = {} => ToldByRows' /\ Chain'
        BY <1>2, <1>3, <2>7, <2>8 DEF ToldByRows
    <2>10. dpUpset' = {} => TellCall(Idle)'
        BY <2>9 DEF TellCall, Idle, Writing
    <2> QED BY <1>3, <1>5, <2>6, <2>9, <2>10, IdleRow, StoryMoves
<1> QED BY <1>4, <1>5 DEF Review

LEMMA RecordStory == ASSUME DpInv, Story, Calm', NEW k \in DpCalls, Record(k) PROVE Story'
<1>1. dpCall[k] \in DpRow /\ DpCallHolds(dpCall[k]) /\ dpCall[k].pc = "record" /\ dpCall[k].op = "deploy"
    BY DEF DpInv, DpTyped, Record, DpAt, DpCallHolds, DpInPlace
<1>2. UNCHANGED <<prod, active, dpUpset>> /\ ~DpAt(k, "idle")
    BY <1>1 DEF Record, DpAt
<1>3. Lone(k) /\ CalmCall(dpCall[k]) /\ (dpUpset' = {} => Chain /\ TellCall(dpCall[k]))
    BY <1>2, Alone
<1>4. ApprovedByPerson(k) \in BOOLEAN
    <2>1. dpCall[k].approval \in DepRows => dep[dpCall[k].approval] \in DepRow
        BY DEF DpInv, DpTyped, DepRows
    <2> QED BY <1>1, <2>1 DEF ApprovedByPerson, DpCallHolds, Consenting, DepRow
<1>5. PICK r \in DepRow : r = [NoDep EXCEPT !.status = "PENDING", !.cand = dpCall[k].cand, !.applied = dpCall[k].change,
                                           !.rollback = dpCall[k].before, !.approved = ApprovedByPerson(k),
                                           !.versioned = TRUE]
    BY <1>1, <1>4, IdleRow DEF DepRow, DpRow, DepStatus
<1>6. r.status = "PENDING" /\ r.trials = 0 /\ r.rollback = dpCall[k].before
    BY <1>5 DEF NoDep
<1>7. /\ InEffect' = InEffect /\ \A d \in DepRows : dep'[d] = dep[d]
      /\ \E n \in Rows : n = Cardinality(DepRows) + 1 /\ dep'[n] = r /\ \A d \in DepRows : d < n
    BY <1>5, <1>6, RowAside DEF Record
<1>8. PICK n \in Rows : n = Cardinality(DepRows) + 1 /\ dep'[n] = r /\ \A d \in DepRows : d < n
    BY <1>7
<1>9. PICK q \in DpRow : q = [dpCall[k] EXCEPT !.pc = "write", !.row = n]
    BY <1>1 DEF DpRow, DpPcs
<1>10. DpSet(k, q)
    BY <1>8, <1>9 DEF Record
<1>11. q.pc = "write" /\ q.op = "deploy" /\ q.row = n
    BY <1>1, <1>9 DEF DpRow
<1>12. \A d \in InEffect : dep'[d] = dep[d] /\ d < n /\ ~Failed(d)
    BY <1>1, <1>3, <1>7, <1>8 DEF InEffect, CalmCall, Undoing
<1>13. \A d \in InEffect' : ~Failed(d)'
    BY <1>7, <1>12 DEF Failed
<1>14. CalmCall(q)'
    BY <1>6, <1>8, <1>11, <1>13 DEF CalmCall
<1>15. (\A x : Top(dep, InEffect, x) => Top(dep', InEffect', x)) /\ (Chain => Chain')
    BY <1>7, <1>12, SameStory
<1>16. ASSUME dpUpset' = {} PROVE Chain' /\ TellCall(q)'
    <2>1. ToldByRows /\ Chain /\ dpCall[k].before = prod
        BY <1>1, <1>3, <1>16 DEF TellCall, Steady
    <2>2. ToldByRows' /\ Chain'
        BY <1>2, <1>15, <2>1 DEF ToldByRows
    <2>3. dep'[q.row].rollback = prod'
        BY <1>2, <1>6, <1>8, <1>11, <2>1
    <2>4. OnTop(q)'
        BY <1>7, <1>11, <1>12, <2>2, <2>3 DEF OnTop, ToldByRows
    <2> QED BY <1>11, <2>2, <2>4 DEF TellCall
<1> QED BY <1>3, <1>10, <1>11, <1>14, <1>16, StoryMoves

\* A call goes on while it writes; rows stay.
LEMMA StoryWrites ==
    ASSUME DpInv, Story, Calm', UNCHANGED <<dep, dpUpset>>, NEW k \in DpCalls, dpCall[k].pc \in Writing,
           NEW r \in DpRow, DpSet(k, r), r.pc \in Writing, r.op = dpCall[k].op, r.row = dpCall[k].row,
           dpUpset' = {} => TellCall(r)'
    PROVE  Story'
<1>1. ~DpAt(k, "idle") /\ r.pc # "idle"
    BY DEF DpAt, Writing
<1>2. Lone(k) /\ CalmCall(dpCall[k]) /\ (dpUpset' = {} => Chain)
    BY <1>1, Alone
<1>3. InEffect' = InEffect
    BY SameRows
<1>4. CalmCall(r)
    BY <1>2 DEF CalmCall, Undoing, Writing
<1>5. CalmCall(r)'
    BY <1>3, <1>4 DEF CalmCall, Failed
<1>6. Chain => Chain'
    BY <1>3 DEF Chain, Below
<1> QED BY <1>1, <1>2, <1>5, <1>6, StoryMoves

LEMMA WriteProductionStory == ASSUME DpInv, Story, Calm', NEW k \in DpCalls, WriteProduction(k) PROVE Story'
<1>1. dpCall[k].pc = "write" /\ UNCHANGED <<active, dep, dpUpset>> /\ prod' = Payload(k) /\ "deactivate" \in DpPcs
    BY DEF WriteProduction, DpAt, DpPcs
<1>2. PICK r \in DpRow : DpSet(k, r) /\ r.pc = "deactivate" /\ SameCall(r, dpCall[k])
    BY <1>1, DpGoes DEF DpInv, WriteProduction
<1>3. dpUpset' = {} => TellCall(dpCall[k])
    BY <1>1, Alone DEF DpAt
<1>4. ASSUME dpUpset' = {} PROVE TellCall(r)'
    <2>1. InEffect' = InEffect
        BY <1>1, SameRows
    <2>2. OnTop(dpCall[k])
        BY <1>1, <1>3, <1>4 DEF TellCall, Writing
    <2>3. OnTop(r)'
        BY <1>1, <1>2, <2>1, <2>2 DEF OnTop, SameCall
    <2>4. prod' = ChangeOf(r)'
        BY <1>1, <1>2 DEF ChangeOf, Payload, SameCall
    <2> QED BY <1>2, <2>3, <2>4 DEF TellCall, Steady
<1>5. dpCall[k].pc \in Writing /\ r.pc \in Writing /\ r.op = dpCall[k].op /\ r.row = dpCall[k].row
    BY <1>1, <1>2 DEF Writing, SameCall
<1> QED BY <1>1, <1>2, <1>4, <1>5, StoryWrites

LEMMA DeactivateStory == ASSUME DpInv, Story, Calm', NEW k \in DpCalls, Deactivate(k) PROVE Story'
<1>1. /\ dpCall[k] \in DpRow /\ dpCall[k].pc = "deactivate" /\ UNCHANGED <<prod, active, dep, dpUpset>>
      /\ DpSet(k, [dpCall[k] EXCEPT !.pc = "activate", !.seen = active])
    BY DEF Deactivate, DpAt, DpInv, DpTyped
<1>2. PICK r \in DpRow : r = [dpCall[k] EXCEPT !.pc = "activate", !.seen = active]
    BY <1>1 DEF DpRow, DpPcs, DpInv, DpTyped
<1>3. /\ r.pc = "activate" /\ r.seen = active /\ r.op = dpCall[k].op /\ r.row = dpCall[k].row
      /\ r.change = dpCall[k].change
    BY <1>1, <1>2 DEF DpRow
<1>4. dpUpset' = {} => TellCall(dpCall[k])
    BY <1>1, Alone DEF DpAt
<1>5. dpUpset' = {} => TellCall(r)
    BY <1>1, <1>3, <1>4 DEF TellCall, OnTop, ChangeOf, Writing, Steady
<1>6. dpUpset' = {} => TellCall(r)'
    BY <1>1, <1>5, StoryStays
<1>7. dpCall[k].pc \in Writing /\ r.pc \in Writing
    BY <1>1, <1>3 DEF Writing
<1> QED BY <1>1, <1>2, <1>3, <1>6, <1>7, StoryWrites

LEMMA ActivateStory == ASSUME DpInv, Story, Calm', NEW k \in DpCalls, Activate(k) PROVE Story'
<1>1. /\ dpCall[k].pc = "activate" /\ UNCHANGED <<prod, dep, dpUpset>> /\ "status" \in DpPcs
      /\ active' = (active \ dpCall[k].seen) \union {Payload(k)}
    BY DEF Activate, DpAt, DpPcs
<1>2. PICK r \in DpRow : DpSet(k, r) /\ r.pc = "status" /\ SameCall(r, dpCall[k])
    BY <1>1, DpGoes DEF DpInv, Activate
<1>3. dpUpset' = {} => TellCall(dpCall[k])
    BY <1>1, Alone DEF DpAt
<1>4. ASSUME dpUpset' = {} PROVE TellCall(r)'
    <2>1. InEffect' = InEffect
        BY <1>1, SameRows
    <2>2. OnTop(dpCall[k]) /\ prod = ChangeOf(dpCall[k]) /\ active \ dpCall[k].seen \subseteq {prod}
        BY <1>1, <1>3, <1>4 DEF TellCall, Writing
    <2>3. OnTop(r)'
        BY <1>1, <1>2, <2>1, <2>2 DEF OnTop, SameCall
    <2>4. prod' = ChangeOf(r)' /\ Payload(k) = prod
        BY <1>1, <1>2, <2>2 DEF ChangeOf, Payload, SameCall
    <2>5. active' \subseteq {prod'}
        BY <1>1, <2>2, <2>4
    <2> QED BY <1>2, <2>3, <2>4, <2>5 DEF TellCall, Steady
<1>5. dpCall[k].pc \in Writing /\ r.pc \in Writing /\ r.op = dpCall[k].op /\ r.row = dpCall[k].row
    BY <1>1, <1>2 DEF Writing, SameCall
<1> QED BY <1>1, <1>2, <1>4, <1>5, StoryWrites

\* A change comes into effect with its row on top of the others.
LEMMA InEffectStory ==
    ASSUME DpInv, NEW d \in Rows, d \notin InEffect, Effective(d)', \A e \in Rows \ {d} : dep'[e] = dep[e],
           dep'[d].rollback = dep[d].rollback, Chain, \A e \in InEffect : e < d, Top(dep, InEffect, dep[d].rollback)
    PROVE  InEffect' = InEffect \union {d} /\ Chain' /\ Top(dep', InEffect', dep'[d].applied)
<1>1. InEffect' = InEffect \union {d}
    BY DEF InEffect, Effective, DepRows
<1>2. \A e \in InEffect : e \in Rows \ {d} /\ dep'[e] = dep[e]
    BY DEF InEffect, DepRows
<1>3. \A e \in InEffect : e \in Nat
    BY <1>2, DeploymentsAssumption DEF Rows
<1>4. d \in Nat
    BY DeploymentsAssumption DEF Rows
<1>5. Chain'
    <2>1. SUFFICES ASSUME NEW e \in InEffect' PROVE Top(dep', Below(e)', dep'[e].rollback)
        BY DEF Chain
    <2>2. CASE e = d
        <3>1. Below(e)' = InEffect
            <4>1. Below(d)' = {o \in InEffect \union {d} : o < d}
                BY <1>1 DEF Below
            <4>2. (\A o \in InEffect : o < d) /\ ~(d < d)
                BY <1>4
            <4>3. {o \in InEffect \union {d} : o < d} = InEffect
                BY <4>2
            <4> QED BY <2>2, <4>1, <4>3
        <3> QED BY <1>2, <2>2, <3>1, TopSame
    <2>3. CASE e \in InEffect
        <3>1. Below(e)' = Below(e)
            BY <1>1, <1>3, <1>4, <2>3 DEF Below
        <3>2. Top(dep, Below(e), dep[e].rollback) /\ \A o \in Below(e) : o \in InEffect
            BY <2>3 DEF Chain, Below
        <3> QED BY <1>2, <2>3, <3>1, <3>2, TopSame
    <2> QED BY <1>1, <2>2, <2>3
<1>6. Top(dep', InEffect', dep'[d].applied)
    BY <1>1, <1>3, <1>4 DEF Top
<1> QED BY <1>1, <1>5, <1>6

\* The row on top goes out of effect.
LEMMA OutOfEffectStory ==
    ASSUME DpInv, NEW d \in InEffect, ~Effective(d)', \A e \in Rows \ {d} : dep'[e] = dep[e],
           dep'[d].rollback = dep[d].rollback, Chain, \A e \in InEffect : e <= d
    PROVE  InEffect' = InEffect \ {d} /\ Chain' /\ Top(dep', InEffect', dep'[d].rollback)
<1>1. InEffect' = InEffect \ {d}
    BY DEF InEffect, Effective, DepRows
<1>2. \A e \in InEffect : e \in Rows /\ e \in Nat
    BY DeploymentsAssumption DEF InEffect, DepRows, Rows
<1>3. Below(d) = InEffect \ {d}
    BY <1>2 DEF Below
<1>4. Chain'
    <2>1. SUFFICES ASSUME NEW e \in InEffect' PROVE Top(dep', Below(e)', dep'[e].rollback)
        BY DEF Chain
    <2>2. e \in InEffect /\ e # d
        BY <1>1
    <2>3. Below(e)' = Below(e) /\ \A o \in Below(e) : o \in InEffect /\ o # d
        BY <1>1, <1>2, <2>2 DEF Below
    <2>4. Top(dep, Below(e), dep[e].rollback)
        BY <2>2 DEF Chain
    <2> QED BY <1>2, <2>2, <2>3, <2>4, TopSame
<1>5. Top(dep, Below(d), dep[d].rollback)
    BY DEF Chain
<1>6. Top(dep', InEffect', dep'[d].rollback)
    BY <1>1, <1>2, <1>3, <1>5, TopSame
<1> QED BY <1>1, <1>4, <1>6

LEMMA NewRowHolds == ASSUME NEW d \in Rows, dep[d].trials = 0 PROVE ~Failed(d)
BY DeploymentsAssumption DEF Failed, Failing

LEMMA RowStatusStory == ASSUME DpInv, Story, Calm', NEW k \in DpCalls, RowStatus(k) PROVE Story'
<1>1. /\ dpCall[k] \in DpRow /\ DpCallHolds(dpCall[k]) /\ dpCall[k].pc = "status"
      /\ UNCHANGED <<prod, active, dpUpset>> /\ "candidate" \in DpPcs
    BY DEF RowStatus, DpAt, DpPcs, DpInv, DpTyped
<1>2. PICK r \in DpRow : DpSet(k, r) /\ r.pc = "candidate" /\ SameCall(r, dpCall[k])
    BY <1>1, DpGoes DEF DpInv, RowStatus
<1>3. PICK d \in Rows : d = dpCall[k].row /\ d \in DepRows /\ dep[d] \in DepRow
    BY <1>1, Acts DEF Acting
<1>4. Lone(k) /\ CalmCall(dpCall[k]) /\ (dpUpset' = {} => Chain /\ TellCall(dpCall[k]))
    BY <1>1, Alone DEF DpAt
<1>5. dpCall[k].op # "sweep" /\ dpCall[k].pc \in Writing
    BY <1>1, <1>4 DEF CalmCall, Writing
<1>6. dpUpset' = {} => OnTop(dpCall[k]) /\ prod = ChangeOf(dpCall[k]) /\ active \subseteq {prod}
    BY <1>1, <1>4, <1>5 DEF TellCall
<1>7. PICK s \in DepStatus : /\ dep' = [dep EXCEPT ![d].status = s]
                             /\ s = IF dpCall[k].op = "deploy" THEN "MONITORING" ELSE "ROLLED_BACK"
    BY <1>3 DEF RowStatus, DepStatus
<1>8. PICK q \in DepRow : q = [dep[d] EXCEPT !.status = s]
    BY <1>3 DEF DepRow
<1>9. q.status = s /\ q.applied = dep[d].applied /\ q.rollback = dep[d].rollback
      /\ q.trials = dep[d].trials /\ q.failures = dep[d].failures
    BY <1>3, <1>8 DEF DepRow
<1>10. dep'[d] = q /\ \A e \in Rows \ {d} : dep'[e] = dep[e]
    BY <1>7, <1>8 DEF DpInv, DpTyped
<1>11. CASE dpCall[k].op = "deploy"
    <2>1. dep[d].status = "PENDING" /\ dep[d].trials = 0
        BY <1>3, <1>4, <1>5, <1>11 DEF CalmCall
    <2>2. d \notin InEffect /\ Effective(d)' /\ ~Failed(d)'
        BY <1>7, <1>9, <1>10, <1>11, <2>1, DeploymentsAssumption DEF InEffect, Effective, Failed, Failing
    <2>3. \A e \in InEffect' : e = d \/ (e \in InEffect /\ dep'[e] = dep[e])
        <3>1. ASSUME NEW e \in InEffect', e # d PROVE e \in InEffect /\ dep'[e] = dep[e]
            BY <1>10, <3>1 DEF InEffect, Effective, DepRows
        <3> QED BY <3>1
    <2>4. \A e \in InEffect : ~Failed(e)
        BY <1>4, <1>11 DEF CalmCall, Undoing
    <2>5. \A e \in InEffect' : ~Failed(e)'
        BY <2>2, <2>3, <2>4 DEF Failed
    <2>6. CalmCall(r)'
        BY <1>2, <1>11, <2>5 DEF CalmCall, SameCall, Writing
    <2>7. ASSUME dpUpset' = {} PROVE Chain' /\ TellCall(r)'
        <3>1. (\A e \in InEffect : e < d) /\ Top(dep, InEffect, dep[d].rollback) /\ Chain
            BY <1>3, <1>4, <1>6, <1>11, <2>7 DEF OnTop
        <3>2. Chain' /\ Top(dep', InEffect', dep'[d].applied)
            BY <1>9, <1>10, <2>2, <3>1, InEffectStory
        <3>3. prod = dep[d].applied
            BY <1>1, <1>3, <1>6, <1>11, <2>7 DEF ChangeOf, DpCallHolds, OnRecord, Acting
        <3>4. ToldByRows'
            BY <1>1, <1>6, <1>9, <1>10, <2>7, <3>2, <3>3 DEF ToldByRows
        <3> QED BY <1>2, <3>2, <3>4 DEF TellCall, Writing
    <2> QED BY <1>2, <1>4, <2>6, <2>7, StoryMoves
<1>12. CASE dpCall[k].op # "deploy"
    <2>1. ~Effective(d)'
        BY <1>7, <1>9, <1>10, <1>12 DEF Effective
    <2>2. \A e \in InEffect' : e \in InEffect /\ e # d /\ dep'[e] = dep[e]
        BY <1>10, <2>1 DEF InEffect, Effective, DepRows
    <2>3. \A e \in InEffect' : ~Failed(e)
        BY <1>3, <1>4, <2>2 DEF CalmCall, Undoing
    <2>4. \A e \in InEffect' : ~Failed(e)'
        BY <2>2, <2>3 DEF Failed
    <2>5. CalmCall(r)'
        BY <1>2, <1>5, <1>12, <2>4 DEF CalmCall, SameCall
    <2>6. ASSUME dpUpset' = {} PROVE Chain' /\ TellCall(r)'
        <3>1. d \in InEffect /\ (\A e \in InEffect : e <= d) /\ Chain
            BY <1>3, <1>4, <1>6, <1>12, <2>6 DEF OnTop
        <3>2. Chain' /\ Top(dep', InEffect', dep'[d].rollback)
            BY <1>9, <1>10, <2>1, <3>1, OutOfEffectStory
        <3>3. prod = dep[d].rollback
            BY <1>3, <1>6, <1>12, <2>6 DEF ChangeOf
        <3>4. ToldByRows'
            BY <1>1, <1>6, <1>9, <1>10, <2>6, <3>2, <3>3 DEF ToldByRows
        <3> QED BY <1>2, <3>2, <3>4 DEF TellCall, Writing
    <2> QED BY <1>2, <1>4, <2>5, <2>6, StoryMoves
<1> QED BY <1>11, <1>12

\* A call ends that was not undoing anything.
LEMMA StoryEnds ==
    ASSUME DpInv, Story, Calm', dpUpset \subseteq dpUpset', NEW k \in DpCalls, ~DpAt(k, "idle"), DpSet(k, Idle),
           UNCHANGED <<prod, active, dep>>, \A d \in InEffect : ~Undoing(dpCall[k], d), dpCall[k].pc \in Steady
    PROVE  Story'
<1>1. CalmCall(dpCall[k]) /\ (dpUpset' = {} => TellCall(dpCall[k]))
    BY Alone
<1>2. CalmCall(Idle)
    BY <1>1, IdleCalm DEF CalmCall
<1>3. dpUpset' = {} => TellCall(Idle)
    BY <1>1, IdleCalm DEF TellCall
<1> QED BY <1>2, <1>3, IdleRow, StoryGoesOn

LEMMA CandidateStatusStory == ASSUME DpInv, Story, Calm', NEW k \in DpCalls, CandidateStatus(k) PROVE Story'
<1>1. dpCall[k].pc = "candidate" /\ UNCHANGED <<prod, active, dep, dpUpset>> /\ ~DpAt(k, "idle")
    BY DEF CandidateStatus, DpAt
<1>2. CalmCall(dpCall[k])
    BY <1>1, Alone
<1>3. dpCall[k].op # "sweep"
    BY <1>1, <1>2 DEF CalmCall
<1>4. DpSet(k, Idle)
    BY <1>3 DEF CandidateStatus
<1>5. (\A d \in InEffect : ~Undoing(dpCall[k], d)) /\ dpCall[k].pc \in Steady
    BY <1>1 DEF Undoing, Writing, Steady
<1> QED BY <1>1, <1>4, <1>5, StoryEnds

LEMMA FailureStory == ASSUME NEW k \in DpCalls, WriteFails(k) \/ DpDies(k) PROVE ~Calm'
BY DEF WriteFails, DpDies, Calm

LEMMA RollbackBeginStory == ASSUME DpInv, Story, Calm', NEW k \in DpCalls, RollbackBegin(k) PROVE Story'
<1>1. PICK d \in DepRows : DpBegin(k, [Idle EXCEPT !.pc = "rollback", !.op = "rollback", !.row = d])
    BY DEF RollbackBegin
<1>2. PICK r \in DpRow : r = [Idle EXCEPT !.pc = "rollback", !.op = "rollback", !.row = d]
    BY IdleRow DEF DpRow, DpPcs, DpOps, DepRows
<1>3. r.pc = "rollback" /\ r.op = "rollback"
    BY <1>2 DEF Idle
<1>4. ((\A e \in InEffect : ~Failed(e)) => CalmCall(r)) /\ (ToldByRows => TellCall(r))
    BY <1>3 DEF CalmCall, TellCall, Writing
<1>5. UNCHANGED <<prod, active, dep>> /\ DpBegin(k, r)
    BY <1>1, <1>2 DEF RollbackBegin
<1> QED BY <1>3, <1>4, <1>5, StoryBegins

LEMMA ObserveBeginStory == ASSUME DpInv, Story, Calm', NEW k \in DpCalls, ObserveBegin(k) PROVE Story'
<1>1. PICK d \in DepRows, failed \in {0, 1} :
         DpBegin(k, [Idle EXCEPT !.pc = "observe", !.op = "observe", !.row = d,
                                !.trials = dep[d].trials + 1, !.failures = dep[d].failures + failed])
    BY DEF ObserveBegin
<1>2. dep[d] \in DepRow
    BY DEF DpInv, DpTyped, DepRows
<1>3. PICK t \in Nat, f \in Nat : t = dep[d].trials + 1 /\ f = dep[d].failures + failed
    BY <1>2 DEF DepRow
<1>4. PICK r \in DpRow : r = [Idle EXCEPT !.pc = "observe", !.op = "observe", !.row = d, !.trials = t, !.failures = f]
    BY IdleRow DEF DpRow, DpPcs, DpOps, DepRows
<1>5. r.pc = "observe" /\ r.op = "observe"
    BY <1>4 DEF Idle
<1>6. ((\A e \in InEffect : ~Failed(e)) => CalmCall(r)) /\ (ToldByRows => TellCall(r))
    BY <1>5 DEF CalmCall, TellCall, Writing
<1>7. UNCHANGED <<prod, active, dep>> /\ DpBegin(k, r)
    BY <1>1, <1>3, <1>4 DEF ObserveBegin
<1> QED BY <1>5, <1>6, <1>7, StoryBegins

LEMMA SweepBeginStory == ASSUME DpInv, Story, Calm', NEW k \in DpCalls, SweepBegin(k) PROVE Story'
<1>1. PICK S \in SUBSET {d \in DepRows : dep[d].status = "MONITORING"} :
         DpBegin(k, [Idle EXCEPT !.pc = "sweep", !.op = "sweep", !.held = S,
                                !.failing = {d \in S : Failing(dep[d].trials, dep[d].failures)}])
    BY DEF SweepBegin
<1>2. PICK F \in SUBSET S : F = {d \in S : Failing(dep[d].trials, dep[d].failures)}
    OBVIOUS
<1>3. PICK r \in DpRow : r = [Idle EXCEPT !.pc = "sweep", !.op = "sweep", !.held = S, !.failing = F]
    BY IdleRow DEF DpRow, DpPcs, DpOps, DepRows
<1>4. r.pc = "sweep" /\ r.op = "sweep" /\ r.held = S /\ r.failing = F
    BY <1>3 DEF Idle
<1>5. S \subseteq InEffect
    BY DEF InEffect, Effective
<1>6. (\A e \in InEffect : ~Failed(e)) => F = {}
    BY <1>2, <1>5 DEF Failed
<1>7. ((\A e \in InEffect : ~Failed(e)) => CalmCall(r)) /\ (ToldByRows => TellCall(r))
    BY <1>4, <1>5, <1>6 DEF CalmCall, TellCall, Writing
<1>8. UNCHANGED <<prod, active, dep>> /\ DpBegin(k, r)
    BY <1>1, <1>2, <1>3 DEF SweepBegin
<1> QED BY <1>4, <1>7, <1>8, StoryBegins

LEMMA RollbackReadStory == ASSUME DpInv, Story, Calm', NEW k \in DpCalls, RollbackRead(k) PROVE Story'
<1>1. /\ dpCall[k] \in DpRow /\ DpCallHolds(dpCall[k]) /\ dpCall[k].pc = "rollback" /\ ~DpAt(k, "idle")
      /\ UNCHANGED <<prod, active, dep>> /\ dpUpset \subseteq dpUpset'
    BY DEF DpInv, DpTyped, RollbackRead, DpAt
<1>2. CalmCall(dpCall[k]) /\ (dpUpset' = {} => TellCall(dpCall[k]))
    BY <1>1, Alone
<1>3. PICK d \in DepRows : d = dpCall[k].row
    BY <1>1 DEF DpCallHolds, OnRecord
<1>4. CASE /\ Effective(d) /\ DpGo(k, "write")
           /\ dpUpset' = IF \E e \in DepRows : e > d /\ Effective(e) THEN dpUpset \union {"order"} ELSE dpUpset
    <2>1. "write" \in DpPcs
        BY DEF DpPcs
    <2>2. PICK r \in DpRow : DpSet(k, r) /\ r.pc = "write" /\ SameCall(r, dpCall[k])
        BY <1>4, <2>1, DpGoes DEF DpInv
    <2>3. r.op \notin {"deploy", "sweep"} /\ r.row = d
        BY <1>1, <1>2, <1>3, <2>2 DEF DpCallHolds, DpInPlace, SameCall, CalmCall
    <2>4. CalmCall(r)
        BY <1>1, <1>2, <2>2, <2>3 DEF CalmCall, Undoing, Writing, SameCall
    <2>5. ASSUME dpUpset' = {} PROVE TellCall(r)
        <3>1. ToldByRows
            BY <1>1, <1>2, <2>5 DEF TellCall, Steady
        <3>2. \A e \in DepRows : Effective(e) => ~(e > d)
            BY <1>4, <2>5
        <3>3. \A e \in InEffect : e <= d
            BY <3>2, DeploymentsAssumption DEF InEffect, DepRows, Rows
        <3>4. OnTop(r)
            BY <1>4, <2>3, <3>3 DEF OnTop, InEffect
        <3> QED BY <2>2, <3>1, <3>4 DEF TellCall
    <2> QED BY <1>1, <2>2, <2>4, <2>5, StoryGoesOn
<1>5. CASE ~Effective(d) /\ DpSet(k, Idle)
    <2>1. (\A e \in InEffect : ~Undoing(dpCall[k], e)) /\ dpCall[k].pc \in Steady
        BY <1>1, <1>3, <1>5 DEF Undoing, InEffect, Steady
    <2> QED BY <1>1, <1>5, <2>1, StoryEnds
<1> QED BY <1>3, <1>4, <1>5 DEF RollbackRead

LEMMA ObserveWriteStory == ASSUME DpInv, Story, Calm', NEW k \in DpCalls, ObserveWrite(k) PROVE Story'
<1>1. /\ dpCall[k] \in DpRow /\ DpCallHolds(dpCall[k]) /\ dpCall[k].pc = "observe" /\ dpCall[k].op = "observe"
      /\ UNCHANGED <<prod, active, dpUpset>> /\ ~DpAt(k, "idle")
    BY DEF DpInv, DpTyped, ObserveWrite, DpAt, DpCallHolds, DpInPlace
<1>2. PICK d \in DepRows : d = dpCall[k].row /\ d \in Rows /\ dep[d] \in DepRow
    BY <1>1 DEF DpCallHolds, OnRecord, DepRows, DpInv, DpTyped
<1>3. PICK t \in Nat, f \in Nat : t = dpCall[k].trials /\ f = dpCall[k].failures
    BY <1>1 DEF DpRow
<1>4. PICK q \in DepRow : q = [dep[d] EXCEPT !.trials = t, !.failures = f]
    BY <1>2 DEF DepRow
<1>5. /\ q.status = dep[d].status /\ q.applied = dep[d].applied /\ q.rollback = dep[d].rollback
      /\ q.trials = t /\ q.failures = f
    BY <1>2, <1>4 DEF DepRow
<1>6. dep'[d] = q /\ \A e \in Rows \ {d} : dep'[e] = dep[e]
    <2>1. dep' = [dep EXCEPT ![d].trials = t, ![d].failures = f]
        BY <1>2, <1>3 DEF ObserveWrite
    <2> QED BY <1>2, <1>4, <2>1 DEF DpInv, DpTyped, DepRow
<1>7. InEffect' = InEffect
    BY <1>2, <1>5, <1>6 DEF InEffect, Effective, DepRows
<1>8. Lone(k) /\ CalmCall(dpCall[k]) /\ (dpUpset' = {} => Chain /\ TellCall(dpCall[k]))
    BY <1>1, Alone
<1>9. \A e \in InEffect : e # d => ~Failed(e)'
    <2>1. ASSUME NEW e \in InEffect, e # d PROVE ~Failed(e)'
        <3>1. ~Failed(e) /\ e \in Rows
            BY <1>1, <1>8 DEF CalmCall, Undoing, Writing, InEffect, DepRows
        <3> QED BY <1>6, <2>1, <3>1 DEF Failed
    <2> QED BY <2>1
<1>10. Failed(d)' <=> Judged(k)
    BY <1>3, <1>5, <1>6 DEF Failed, Judged
<1>11. \A e \in InEffect : dep'[e].applied = dep[e].applied /\ dep'[e].rollback = dep[e].rollback
    BY <1>5, <1>6 DEF InEffect, DepRows
<1>12. (\A x : Top(dep, InEffect, x) => Top(dep', InEffect', x)) /\ (Chain => Chain')
    BY <1>7, <1>11, SameStory
<1>13. dpUpset' = {} => ToldByRows' /\ Chain'
    BY <1>1, <1>7, <1>8, <1>12 DEF TellCall, Steady, ToldByRows
<1>14. CASE Judged(k) /\ DpGo(k, "rollback")
    <2>1. "rollback" \in DpPcs
        BY DEF DpPcs
    <2>2. PICK r \in DpRow : DpSet(k, r) /\ r.pc = "rollback" /\ SameCall(r, dpCall[k])
        BY <1>14, <2>1, DpGoes DEF DpInv
    <2>3. Undoing(r, d) /\ r.op = "observe"
        BY <1>1, <1>2, <2>2 DEF Undoing, SameCall
    <2>4. \A e \in InEffect' : Failed(e)' => Undoing(r, e)
        BY <1>7, <1>9, <2>3
    <2>5. CalmCall(r)'
        BY <2>2, <2>3, <2>4 DEF CalmCall, Undoing
    <2>6. dpUpset' = {} => TellCall(r)'
        BY <1>13, <2>2 DEF TellCall, Writing
    <2> QED BY <1>8, <1>13, <2>2, <2>5, <2>6, StoryMoves
<1>15. CASE ~Judged(k) /\ DpSet(k, Idle)
    <2>1. \A e \in InEffect' : ~Failed(e)'
        BY <1>7, <1>9, <1>10, <1>15
    <2>2. CalmCall(Idle)'
        BY <2>1, IdleCalm DEF CalmCall, Idle, Writing
    <2>3. dpUpset' = {} => TellCall(Idle)'
        BY <1>13 DEF TellCall, Idle, Writing
    <2> QED BY <1>8, <1>13, <1>15, <2>2, <2>3, IdleRow, StoryMoves
<1> QED BY <1>14, <1>15 DEF ObserveWrite

LEMMA SweepRowStory == ASSUME DpInv, Story, Calm', NEW k \in DpCalls, SweepRow(k) PROVE Story'
<1>1. /\ dpCall[k] \in DpRow /\ dpCall[k].pc = "sweep" /\ dpCall[k].op = "sweep"
      /\ UNCHANGED <<prod, active, dpUpset>> /\ ~DpAt(k, "idle")
    BY DEF DpInv, DpTyped, SweepRow, DpAt, DpCallHolds, DpInPlace
<1>2. Lone(k) /\ CalmCall(dpCall[k]) /\ (dpUpset' = {} => Chain /\ TellCall(dpCall[k]))
    BY <1>1, Alone
<1>3. dpCall[k].failing = {} /\ dpCall[k].held \subseteq InEffect /\ \A e \in InEffect : ~Failed(e)
    BY <1>1, <1>2 DEF CalmCall, Undoing, Writing
<1>4. CASE DpSet(k, Idle) /\ UNCHANGED dep
    <2>1. (\A e \in InEffect : ~Undoing(dpCall[k], e)) /\ dpCall[k].pc \in Steady
        BY <1>1 DEF Undoing, Steady
    <2> QED BY <1>1, <1>4, <2>1, StoryEnds
<1>5. ASSUME NEW d \in dpCall[k].held, dep' = [dep EXCEPT ![d].status = "SETTLED"],
             DpSet(k, [dpCall[k] EXCEPT !.held = dpCall[k].held \ {d}, !.row = d])
      PROVE  Story'
    <2>1. d \in InEffect /\ d \in Rows /\ dep[d] \in DepRow
        BY <1>3 DEF InEffect, DepRows, DpInv, DpTyped
    <2>2. PICK r \in DpRow : r = [dpCall[k] EXCEPT !.held = dpCall[k].held \ {d}, !.row = d]
        BY <1>1, <2>1 DEF DpRow
    <2>3. r.pc = "sweep" /\ r.op = "sweep" /\ r.failing = {} /\ r.held \subseteq InEffect
        BY <1>1, <1>3, <2>2 DEF DpRow
    <2>4. PICK q \in DepRow : q = [dep[d] EXCEPT !.status = "SETTLED"]
        BY <2>1 DEF DepRow, DepStatus
    <2>5. /\ q.status = "SETTLED" /\ q.applied = dep[d].applied /\ q.rollback = dep[d].rollback
          /\ q.trials = dep[d].trials /\ q.failures = dep[d].failures
        BY <2>1, <2>4 DEF DepRow
    <2>6. dep'[d] = q /\ \A e \in Rows \ {d} : dep'[e] = dep[e]
        BY <1>5, <2>1, <2>4 DEF DpInv, DpTyped
    <2>7. InEffect' = InEffect
        BY <2>1, <2>5, <2>6 DEF InEffect, Effective, DepRows
    <2>8. \A e \in InEffect : /\ dep'[e].applied = dep[e].applied /\ dep'[e].rollback = dep[e].rollback
                              /\ dep'[e].trials = dep[e].trials /\ dep'[e].failures = dep[e].failures
        BY <2>5, <2>6 DEF InEffect, DepRows
    <2>9. \A e \in InEffect' : ~Failed(e)'
        BY <1>3, <2>7, <2>8 DEF Failed
    <2>10. CalmCall(r)'
        BY <2>3, <2>7, <2>9 DEF CalmCall
    <2>11. (\A x : Top(dep, InEffect, x) => Top(dep', InEffect', x)) /\ (Chain => Chain')
        BY <2>7, <2>8, SameStory
    <2>12. dpUpset' = {} => ToldByRows' /\ Chain'
        BY <1>1, <1>2, <2>7, <2>11 DEF TellCall, Steady, ToldByRows
    <2>13. dpUpset' = {} => TellCall(r)'
        BY <2>3, <2>12 DEF TellCall, Writing
    <2> QED BY <1>2, <1>5, <2>2, <2>3, <2>10, <2>12, <2>13, StoryMoves
<1>6. \/ \E d \in dpCall[k].held :
            /\ dep' = [dep EXCEPT ![d].status = "SETTLED"]
            /\ DpSet(k, [dpCall[k] EXCEPT !.held = dpCall[k].held \ {d}, !.row = d])
      \/ DpSet(k, Idle) /\ UNCHANGED dep
    BY <1>1, <1>3 DEF SweepRow, DpRow
<1> QED BY <1>4, <1>5, <1>6

LEMMA StoryInit == DpInit => Story
<1> SUFFICES ASSUME DpInit PROVE Story
    OBVIOUS
<1>1. InEffect = {} /\ prod = Original /\ active = {}
    BY IdleRow DEF DpInit, InEffect, DepRows
<1>2. CalmCall(Idle) /\ TellCall(Idle) /\ Chain
    BY <1>1, IdleCalm DEF ToldByRows, Top, Chain
<1>3. \A k \in DpCalls : DpAt(k, "idle")
    BY IdleRow DEF DpInit, DpAt
<1> QED BY <1>2, <1>3 DEF Story, CalmInv, TellInv

LEMMA StoryNext == DpInv /\ Story /\ [DpNext]_dpVars => Story'
<1> SUFFICES ASSUME DpInv, Story, [DpNext]_dpVars, Calm' PROVE Story'
    BY NotCalm
<1>1. CASE UNCHANGED dpVars
    BY <1>1, AsideStory DEF dpVars
<1>2. ASSUME NEW x \in Changes, Propose(x) PROVE Story'
    BY <1>2, AsideStory DEF Propose
<1>3. ASSUME NEW c \in Candidates, Queue(c) \/ RejectCandidate(c) \/ StartExperiment(c) PROVE Story'
    BY <1>3, AsideStory DEF Queue, RejectCandidate, StartExperiment
<1>4. ASSUME NEW c \in Candidates, Approve(c) PROVE Story'
    BY <1>4, ApproveStory
<1>5. ASSUME NEW e \in Exps, RunTrials(e) \/ Evaluate(e) \/ Abandon(e) PROVE Story'
    BY <1>5, AsideStory DEF RunTrials, Evaluate, Abandon
<1>6. ASSUME NEW k \in DpCalls, DpStep(k) PROVE Story'
    <2>1. CASE DeployBegin(k) \/ DeployBefore(k) \/ FindApproval(k) \/ Review(k) \/ Record(k)
        BY <2>1, DeployBeginStory, DeployBeforeStory, FindApprovalStory, ReviewStory, RecordStory
    <2>2. CASE WriteProduction(k) \/ Deactivate(k) \/ Activate(k) \/ RowStatus(k) \/ CandidateStatus(k)
        BY <2>2, WriteProductionStory, DeactivateStory, ActivateStory, RowStatusStory, CandidateStatusStory
    <2>3. CASE WriteFails(k) \/ DpDies(k) \/ RollbackBegin(k) \/ RollbackRead(k)
        BY <2>3, FailureStory, RollbackBeginStory, RollbackReadStory
    <2>4. CASE ObserveBegin(k) \/ ObserveWrite(k) \/ SweepBegin(k) \/ SweepRow(k)
        BY <2>4, ObserveBeginStory, ObserveWriteStory, SweepBeginStory, SweepRowStory
    <2> QED BY <1>6, <2>1, <2>2, <2>3, <2>4 DEF DpStep
<1> QED BY <1>1, <1>2, <1>3, <1>4, <1>5, <1>6 DEF DpNext

\* Where calls did not overlap or fail, the rows tell what production and its
\* active version are, if the newest was always undone first, and no deployment
\* that failed too often stays in effect.
THEOREM RowsTell == DpSpec => []RowsTellProduction
<1>1. ASSUME DpInv, Story PROVE RowsTellProduction
    <2>1. SUFFICES ASSUME DpQuiet
                   PROVE  /\ dpUpset = {} =>
                                /\ prod = IF InEffect = {} THEN Original
                                          ELSE dep[CHOOSE d \in InEffect : \A e \in InEffect : e <= d].applied
                                /\ active \subseteq {prod}
                          /\ dpUpset \subseteq {"order"} => ~FailingStays
        BY DEF RowsTellProduction
    <2>2. ASSUME dpUpset = {}
          PROVE  /\ prod = IF InEffect = {} THEN Original
                           ELSE dep[CHOOSE d \in InEffect : \A e \in InEffect : e <= d].applied
                 /\ active \subseteq {prod}
        <3>1. ToldByRows
            BY <1>1, <2>1, <2>2, IdleCalm DEF Story, TellInv
        <3>2. CASE InEffect = {}
            BY <3>1, <3>2 DEF ToldByRows, Top
        <3>3. ASSUME NEW d \in InEffect, \A e \in InEffect : e <= d, prod = dep[d].applied
              PROVE  prod = dep[CHOOSE c \in InEffect : \A e \in InEffect : e <= c].applied
            <4> DEFINE top == CHOOSE c \in InEffect : \A e \in InEffect : e <= c
            <4>1. top \in InEffect /\ \A e \in InEffect : e <= top
                BY <3>3
            <4> HIDE DEF top
            <4>2. top \in Nat /\ d \in Nat
                BY <4>1, DeploymentsAssumption DEF InEffect, DepRows, Rows
            <4>3. top = d
                BY <3>3, <4>1, <4>2
            <4>4. prod = dep[top].applied
                BY <3>3, <4>3
            <4> QED BY <4>4 DEF top
        <3> QED BY <3>1, <3>2, <3>3 DEF ToldByRows, Top
    <2>3. ASSUME dpUpset \subseteq {"order"} PROVE ~FailingStays
        BY <1>1, <2>1, <2>3, IdleCalm DEF Story, CalmInv, Calm, FailingStays, Failed
    <2> QED BY <2>2, <2>3
<1>2. DpSpec => []Story
    BY DeploymentsHold, StoryInit, StoryNext, PTL DEF DpSpec
<1> QED BY <1>1, <1>2, DeploymentsHold, PTL
=============================================================================

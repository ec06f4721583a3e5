---------------------------- MODULE Deployments ----------------------------
(***************************************************************************)
(* Evolution: candidates are proposed, measured by experiments, approved   *)
(* and deployed, and a deployment is observed, rolled back or settled      *)
(* (CandidateService, ExperimentService, EvolutionPolicyService,           *)
(* Constitution, VersionService, DeploymentService).                       *)
(*                                                                         *)
(* One subject, and one field of it that every change writes.  Deploying,  *)
(* rolling back, observing and sweeping are calls of several statements    *)
(* that interleave and may die between any two; proposals, experiments and *)
(* approvals are steps between them.  The laws about permissions, tenants, *)
(* privilege and deletion judge the content of a change and are taken to   *)
(* be satisfied.                                                           *)
(***************************************************************************)
EXTENDS Naturals, FiniteSets

CONSTANTS
    Changes, Original,  \* what a candidate may write; what production runs at first
    Candidates,         \* ids of the candidate rows there may be
    KindOf,             \* the kind of change of each
    NeedsConsent,       \* candidates the policy wants a person for
    MinTrials,          \* observations before a deployment is judged
    MaxExperiments, MaxRows, MaxTrials,  \* bounds on experiments, deployment rows and observations
    MaxDpCalls          \* bound: calls, numbered as they begin

Exps == 1 .. MaxExperiments
Rows == 1 .. MaxRows
DpCalls == 1 .. MaxDpCalls

ASSUME DeploymentsAssumption ==
    /\ Original \notin Changes /\ Candidates # {}
    /\ NeedsConsent \subseteq Candidates
    /\ MinTrials \in Nat \ {0}
    /\ \A n \in {MaxExperiments, MaxRows, MaxDpCalls, MaxTrials} : n \in Nat

VARIABLES
    prod,       \* the field of the subject
    active,     \* what the versions with isActive hold
    cand,       \* the candidate rows
    exper,      \* the experiment rows, oldest first
    dep,        \* the deployment rows, oldest first: approvals too
    dpCall,     \* where each call is and what it has read
    dpBegun,    \* calls begun so far
    measured,   \* history: <<candidate, change>> that trials were run for
    consented,  \* history: <<candidate, change>> a person approved
    proposed,   \* history: <<candidate, change>> ever proposed
    dpUpset     \* history: what happened of "overlap", "failure", "order"

dpVars == <<prod, active, cand, exper, dep, dpCall, dpBegun, measured, consented, proposed, dpUpset>>
dpHistory == <<measured, consented, proposed>>

NoDep == [status |-> "none", cand |-> CHOOSE c \in Candidates : TRUE, applied |-> Original,
          rollback |-> Original, approved |-> FALSE, versioned |-> FALSE, trials |-> 0, failures |-> 0]
Idle == [pc |-> "idle", op |-> "none", cand |-> CHOOSE c \in Candidates : TRUE, change |-> Original,
         before |-> Original, approval |-> 0, row |-> 0, held |-> {}, failing |-> {},
         seen |-> {}, trials |-> 0, failures |-> 0]

DpInit ==
    /\ prod = Original
    /\ active = {}
    /\ cand = [c \in Candidates |-> [status |-> "none", change |-> Original]]
    /\ exper = [e \in Exps |-> [status |-> "none", cand |-> CHOOSE c \in Candidates : TRUE, verdict |-> "none",
                           trials |-> FALSE]]
    /\ dep = [d \in Rows |-> NoDep]
    /\ dpCall = [k \in DpCalls |-> Idle]
    /\ dpBegun = 0
    /\ measured = {} /\ consented = {} /\ proposed = {} /\ dpUpset = {}

ExpRows == {e \in Exps : exper[e].status # "none"}
DepRows == {d \in Rows : dep[d].status # "none"}
ExpsOf(c) == {e \in ExpRows : exper[e].cand = c}
DpAt(k, step) == dpCall[k].pc = step
DpSet(k, r) == dpCall' = [dpCall EXCEPT ![k] = r]
DpGo(k, step) == DpSet(k, [dpCall[k] EXCEPT !.pc = step])
SetCandidate(c, status) == cand' = [cand EXCEPT ![c].status = status]
-----------------------------------------------------------------------------
(* Candidates                                                               *)

Open == {"DRAFT", "QUEUED", "TESTING", "VALIDATED"}

\* CandidateService.create: an open candidate of the kind takes the new change
\* over, whatever it is and however far the candidate has come.  (A bound: a
\* change is proposed once to a candidate.)
Propose(x) ==
    /\ \E c \in Candidates :
          /\ <<c, x>> \notin proposed
          /\ proposed' = proposed \union {<<c, x>>}
          /\ LET alike == {o \in Candidates : KindOf[o] = KindOf[c] /\ cand[o].status \in Open} IN
             \/ /\ c \in alike
                /\ cand' = [cand EXCEPT ![c].change = x]
             \/ /\ alike = {} /\ cand[c].status = "none"
                /\ cand' = [cand EXCEPT ![c] = [status |-> "DRAFT", change |-> x]]
    /\ UNCHANGED <<prod, active, exper, dep, dpCall, dpBegun, measured, consented, dpUpset>>

Queue(c) ==
    /\ cand[c].status \in {"DRAFT", "QUEUED"}
    /\ SetCandidate(c, "QUEUED")
    /\ UNCHANGED <<prod, active, exper, dep, dpCall, dpBegun, dpHistory, dpUpset>>

RejectCandidate(c) ==
    /\ cand[c].status # "none"
    /\ SetCandidate(c, "REJECTED")
    /\ UNCHANGED <<prod, active, exper, dep, dpCall, dpBegun, dpHistory, dpUpset>>
-----------------------------------------------------------------------------
(* Experiments.  Neither the end nor the evaluation of one looks at what    *)
(* has become of the candidate.                                             *)

\* start(), with the baseline version of the lineage where there is none active.
StartExperiment(c) ==
    /\ cand[c].status \in Open
    /\ \A e \in ExpsOf(c) : exper[e].status # "RUNNING"
    /\ Cardinality(ExpRows) < MaxExperiments
    /\ exper' = [exper EXCEPT ![Cardinality(ExpRows) + 1] =
                    [status |-> "RUNNING", cand |-> c, verdict |-> "none", trials |-> FALSE]]
    /\ active' = IF active = {} THEN {prod} ELSE active
    /\ SetCandidate(c, "TESTING")
    /\ UNCHANGED <<prod, dep, dpCall, dpBegun, dpHistory, dpUpset>>

RunTrials(e) ==
    /\ exper[e].status = "RUNNING"
    /\ exper' = [exper EXCEPT ![e].trials = TRUE]
    /\ measured' = measured \union {<<exper[e].cand, cand[exper[e].cand].change>>}
    /\ UNCHANGED <<prod, active, cand, dep, dpCall, dpBegun, consented, proposed, dpUpset>>

\* Without trials there is only INSUFFICIENT_DATA; a verdict once reached is
\* reached again, the benchmarks being the same.
Evaluate(e) ==
    LET c == exper[e].cand
        Conclude(verdict, status) ==
            /\ exper[e].verdict \in {"none", "INSUFFICIENT", verdict}
            /\ exper' = [exper EXCEPT ![e].status = "CONCLUDED", ![e].verdict = verdict]
            /\ SetCandidate(c, status)
    IN  /\ e \in ExpRows
        /\ \/ /\ exper[e].verdict \in {"none", "INSUFFICIENT"}
              /\ exper' = [exper EXCEPT ![e].verdict = "INSUFFICIENT"]
              /\ UNCHANGED cand
           \/ /\ exper[e].trials
              /\ Conclude("BETTER", "VALIDATED") \/ Conclude("WORSE", "REJECTED") \/ Conclude("TIE", "QUEUED")
        /\ UNCHANGED <<prod, active, dep, dpCall, dpBegun, dpHistory, dpUpset>>

Abandon(e) ==
    /\ e \in ExpRows
    /\ exper' = [exper EXCEPT ![e].status = "ABANDONED"]
    /\ SetCandidate(exper[e].cand, "QUEUED")
    /\ UNCHANGED <<prod, active, dep, dpCall, dpBegun, dpHistory, dpUpset>>
-----------------------------------------------------------------------------
(* Approval                                                                 *)

Concluded(c) == {e \in ExpsOf(c) : exper[e].verdict # "none"}
AddRow(r) ==
    /\ Cardinality(DepRows) < MaxRows
    /\ dep' = [dep EXCEPT ![Cardinality(DepRows) + 1] = r]

\* approve(): the approval is a PENDING row of the candidate.
Approve(c) ==
    /\ cand[c].status # "none"
    /\ \A e \in Concluded(c) : exper[e].verdict # "WORSE"
    /\ cand[c].status = "VALIDATED" \/ Concluded(c) # {}
    /\ AddRow([NoDep EXCEPT !.status = "PENDING", !.cand = c, !.applied = cand[c].change, !.approved = TRUE])
    /\ consented' = consented \union {<<c, cand[c].change>>}
    /\ UNCHANGED <<prod, active, cand, exper, dpCall, dpBegun, measured, proposed, dpUpset>>
-----------------------------------------------------------------------------
(* deploy()                                                                 *)

\* A call begins; it is noted when another is under way.
DpBegin(k, r) ==
    /\ dpBegun = k - 1
    /\ dpBegun' = dpBegun + 1
    /\ dpUpset' = IF \E j \in DpCalls : ~DpAt(j, "idle") THEN dpUpset \union {"overlap"} ELSE dpUpset
    /\ DpSet(k, r)

\* With force, the candidate need not be VALIDATED.
DeployBegin(k) ==
    /\ \E c \in Candidates :
          /\ cand[c].status \notin {"none", "DEPLOYED"}
          /\ DpBegin(k, [Idle EXCEPT !.pc = "before", !.op = "deploy", !.cand = c, !.change = cand[c].change])
    /\ UNCHANGED <<prod, active, cand, exper, dep, dpHistory>>

\* What is in production now.
Before(k) == prod

DeployBefore(k) ==
    /\ DpAt(k, "before")
    /\ DpSet(k, [dpCall[k] EXCEPT !.pc = "approval", !.before = Before(k)])
    /\ UNCHANGED <<prod, active, cand, exper, dep, dpBegun, dpHistory, dpUpset>>

\* findApproval(): the newest PENDING row of the candidate, 0 for none.  Nothing
\* consumes it, and a deployment that died leaves such a row as well.
FindApproval(k) ==
    /\ DpAt(k, "approval")
    /\ LET pending == {d \in DepRows : dep[d].cand = dpCall[k].cand /\ dep[d].status = "PENDING"} IN
       DpSet(k, [dpCall[k] EXCEPT !.pc = "review",
                     !.approval = IF pending = {} THEN 0
                                  ELSE CHOOSE d \in pending : \A o \in pending : o <= d])
    /\ UNCHANGED <<prod, active, cand, exper, dep, dpBegun, dpHistory, dpUpset>>

ApprovedByPerson(k) == dpCall[k].approval # 0 /\ dep[dpCall[k].approval].approved

\* The verdict of the newest experiment that has one.
NewestVerdict(c) ==
    IF Concluded(c) = {} THEN "none"
    ELSE exper[CHOOSE e \in Concluded(c) : \A o \in Concluded(c) : o <= e].verdict

\* (mutant) consent is asked for when the measurement did not decide
HumanConsentIfUnsure(k) == NewestVerdict(dpCall[k].cand) = "BETTER" \/ ApprovedByPerson(k)
\* HUMAN_CONSENT
HumanConsent(k) == dpCall[k].cand \in NeedsConsent => ApprovedByPerson(k)
\* EVIDENCE_REQUIRED, of a candidate with some confidence
Evidence(k) ==
    LET verdict == NewestVerdict(dpCall[k].cand) IN
    verdict # "WORSE" /\ (verdict \in {"INSUFFICIENT", "TIE"} => ApprovedByPerson(k))

\* (mutant) the write goes first, the record afterwards
StepAfterReviewWrites == "write"
StepAfterReview == "record"

\* weakestArmTrials() reaches the policy's minimum, which is positive: every
\* experiment of the candidate has run trials.
EnoughTrials(c) == ExpsOf(c) # {} /\ \A e \in ExpsOf(c) : exper[e].trials

\* Policy and Constitution.  The rules on the clock, the kind and the daily cap
\* hold or not.
Review(k) ==
    /\ DpAt(k, "review")
    /\ \/ /\ EnoughTrials(dpCall[k].cand) /\ HumanConsent(k) /\ Evidence(k)
          /\ DpGo(k, StepAfterReview)
          /\ UNCHANGED dep
       \/ /\ AddRow([NoDep EXCEPT !.status = "REFUSED", !.cand = dpCall[k].cand,
                                  !.applied = dpCall[k].change, !.rollback = dpCall[k].before])
          /\ DpSet(k, Idle)
    /\ UNCHANGED <<prod, active, cand, exper, dpBegun, dpHistory, dpUpset>>

\* The version is captured, then the deployment recorded, before anything is done.
Record(k) ==
    /\ DpAt(k, "record")
    /\ AddRow([NoDep EXCEPT !.status = "PENDING", !.cand = dpCall[k].cand, !.applied = dpCall[k].change,
                            !.rollback = dpCall[k].before, !.approved = ApprovedByPerson(k),
                            !.versioned = TRUE])
    /\ DpSet(k, [dpCall[k] EXCEPT !.pc = "write", !.row = Cardinality(DepRows) + 1])
    /\ UNCHANGED <<prod, active, cand, exper, dpBegun, dpHistory, dpUpset>>

\* (mutant) the two are mistaken for each other
PayloadSwapped(k) == IF dpCall[k].op = "deploy" THEN dpCall[k].before ELSE dep[dpCall[k].row].applied
\* deploy() writes the change, rollback() the state recorded with the deployment.
Payload(k) == IF dpCall[k].op = "deploy" THEN dpCall[k].change ELSE dep[dpCall[k].row].rollback

WriteProduction(k) ==
    /\ DpAt(k, "write")
    /\ prod' = Payload(k)
    /\ DpGo(k, "deactivate")
    /\ UNCHANGED <<active, cand, exper, dep, dpBegun, dpHistory, dpUpset>>

\* activate(), a transaction: it deactivates the versions its first statement
\* sees active ...
Deactivate(k) ==
    /\ DpAt(k, "deactivate")
    /\ DpSet(k, [dpCall[k] EXCEPT !.pc = "activate", !.seen = active])
    /\ UNCHANGED <<prod, active, cand, exper, dep, dpBegun, dpHistory, dpUpset>>

\* ... and commits with the target active.
Activate(k) ==
    /\ DpAt(k, "activate")
    /\ active' = (active \ dpCall[k].seen) \union {Payload(k)}
    /\ DpGo(k, "status")
    /\ UNCHANGED <<prod, cand, exper, dep, dpBegun, dpHistory, dpUpset>>

RowStatus(k) ==
    /\ DpAt(k, "status")
    /\ dep' = [dep EXCEPT ![dpCall[k].row].status =
                    IF dpCall[k].op = "deploy" THEN "MONITORING" ELSE "ROLLED_BACK"]
    /\ DpGo(k, "candidate")
    /\ UNCHANGED <<prod, active, cand, exper, dpBegun, dpHistory, dpUpset>>

\* The status is written whatever it is; a sweep goes on with its next row.
CandidateStatus(k) ==
    /\ DpAt(k, "candidate")
    /\ SetCandidate(dep[dpCall[k].row].cand, IF dpCall[k].op = "deploy" THEN "DEPLOYED" ELSE "REJECTED")
    /\ IF dpCall[k].op = "sweep" THEN DpGo(k, "sweep") ELSE DpSet(k, Idle)
    /\ UNCHANGED <<prod, active, exper, dep, dpBegun, dpHistory, dpUpset>>

\* A write or the activation fails.  deploy() marks its row FAILED, although the
\* write may have been done; rollback() leaves everything as it stands.
WriteFails(k) ==
    /\ dpCall[k].pc \in {"write", "deactivate", "activate"}
    /\ IF dpCall[k].op = "deploy" THEN dep' = [dep EXCEPT ![dpCall[k].row].status = "FAILED"]
                                  ELSE UNCHANGED dep
    /\ DpSet(k, Idle)
    /\ dpUpset' = dpUpset \union {"failure"}
    /\ UNCHANGED <<prod, active, cand, exper, dpBegun, dpHistory>>

\* The process dies, or any other statement fails.
DpDies(k) ==
    /\ ~DpAt(k, "idle")
    /\ DpSet(k, Idle)
    /\ dpUpset' = dpUpset \union {"failure"}
    /\ UNCHANGED <<prod, active, cand, exper, dep, dpBegun, dpHistory>>
-----------------------------------------------------------------------------
(* rollback(), observe() and sweep()                                        *)

Effective(d) == dep[d].status \in {"MONITORING", "DEPLOYED", "SETTLED"}

RollbackBegin(k) ==
    /\ \E d \in DepRows : DpBegin(k, [Idle EXCEPT !.pc = "rollback", !.op = "rollback", !.row = d])
    /\ UNCHANGED <<prod, active, cand, exper, dep, dpHistory>>

\* A later deployment may still be in effect: nothing asks.
RollbackRead(k) ==
    /\ DpAt(k, "rollback")
    /\ LET d == dpCall[k].row IN
       \/ /\ Effective(d)
          /\ DpGo(k, "write")
          /\ dpUpset' = IF \E e \in DepRows : e > d /\ Effective(e) THEN dpUpset \union {"order"} ELSE dpUpset
       \/ ~Effective(d) /\ DpSet(k, Idle) /\ UNCHANGED dpUpset
    /\ UNCHANGED <<prod, active, cand, exper, dep, dpBegun, dpHistory>>

\* The threshold is one half.
Failing(trials, failures) == trials >= MinTrials /\ 2 * failures >= trials

ObserveBegin(k) ==
    /\ \E d \in DepRows, failed \in {0, 1} :
          /\ dep[d].status = "MONITORING" /\ dep[d].trials < MaxTrials
          /\ DpBegin(k, [Idle EXCEPT !.pc = "observe", !.op = "observe", !.row = d,
                             !.trials = dep[d].trials + 1, !.failures = dep[d].failures + failed])
    /\ UNCHANGED <<prod, active, cand, exper, dep, dpHistory>>

Judged(k) == Failing(dpCall[k].trials, dpCall[k].failures)

\* The counts are written as they were computed when the row was read.
ObserveWrite(k) ==
    /\ DpAt(k, "observe")
    /\ dep' = [dep EXCEPT ![dpCall[k].row].trials = dpCall[k].trials,
                          ![dpCall[k].row].failures = dpCall[k].failures]
    /\ IF Judged(k) THEN DpGo(k, "rollback") ELSE DpSet(k, Idle)
    /\ UNCHANGED <<prod, active, cand, exper, dpBegun, dpHistory, dpUpset>>

\* The rows whose window has closed, with the counts they have now.
SweepBegin(k) ==
    /\ \E S \in SUBSET {d \in DepRows : dep[d].status = "MONITORING"} :
          /\ S # {}
          /\ DpBegin(k, [Idle EXCEPT !.pc = "sweep", !.op = "sweep", !.held = S,
                             !.failing = {d \in S : Failing(dep[d].trials, dep[d].failures)}])
    /\ UNCHANGED <<prod, active, cand, exper, dep, dpHistory>>

\* One row of the list: rolled back, or SETTLED whatever its status is by now.
SweepRow(k) ==
    /\ DpAt(k, "sweep")
    /\ \/ \E d \in dpCall[k].held :
             LET r == [dpCall[k] EXCEPT !.held = @ \ {d}, !.row = d] IN
             \/ d \in dpCall[k].failing /\ DpSet(k, [r EXCEPT !.pc = "rollback"]) /\ UNCHANGED dep
             \/ d \notin dpCall[k].failing /\ DpSet(k, r) /\ dep' = [dep EXCEPT ![d].status = "SETTLED"]
       \/ dpCall[k].held = {} /\ DpSet(k, Idle) /\ UNCHANGED dep
    /\ UNCHANGED <<prod, active, cand, exper, dpBegun, dpHistory, dpUpset>>
-----------------------------------------------------------------------------
DpStep(k) ==
    \/ DeployBegin(k) \/ DeployBefore(k) \/ FindApproval(k) \/ Review(k) \/ Record(k)
    \/ WriteProduction(k) \/ Deactivate(k) \/ Activate(k) \/ RowStatus(k) \/ CandidateStatus(k)
    \/ WriteFails(k) \/ DpDies(k)
    \/ RollbackBegin(k) \/ RollbackRead(k) \/ ObserveBegin(k) \/ ObserveWrite(k)
    \/ SweepBegin(k) \/ SweepRow(k)

DpNext ==
    \/ \E x \in Changes : Propose(x)
    \/ \E c \in Candidates : Queue(c) \/ RejectCandidate(c) \/ StartExperiment(c) \/ Approve(c)
    \/ \E e \in Exps : RunTrials(e) \/ Evaluate(e) \/ Abandon(e)
    \/ \E k \in DpCalls : DpStep(k)

DpSpec == DpInit /\ [][DpNext]_dpVars
-----------------------------------------------------------------------------
(* Properties.                                                              *)

DepStatus == {"none", "PENDING", "MONITORING", "FAILED", "REFUSED", "ROLLED_BACK", "SETTLED"}

\* Rows hold values of their columns.
DpTypeOK ==
    /\ prod \in Changes \union {Original} /\ active \subseteq Changes \union {Original}
    /\ cand \in [Candidates -> [status : Open \union {"none", "DEPLOYED", "REJECTED"},
                                change : Changes \union {Original}]]
    /\ \A d \in Rows : dep[d].status \in DepStatus /\ dep[d].failures <= dep[d].trials

\* What production runs is on record as written or as restored by a deployment,
\* wherever a call died: deploy() records before it acts (law AUDITABILITY).
EveryChangeRecorded ==
    prod # Original => \E d \in DepRows : dep[d].versioned /\ prod \in {dep[d].applied, dep[d].rollback}

\* A change that needs a person was approved by one, whatever approvals, dead
\* deployments and experiments lie behind it, unless the candidate was proposed
\* again with another change (law HUMAN_CONSENT).
Reproposed == {c \in Candidates : Cardinality({p \in proposed : p[1] = c}) > 1}
ConsentGiven ==
    \A d \in DepRows :
        dep[d].versioned /\ dep[d].cand \in NeedsConsent \ Reproposed
            => <<dep[d].cand, dep[d].applied>> \in consented

\* The deployment rows tell what production and its active version are: the
\* change of the newest one in effect, else what was there at first, where the
\* newest was always undone first.  And one that failed too often is not in
\* effect: it is rolled back with the observation that shows it, and not
\* settled.  Calls did not overlap or fail.
DpQuiet == \A k \in DpCalls : DpAt(k, "idle")
InEffect == {d \in DepRows : Effective(d)}
FailingStays == \E d \in InEffect : Failing(dep[d].trials, dep[d].failures)
RowsTellProduction ==
    DpQuiet =>
        /\ dpUpset = {} =>
              /\ prod = IF InEffect = {} THEN Original
                        ELSE dep[CHOOSE d \in InEffect : \A e \in InEffect : e <= d].applied
              /\ active \subseteq {prod}
        /\ dpUpset \subseteq {"order"} => ~FailingStays

\* What is deployed was measured ("PRISM-X does not deploy unmeasured changes").
MeasuredIsDeployed ==
    \A d \in DepRows : dep[d].versioned => <<dep[d].cand, dep[d].applied>> \in measured
=============================================================================

------------------------------ MODULE Workflow ------------------------------
(***************************************************************************)
(* Workflow runs and the approvals that suspend them (WorkflowEngine and   *)
(* ApprovalService).  A call starts, resumes, retries or cancels a run or  *)
(* decides an approval; the calls that set a run going then drive it step  *)
(* by step themselves, within the request.  Approving resumes the run the  *)
(* approval belongs to, also within the request.  No statement is          *)
(* conditional on the row's status, so calls on one run interleave freely. *)
(*                                                                         *)
(* The steps of the one workflow are a sequence.  What runAdapterStep does *)
(* over its attempts is one action: it succeeds or not, and some of its    *)
(* attempts timed out and go on by themselves (withTimeout cancels         *)
(* nothing).  Branches and loops are not modelled.                         *)
(***************************************************************************)
EXTENDS Naturals, FiniteSets

CONSTANTS
    WfLength,       \* the steps are 1 .. WfLength
    Kind,           \* Kind[s]: what step s is
    OnError,        \* OnError[s]: its failure policy
    Conditional,    \* the steps that carry a condition
    Children,       \* the children of a parallel step, with their kinds
    WfRetries,      \* step.retries
    WfMaxRetries,   \* workflow.maxRetries
    MaxConcurrent,  \* workflow.maxConcurrentRuns
    MaxWfRuns,      \* bound: run rows, numbered as they are created
    Keys, NoKey,    \* idempotency keys; a start without one
    MaxApprovals,   \* bound: approval requests created
    MaxWfCalls,     \* bound: API calls, numbered as they begin
    WfOps           \* what they ask for

WfSteps   == 1 .. WfLength
Approvals == 1 .. MaxApprovals
WfRuns    == 1 .. MaxWfRuns
WfCalls   == 1 .. MaxWfCalls
RunOps    == {"resume", "retry", "cancelRun"}
Decisions == {"approve", "reject", "requestChanges", "delegate", "cancelApproval"}

ASSUME WorkflowAssumption ==
    /\ WfLength \in Nat /\ MaxApprovals \in Nat /\ MaxWfRuns \in Nat \ {0} /\ MaxWfCalls \in Nat
    /\ Kind \in [WfSteps -> {"adapter", "approval", "delay", "decision", "parallel"}]
    /\ OnError \in [WfSteps -> {"fail", "continue", "fallback"}]
    /\ Conditional \subseteq WfSteps
    /\ Children \subseteq {"adapter", "approval"}
    /\ WfRetries \in Nat /\ WfMaxRetries \in Nat /\ MaxConcurrent \in Nat
    /\ NoKey \notin Keys
    /\ WfOps \subseteq {"start", "expireStale"} \union RunOps \union Decisions

VARIABLES
    wfRun,       \* the run rows
    approval,    \* the approval rows, in the order of their creation
    deadLetter,  \* the runs with a dead-letter row
    wfCall,      \* where each call is and what it has read
    effects,     \* history: effects[w][s], executions of step s begun for run w
    asked,       \* history: approvals requested for a step in the current attempt
    granted,     \* history: <<w, s>>: some approval of step s was APPROVED
    overlapped,  \* history: the runs that two calls ever set going at once
    tooEarly     \* history: runs that approve() found not suspended yet

wfVars == <<wfRun, approval, deadLetter, wfCall, effects, asked, granted, overlapped, tooEarly>>
wfHistory == <<effects, asked, granted, overlapped, tooEarly>>

NoRow == [status |-> "none", attempts |-> 1, done |-> {}, awaiting |-> 0, current |-> 0,
          key |-> NoKey]
NoApproval == [status |-> "none", run |-> CHOOSE w \in WfRuns : TRUE, step |-> 0]

WfInit ==
    /\ wfRun = [w \in WfRuns |-> NoRow]
    /\ approval = [a \in Approvals |-> NoApproval]
    /\ deadLetter = {}
    /\ wfCall = [c \in WfCalls |-> [pc |-> "idle", op |-> "none", run |-> CHOOSE w \in WfRuns : TRUE,
                                    appr |-> 0, done |-> {}, step |-> 0, key |-> NoKey,
                                    attempts |-> 0, held |-> {}]]
    /\ effects = [w \in WfRuns |-> [s \in WfSteps |-> 0]]
    /\ asked = [w \in WfRuns |-> [s \in WfSteps |-> 0]]
    /\ granted = {}
    /\ overlapped = {}
    /\ tooEarly = {}

At(c, step)      == wfCall[c].pc = step
Become(c, r)     == wfCall' = [wfCall EXCEPT ![c] = r]
GoOn(c, step)    == Become(c, [wfCall[c] EXCEPT !.pc = step])
RunOf(c)         == wfRun[wfCall[c].run]
WriteRun(c, row) == wfRun' = [wfRun EXCEPT ![wfCall[c].run] = row]
Exists(w)        == wfRun[w].status # "none"
Raised           == {a \in Approvals : approval[a].status # "none"}

\* Where a call is while it executes the steps of its run.
Driving == {"step", "failed", "children", "joined", "suspend", "finish", "failRead", "failWrite"}
DrivenBy(c, w) == wfCall[c].run = w /\ wfCall[c].pc \in Driving
\* A call begins to drive run w while another drives it or is about to, having
\* read the row.
Engaged(c, w) == wfCall[c].run = w /\ wfCall[c].pc \in Driving \union {"check", "resume", "retryWrite"}
NoteDriver(c, w) ==
    overlapped' = IF \E d \in WfCalls \ {c} : Engaged(d, w) THEN overlapped \union {w}
                                                            ELSE overlapped
-----------------------------------------------------------------------------
(* start()                                                                  *)

WfCallBegin(c) ==
    /\ At(c, "idle") /\ \A d \in 1 .. c - 1 : ~At(d, "idle")
    /\ \/ /\ "start" \in WfOps
          /\ \E k \in Keys \union {NoKey} :
                Become(c, [wfCall[c] EXCEPT !.op = "start", !.key = k,
                              !.pc = IF k = NoKey THEN "count" ELSE "lookup"])
       \/ \E o \in WfOps \intersect RunOps, w \in WfRuns :
             /\ Exists(w)
             /\ Become(c, [wfCall[c] EXCEPT !.op = o, !.run = w, !.pc = "readRun"])
       \/ \E o \in WfOps \intersect Decisions, a \in Raised :
             Become(c, [wfCall[c] EXCEPT !.op = o, !.appr = a, !.pc = "readApproval"])
       \/ /\ "expireStale" \in WfOps
          /\ Become(c, [wfCall[c] EXCEPT !.op = "expireStale", !.pc = "findExpired"])
    /\ UNCHANGED <<wfRun, approval, deadLetter, wfHistory>>

\* Duplicate detection: a run with the key is returned as it is.
StartLookup(c) ==
    /\ At(c, "lookup")
    /\ GoOn(c, IF \E w \in WfRuns : Exists(w) /\ wfRun[w].key = wfCall[c].key
               THEN "done" ELSE "count")
    /\ UNCHANGED <<wfRun, approval, deadLetter, wfHistory>>

\* countActive: a run that waits for an approval is not counted.
ActiveRuns == {w \in WfRuns : wfRun[w].status \in {"RUNNING", "SLEEPING"}}
StartCount(c) ==
    /\ At(c, "count")
    /\ GoOn(c, IF Cardinality(ActiveRuns) < MaxConcurrent THEN "create" ELSE "thrown")
    /\ UNCHANGED <<wfRun, approval, deadLetter, wfHistory>>

\* @@unique([organizationId, idempotencyKey]) lets one of two creates through.
KeyFree(k) == k = NoKey \/ ~\E w \in WfRuns : Exists(w) /\ wfRun[w].key = k

StartCreate(c) ==
    /\ At(c, "create")
    /\ \/ /\ KeyFree(wfCall[c].key)
          /\ \E w \in WfRuns :
                /\ ~Exists(w) /\ \A v \in 1 .. w - 1 : Exists(v)
                /\ wfRun' = [wfRun EXCEPT ![w] = [NoRow EXCEPT !.status = "RUNNING", !.key = wfCall[c].key]]
                /\ Become(c, [wfCall[c] EXCEPT !.pc = "step", !.run = w])
                /\ NoteDriver(c, w)
       \/ /\ ~KeyFree(wfCall[c].key)
          /\ GoOn(c, "thrown")
          /\ UNCHANGED <<wfRun, overlapped>>
    /\ UNCHANGED <<approval, deadLetter, effects, asked, granted, tooEarly>>
-----------------------------------------------------------------------------
(* resume(), called by the API and by approve()                             *)

ResumeRead(c) ==
    /\ At(c, "readRun") /\ wfCall[c].op \in {"resume", "approve"}
    /\ \/ /\ RunOf(c).status \in {"AWAITING_APPROVAL", "SLEEPING"}
          /\ Become(c, [wfCall[c] EXCEPT
                !.pc = IF RunOf(c).awaiting # 0 THEN "check" ELSE "resume",
                !.appr = RunOf(c).awaiting, !.done = RunOf(c).done, !.step = RunOf(c).current])
          /\ UNCHANGED tooEarly
       \/ /\ RunOf(c).status \notin {"AWAITING_APPROVAL", "SLEEPING"}
          /\ GoOn(c, "thrown")
          /\ tooEarly' = IF wfCall[c].op = "approve" THEN tooEarly \union {wfCall[c].run} ELSE tooEarly
    /\ UNCHANGED <<wfRun, approval, deadLetter, effects, asked, granted, overlapped>>

\* (mutant) only a refusal keeps the run suspended
LetsResumeUnlessRefused(a) == approval[a].status \notin {"REJECTED", "CHANGES_REQUESTED"}
LetsResume(a) == approval[a].status = "APPROVED"

ResumeCheck(c) ==
    /\ At(c, "check")
    /\ GoOn(c, IF LetsResume(wfCall[c].appr) THEN "resume" ELSE "thrown")
    /\ UNCHANGED <<wfRun, approval, deadLetter, wfHistory>>

\* (mutant) the step that suspended the run is not settled
SettledNot(done, step) == done
\* The context with the outcome of the step that suspended the run.
SettledBy(done, step) == done \union ({step} \ {0})

ResumeWrite(c) ==
    /\ At(c, "resume")
    /\ LET done == SettledBy(wfCall[c].done, wfCall[c].step) IN
       /\ WriteRun(c, [RunOf(c) EXCEPT !.status = "RUNNING", !.awaiting = 0, !.current = 0, !.done = done])
       /\ Become(c, [wfCall[c] EXCEPT !.pc = "step", !.done = done])
    /\ NoteDriver(c, wfCall[c].run)
    /\ UNCHANGED <<approval, deadLetter, effects, asked, granted, tooEarly>>
-----------------------------------------------------------------------------
(* drive() and runSequence(): the first step the context does not record.   *)

Left(c)  == WfSteps \ wfCall[c].done
FirstOf(S) == CHOOSE s \in S : \A u \in S : s <= u
NextOf(c) == FirstOf(Left(c))
Is(c, kind) == At(c, "step") /\ Left(c) # {} /\ Kind[NextOf(c)] = kind
Recorded(c, s) == Become(c, [wfCall[c] EXCEPT !.pc = "step", !.done = @ \union {s}])

\* The step's condition does not hold.
SkipStep(c) ==
    /\ At(c, "step") /\ Left(c) # {} /\ NextOf(c) \in Conditional
    /\ Recorded(c, NextOf(c))
    /\ UNCHANGED <<wfRun, approval, deadLetter, wfHistory>>

\* Executions begun by a step that succeeds (ok) or fails: of the attempts before
\* the last, those that timed out go on; an attempt that failed has no effect.
Begun(w, s, n) == effects' = [effects EXCEPT ![w][s] = @ + n]
AdapterStep(c) ==
    /\ Is(c, "adapter")
    /\ LET s == NextOf(c) IN
       \/ \E late \in 0 .. WfRetries : Begun(wfCall[c].run, s, late + 1) /\ Recorded(c, s)
       \/ \E late \in 0 .. WfRetries + 1 : Begun(wfCall[c].run, s, late) /\ GoOn(c, "failed")
    /\ UNCHANGED <<wfRun, approval, deadLetter, asked, granted, overlapped, tooEarly>>

\* A delay of up to five seconds is awaited; a longer one suspends the run.
DelayStep(c) ==
    /\ Is(c, "delay")
    /\ \/ Recorded(c, NextOf(c))
       \/ Become(c, [wfCall[c] EXCEPT !.pc = "suspend", !.appr = 0, !.step = NextOf(c)])
    /\ UNCHANGED <<wfRun, approval, deadLetter, wfHistory>>

\* ApprovalService.request
Request(w, s) ==
    /\ Cardinality(Raised) < MaxApprovals
    /\ approval' = [approval EXCEPT ![Cardinality(Raised) + 1] =
                        [status |-> "PENDING", run |-> w, step |-> s]]
    /\ asked' = [asked EXCEPT ![w][s] = @ + 1]

Ask(c) ==
    /\ Request(wfCall[c].run, NextOf(c))
    /\ Become(c, [wfCall[c] EXCEPT !.pc = "suspend", !.step = NextOf(c),
                                   !.appr = Cardinality(Raised) + 1])
    /\ UNCHANGED <<wfRun, deadLetter, effects, granted, overlapped, tooEarly>>

ApprovalStep(c) == Is(c, "approval") /\ Ask(c)

\* decide(): the worker answers, fails, or is not sure and a human is asked.
DecisionStep(c) ==
    /\ Is(c, "decision")
    /\ \/ Ask(c)
       \/ /\ Recorded(c, NextOf(c)) \/ GoOn(c, "failed")
          /\ UNCHANGED <<wfRun, approval, deadLetter, wfHistory>>

\* A parallel step: its children are run together; one that asks for an approval
\* suspends nothing and counts as failed.
ParallelStep(c) ==
    /\ Is(c, "parallel")
    /\ Become(c, [wfCall[c] EXCEPT !.pc = "children", !.held = Children])
    /\ UNCHANGED <<wfRun, approval, deadLetter, wfHistory>>

ChildStep(c) ==
    /\ At(c, "children")
    /\ LET s == NextOf(c)
           Over(k, fails) == Become(c, [wfCall[c] EXCEPT !.held = @ \ {k},
                                           !.step = IF fails THEN s ELSE @])
       IN  \/ /\ "adapter" \in wfCall[c].held
              /\ \/ \E late \in 0 .. WfRetries : Begun(wfCall[c].run, s, late + 1) /\ Over("adapter", FALSE)
                 \/ \E late \in 0 .. WfRetries + 1 : Begun(wfCall[c].run, s, late) /\ Over("adapter", TRUE)
              /\ UNCHANGED <<approval, asked>>
           \/ /\ "approval" \in wfCall[c].held
              /\ Request(wfCall[c].run, s) /\ Over("approval", TRUE)
              /\ UNCHANGED effects
    /\ UNCHANGED <<wfRun, deadLetter, granted, overlapped, tooEarly>>

ParallelJoin(c) ==
    /\ At(c, "children") /\ wfCall[c].held = {}
    /\ LET s == NextOf(c) IN
       \/ (wfCall[c].step # s \/ OnError[s] = "continue") /\ Recorded(c, s)
       \/ wfCall[c].step = s /\ OnError[s] # "continue" /\ GoOn(c, "failed")
    /\ UNCHANGED <<wfRun, approval, deadLetter, wfHistory>>

\* What a failed step means for the run.
StepFailed(c) ==
    /\ At(c, "failed")
    /\ LET s == NextOf(c) IN
       \/ OnError[s] # "fail" /\ Recorded(c, s)   \* continue, or the fallback succeeds
       \/ OnError[s] # "continue" /\ GoOn(c, "failRead")
    /\ UNCHANGED <<wfRun, approval, deadLetter, wfHistory>>

\* An exception leaves runSequence whatever the step's policy.
StepThrows(c) ==
    /\ At(c, "step") /\ Left(c) # {}
    /\ GoOn(c, "failRead")
    /\ UNCHANGED <<wfRun, approval, deadLetter, wfHistory>>

\* (mutant) only an approval changes the status of the run it suspends
SuspendedIfAsked(a) == IF a # 0 THEN "AWAITING_APPROVAL" ELSE "RUNNING"
SuspendedStatus(a) == IF a # 0 THEN "AWAITING_APPROVAL" ELSE "SLEEPING"

Saved(c) == wfCall[c].done

Suspend(c) ==
    /\ At(c, "suspend")
    /\ WriteRun(c, [RunOf(c) EXCEPT !.status = SuspendedStatus(wfCall[c].appr), !.done = Saved(c),
                                    !.awaiting = wfCall[c].appr, !.current = wfCall[c].step])
    /\ GoOn(c, "done")
    /\ UNCHANGED <<approval, deadLetter, wfHistory>>

Finish(c) ==
    /\ At(c, "step") /\ Left(c) = {}
    /\ WriteRun(c, [RunOf(c) EXCEPT !.status = "SUCCEEDED", !.done = wfCall[c].done])
    /\ GoOn(c, "done")
    /\ UNCHANGED <<approval, deadLetter, wfHistory>>

(* failRun()                                                                *)
FailRead(c) ==
    /\ At(c, "failRead")
    /\ Become(c, [wfCall[c] EXCEPT !.pc = "failWrite", !.attempts = RunOf(c).attempts])
    /\ UNCHANGED <<wfRun, approval, deadLetter, wfHistory>>

Exhausted(n) == n >= WfMaxRetries + 1
FailWrite(c) ==
    /\ At(c, "failWrite")
    /\ LET over == Exhausted(wfCall[c].attempts) IN
       /\ WriteRun(c, [RunOf(c) EXCEPT !.status = IF over THEN "DEAD_LETTERED" ELSE "FAILED",
                                       !.done = wfCall[c].done])
       /\ GoOn(c, IF over THEN "bury" ELSE "done")
    /\ UNCHANGED <<approval, deadLetter, wfHistory>>

Bury(c) ==
    /\ At(c, "bury")
    /\ deadLetter' = deadLetter \union {wfCall[c].run}
    /\ GoOn(c, "done")
    /\ UNCHANGED <<wfRun, approval, wfHistory>>
-----------------------------------------------------------------------------
(* retry() and cancel()                                                     *)

MayRetry(w) == wfRun[w].status \in {"FAILED", "DEAD_LETTERED"} /\ ~Exhausted(wfRun[w].attempts)

RunRetryRead(c) ==
    /\ At(c, "readRun") /\ wfCall[c].op = "retry"
    /\ \/ /\ MayRetry(wfCall[c].run)
          /\ Become(c, [wfCall[c] EXCEPT !.pc = "retryWrite", !.attempts = RunOf(c).attempts])
       \/ ~MayRetry(wfCall[c].run) /\ GoOn(c, "thrown")
    /\ UNCHANGED <<wfRun, approval, deadLetter, wfHistory>>

\* From the beginning again: an empty context.
RunRetryWrite(c) ==
    /\ At(c, "retryWrite")
    /\ WriteRun(c, [RunOf(c) EXCEPT !.status = "RUNNING", !.attempts = wfCall[c].attempts + 1, !.done = {}])
    /\ Become(c, [wfCall[c] EXCEPT !.pc = "step", !.done = {}])
    /\ NoteDriver(c, wfCall[c].run)
    /\ UNCHANGED <<approval, deadLetter, effects, asked, granted, tooEarly>>

RunCancelRead(c) ==
    /\ At(c, "readRun") /\ wfCall[c].op = "cancelRun"
    /\ GoOn(c, IF RunOf(c).status \in {"SUCCEEDED", "FAILED", "CANCELLED"} THEN "thrown" ELSE "cancelWrite")
    /\ UNCHANGED <<wfRun, approval, deadLetter, wfHistory>>

RunCancelWrite(c) ==
    /\ At(c, "cancelWrite")
    /\ WriteRun(c, [RunOf(c) EXCEPT !.status = "CANCELLED"])
    /\ GoOn(c, "done")
    /\ UNCHANGED <<approval, deadLetter, wfHistory>>
-----------------------------------------------------------------------------
(* Deciding an approval                                                     *)

AssertPending(c) ==
    /\ At(c, "readApproval")
    /\ GoOn(c, IF approval[wfCall[c].appr].status = "PENDING" THEN "decide" ELSE "thrown")
    /\ UNCHANGED <<wfRun, approval, deadLetter, wfHistory>>

DecisionStatus ==
    [o \in Decisions |-> CASE o = "approve" -> "APPROVED" [] o = "reject" -> "REJECTED"
        [] o = "requestChanges" -> "CHANGES_REQUESTED" [] o = "delegate" -> "PENDING"
        [] OTHER -> "CANCELLED"]

\* (mutant) an approved run waits for somebody to resume it
AfterApprovalNothing == "done"
\* tryResume()
AfterApproval == "readRun"

\* approve() goes on to resume the run; a failure of that is only logged.
Decide(c) ==
    /\ At(c, "decide")
    /\ LET a == wfCall[c].appr
           w == approval[a].run
       IN /\ approval' = [approval EXCEPT ![a].status = DecisionStatus[wfCall[c].op]]
          /\ \/ /\ wfCall[c].op = "approve"
                /\ granted' = granted \union {<<w, approval[a].step>>}
                /\ Become(c, [wfCall[c] EXCEPT !.pc = AfterApproval, !.run = w])
             \/ /\ wfCall[c].op # "approve"
                /\ GoOn(c, "done") /\ UNCHANGED granted
    /\ UNCHANGED <<wfRun, deadLetter, effects, asked, overlapped, tooEarly>>

\* expireStale(): some of the pending requests are past their time.
FindExpired(c) ==
    /\ At(c, "findExpired")
    /\ \E S \in SUBSET {a \in Approvals : approval[a].status = "PENDING"} :
          Become(c, [wfCall[c] EXCEPT !.pc = "expire", !.held = S])
    /\ UNCHANGED <<wfRun, approval, deadLetter, wfHistory>>

ExpireOne(c) ==
    /\ At(c, "expire")
    /\ \/ \E a \in wfCall[c].held :
             /\ approval' = [approval EXCEPT ![a].status = "EXPIRED"]
             /\ Become(c, [wfCall[c] EXCEPT !.held = @ \ {a}])
       \/ wfCall[c].held = {} /\ GoOn(c, "done") /\ UNCHANGED approval
    /\ UNCHANGED <<wfRun, deadLetter, wfHistory>>
-----------------------------------------------------------------------------
DriveStep(c) ==
    \/ SkipStep(c) \/ AdapterStep(c) \/ DelayStep(c) \/ ApprovalStep(c) \/ DecisionStep(c)
    \/ ParallelStep(c) \/ ChildStep(c) \/ ParallelJoin(c) \/ StepFailed(c) \/ StepThrows(c)
    \/ Suspend(c) \/ Finish(c) \/ FailRead(c) \/ FailWrite(c) \/ Bury(c)

WfNext ==
    \E c \in WfCalls :
        \/ WfCallBegin(c) \/ StartLookup(c) \/ StartCount(c) \/ StartCreate(c)
        \/ ResumeRead(c) \/ ResumeCheck(c) \/ ResumeWrite(c) \/ DriveStep(c)
        \/ RunRetryRead(c) \/ RunRetryWrite(c) \/ RunCancelRead(c) \/ RunCancelWrite(c)
        \/ AssertPending(c) \/ Decide(c) \/ FindExpired(c) \/ ExpireOne(c)

WfSpec == WfInit /\ [][WfNext]_wfVars
-----------------------------------------------------------------------------
(* Properties.                                                              *)

RunStatus == {"none", "RUNNING", "AWAITING_APPROVAL", "SLEEPING", "SUCCEEDED", "FAILED",
              "CANCELLED", "DEAD_LETTERED"}
ApprovalStatus == {"none", "PENDING", "APPROVED", "REJECTED", "CHANGES_REQUESTED", "EXPIRED",
                   "CANCELLED"}
RunRow == [status : RunStatus, attempts : Nat, done : SUBSET WfSteps,
           awaiting : Approvals \union {0}, current : WfSteps \union {0}, key : Keys \union {NoKey}]

\* Rows hold values of their columns; a run that waits names the step it waits
\* at, and one that waits for an approval names a request that exists.
WfTypeOK ==
    /\ wfRun \in [WfRuns -> RunRow]
    /\ \A a \in Approvals : approval[a].status \in ApprovalStatus /\ approval[a].run \in WfRuns
    /\ deadLetter \subseteq WfRuns
    /\ \A w \in WfRuns :
          /\ wfRun[w].status = "SLEEPING" => wfRun[w].current # 0
          /\ wfRun[w].awaiting # 0 => approval[wfRun[w].awaiting].status # "none"

\* Nothing behind an approval step runs before a request made for that step was
\* approved, whatever is rejected, expired, delegated, retried or resumed
\* meanwhile (resume() looks at the request the run row names).
ApprovedFirst ==
    \A w \in WfRuns : \A s, a \in WfSteps :
        a < s /\ effects[w][s] > 0 /\ Kind[a] = "approval" /\ a \notin Conditional
            => <<w, a>> \in granted

\* A run that is RUNNING is being driven by some call: no suspension, failure,
\* cancel, retry or lost race leaves it RUNNING with nobody to finish it.
RunningIsDriven ==
    \A w \in WfRuns : wfRun[w].status = "RUNNING" => \E c \in WfCalls : DrivenBy(c, w)

\* Suspending and resuming repeats nothing: unless two calls set the run going
\* at once, a step is begun at most retries + 1 times, and an approval asked for
\* once, in each attempt of the run (the context runSequence skips by).
NothingRepeated ==
    \A w \in WfRuns \ overlapped : \A s \in WfSteps :
        /\ effects[w][s] <= (WfRetries + 1) * wfRun[w].attempts
        /\ asked[w][s] <= wfRun[w].attempts

\* When no call is under way, a run does not wait for an approval that was given:
\* approve() resumes it, unless it decided before the run was suspended (the
\* request exists first, ApprovalService.tryResume only logs) or two calls drove
\* the run at once.
WfQuiet == \A c \in WfCalls : wfCall[c].pc \in {"idle", "done", "thrown"}
ApprovedIsResumed ==
    WfQuiet => \A w \in WfRuns \ (tooEarly \union overlapped) :
        ~(wfRun[w].status = "AWAITING_APPROVAL" /\ approval[wfRun[w].awaiting].status = "APPROVED")
=============================================================================

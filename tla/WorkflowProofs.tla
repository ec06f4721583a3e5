--------------------------- MODULE WorkflowProofs ---------------------------
(***************************************************************************)
(* The workflow engine and its approvals, for any steps, runs, requests    *)
(* and calls: the types; that nothing behind an approval step runs before  *)
(* a request made for it was approved; that a run that is RUNNING is       *)
(* driven by a call; that a run nobody set going twice at once begins no   *)
(* step more often than its attempts allow; and that an approval given     *)
(* resumes the run that waits for it.                                      *)
(*                                                                         *)
(* All five are read off one invariant, WfInv: what each call carries (the *)
(* context it read, the request it raised) against the rows as they are    *)
(* now. Most actions write one row or one call, and the lemmas are named   *)
(* for the part they keep: those about calls that step aside, that drive a *)
(* run, that settle it, and that decide a request. LeastOf supplies the    *)
(* first step that is left.                                                *)
(***************************************************************************)
EXTENDS Workflow, FiniteSetTheorems, WellFoundedInduction, TLAPS

WfPcs == {"idle", "lookup", "count", "create", "readRun", "check", "resume", "step", "failed",
          "children", "suspend", "failRead", "failWrite", "bury", "retryWrite", "cancelWrite",
          "readApproval", "decide", "findExpired", "expire", "done", "thrown"}
WfCallOps == {"none", "start", "expireStale"} \union RunOps \union Decisions
WfCallRow == [pc : WfPcs, op : WfCallOps, run : WfRuns, appr : Approvals \union {0}, done : SUBSET WfSteps,
              step : WfSteps \union {0}, key : Keys \union {NoKey}, attempts : Nat,
              held : SUBSET (Children \union Approvals)]
ApprovalRow == [status : ApprovalStatus, run : WfRuns, step : WfSteps \union {0}]

\* Rows, calls and histories are of their types; the requests are numbered
\* without a gap.
WfTypes ==
    /\ wfRun \in [WfRuns -> RunRow]
    /\ approval \in [Approvals -> ApprovalRow] /\ \E n \in 0 .. MaxApprovals : Raised = 1 .. n
    /\ deadLetter \subseteq WfRuns
    /\ wfCall \in [WfCalls -> WfCallRow]
    /\ effects \in [WfRuns -> [WfSteps -> Nat]] /\ asked \in [WfRuns -> [WfSteps -> Nat]]
    /\ granted \subseteq WfRuns \X (WfSteps \union {0})
    /\ overlapped \subseteq WfRuns /\ tooEarly \subseteq WfRuns

\* Where a call has read the context of its run and goes on with it.
Carrying == Driving \union {"check", "resume"}

\* A call that executes a step, or whose step failed, has one in hand, and it
\* asks for no approval; one that is to suspend the run has a step to wait at.
StepInHand(c) ==
    /\ wfCall[c].pc \in {"failed", "children"} => Left(c) # {} /\ Kind[NextOf(c)] # "approval"
    /\ At(c, "suspend") => wfCall[c].step # 0

\* The request named for a run and a step is the one made for them; where none is
\* named, the step needs none.
Needs(s) == s \in WfSteps /\ Kind[s] = "approval" /\ s \notin Conditional
MadeFor(a, w, s) ==
    IF a = 0 THEN ~Needs(s) ELSE approval[a].run = w /\ approval[a].step = s

\* A call names rows that exist, and the request of the step it suspends or
\* resumes the run at.
NamesExist(c) ==
    /\ wfCall[c].pc \in Carrying \union {"readRun", "retryWrite", "cancelWrite"} => Exists(wfCall[c].run)
    /\ wfCall[c].appr # 0 => approval[wfCall[c].appr].status # "none"
    /\ wfCall[c].pc \in {"readApproval", "decide", "check"} => wfCall[c].appr # 0
    /\ wfCall[c].pc \in {"readApproval", "decide"} => wfCall[c].op \in Decisions
    /\ At(c, "expire") => \A a \in wfCall[c].held : a \in Approvals /\ approval[a].status # "none"
    /\ wfCall[c].pc \in {"suspend", "check"} => MadeFor(wfCall[c].appr, wfCall[c].run, wfCall[c].step)

\* What a context records of approval steps was approved; a call that has not
\* read or created its run has an empty one.
GrantedIn(w, steps) == \A s \in steps : Needs(s) => <<w, s>> \in granted
ContextGranted(c) ==
    /\ wfCall[c].pc \in Carrying => GrantedIn(wfCall[c].run, wfCall[c].done)
    /\ At(c, "resume") => GrantedIn(wfCall[c].run, {wfCall[c].step})
    /\ wfCall[c].pc \in {"idle", "lookup", "count", "create"} => wfCall[c].done = {}

\* What a call has read of its run is still so.
ReadHolds(c) ==
    LET m == wfCall[c]  row == RunOf(c) IN
    /\ m.pc \in {"check", "resume"} => m.done = row.done /\ m.step = row.current
    /\ m.pc = "check" => m.appr = row.awaiting
    /\ m.pc = "retryWrite" => m.attempts = row.attempts

\* A step was begun, and its approval asked for, in earlier attempts only.
Allowed(n) == (WfRetries + 1) * n
Untried(w, s) ==
    /\ effects[w][s] <= Allowed(wfRun[w].attempts - 1)
    /\ asked[w][s] <= wfRun[w].attempts - 1
UntriedOutside(w, steps) == \A s \in WfSteps \ steps : Untried(w, s)

\* The steps that are still to come have not been tried in this attempt.
ToComeUntried(c) ==
    LET m == wfCall[c]  w == wfCall[c].run IN
    /\ m.pc = "step" => UntriedOutside(w, m.done)
    /\ m.pc \in {"suspend", "check", "resume"} => UntriedOutside(w, m.done \union {m.step})
    /\ m.pc \in {"failed", "children"} => UntriedOutside(w, m.done \union {NextOf(c)})
    /\ m.pc = "children" /\ "adapter" \in m.held => effects[w][NextOf(c)] <= Allowed(wfRun[w].attempts - 1)
    /\ m.pc = "children" /\ "approval" \in m.held => asked[w][NextOf(c)] <= wfRun[w].attempts - 1

CallHolds(c) ==
    /\ StepInHand(c) /\ NamesExist(c) /\ ContextGranted(c)
    /\ wfCall[c].run \notin overlapped => ReadHolds(c) /\ ToComeUntried(c)

\* The row of a run: what it waits for, what it records, what was begun for it.
RunNames(w) ==
    /\ wfRun[w].awaiting # 0 => approval[wfRun[w].awaiting].status # "none"
    /\ wfRun[w].status \in {"AWAITING_APPROVAL", "SLEEPING"} => wfRun[w].current # 0
    /\ wfRun[w].status = "AWAITING_APPROVAL" => wfRun[w].awaiting # 0
    /\ MadeFor(wfRun[w].awaiting, w, wfRun[w].current)
RunApproved(w) ==
    /\ GrantedIn(w, wfRun[w].done)
    /\ \A s \in WfSteps, a \in WfSteps :
          a < s /\ effects[w][s] > 0 /\ Kind[a] = "approval" /\ a \notin Conditional => <<w, a>> \in granted
RunBudget(w) ==
    /\ wfRun[w].attempts # 0
    /\ wfRun[w].status = "none" =>
          wfRun[w].attempts = 1 /\ \A s \in WfSteps : effects[w][s] = 0 /\ asked[w][s] = 0
    /\ w \notin overlapped =>
          /\ \A s \in WfSteps : effects[w][s] <= Allowed(wfRun[w].attempts) /\ asked[w][s] <= wfRun[w].attempts
          /\ wfRun[w].status \in {"AWAITING_APPROVAL", "SLEEPING"}
                => UntriedOutside(w, wfRun[w].done \union {wfRun[w].current})
RunHolds(w) == RunNames(w) /\ RunApproved(w) /\ RunBudget(w)

\* An approved request was granted; a request is for a run that exists.
RequestsHold ==
    \A a \in Approvals :
        /\ approval[a].status = "APPROVED" => <<approval[a].run, approval[a].step>> \in granted
        /\ approval[a].status # "none" => Exists(approval[a].run)

\* Unless two calls ever set it going, a run has one driver, nobody else has
\* read it meanwhile, and it is running or cancelled while it is driven.
OneDriver ==
    \A w \in WfRuns \ overlapped : \A c \in WfCalls : DrivenBy(c, w) =>
        /\ wfRun[w].status \in {"RUNNING", "CANCELLED"}
        /\ \A d \in WfCalls \ {c} : ~Engaged(d, w)

\* Who approved the request a run waits for, or is about to wait for, has still
\* to resume it.
Approving(c, w) == At(c, "readRun") /\ wfCall[c].op = "approve" /\ wfCall[c].run = w
Resuming(c, w) ==
    \/ Approving(c, w)
    \/ wfCall[c].run = w /\ wfCall[c].pc \in {"check", "resume"}
Given(a) == approval[a].status = "APPROVED"
SuspendsAt(c, w) == At(c, "suspend") /\ wfCall[c].run = w /\ wfCall[c].appr # 0 /\ Given(wfCall[c].appr)
ResumeComes ==
    \A w \in WfRuns \ (tooEarly \union overlapped) :
        /\ wfRun[w].status = "AWAITING_APPROVAL" /\ Given(wfRun[w].awaiting)
              => \E c \in WfCalls : Resuming(c, w)
        /\ (\E c \in WfCalls : SuspendsAt(c, w)) => \E d \in WfCalls : Approving(d, w)

WfRelations == RunningIsDriven /\ OneDriver /\ ResumeComes
WfInv ==
    /\ WfTypes /\ RequestsHold /\ WfRelations
    /\ \A c \in WfCalls : CallHolds(c)
    /\ \A w \in WfRuns : RunHolds(w)

-----------------------------------------------------------------------------
\* Every set of numbers up to a bound has a least one.
LEMMA LeastOf ==
    ASSUME NEW n \in Nat, NEW T \in SUBSET (0 .. n), T # {}
    PROVE  \E m \in T : \A k \in T : m <= k
<1> DEFINE down == {0 .. k : k \in T}
<1>1. IsFiniteSet(0 .. n)
    BY FS_Interval
<1>2. IsWellFoundedOn(StrictSubsetOrdering(0 .. n), FiniteSubsetsOf(0 .. n))
    BY FS_StrictSubsetOrderingWellFounded
<1>3. down \subseteq FiniteSubsetsOf(0 .. n) /\ down # {}
    <2>1. FiniteSubsetsOf(0 .. n) = SUBSET (0 .. n)
        BY <1>1, FS_FiniteSubsetsOfFinite
    <2>2. \A k \in T : 0 .. k \in SUBSET (0 .. n)
        OBVIOUS
    <2>3. \E k \in T : 0 .. k \in down
        OBVIOUS
    <2> HIDE DEF down
    <2>4. down # {}
        BY <2>3
    <2>5. down \subseteq SUBSET (0 .. n)
        BY <2>2 DEF down
    <2> QED BY <2>1, <2>4, <2>5
<1> HIDE DEF down
<1>4. PICK d \in down : \A e \in down : <<e, d>> \notin StrictSubsetOrdering(0 .. n)
    BY <1>2, <1>3, WFMin
<1>5. PICK m \in T : d = 0 .. m
    BY DEF down
<1>6. ASSUME NEW k \in T, k < m PROVE FALSE
    <2>1. 0 .. k \in down BY DEF down
    <2>2. 0 .. k \subseteq 0 .. m /\ 0 .. k # 0 .. m BY <1>6
    <2>3. 0 .. k \subseteq 0 .. n /\ 0 .. m \subseteq 0 .. n OBVIOUS
    <2> QED BY <1>4, <1>5, <2>1, <2>2, <2>3 DEF StrictSubsetOrdering
<1> QED BY <1>6

\* The step a call is at is the first one its context does not record.
LEMMA NextIsLeast ==
    ASSUME WfTypes, NEW c \in WfCalls, Left(c) # {}
    PROVE  /\ NextOf(c) \in WfSteps /\ NextOf(c) \notin wfCall[c].done
           /\ \A s \in WfSteps : s < NextOf(c) => s \in wfCall[c].done
<1>1. Left(c) \in SUBSET (0 .. WfLength)
    BY DEF Left, WfSteps
<1>2. \E m \in Left(c) : \A k \in Left(c) : m <= k
    BY <1>1, LeastOf, WorkflowAssumption
<1>3. NextOf(c) \in Left(c) /\ \A k \in Left(c) : NextOf(c) <= k
    BY <1>2 DEF NextOf, FirstOf
<1>4. \A s \in WfSteps : s < NextOf(c) => s \notin Left(c)
    BY <1>1, <1>3
<1> QED BY <1>3, <1>4 DEF Left

-----------------------------------------------------------------------------
(* What the steps have in common                                            *)

\* What no step undoes.
WfMonotone ==
    /\ granted \subseteq granted' /\ overlapped \subseteq overlapped'
    /\ \A v \in WfRuns : Exists(v) => Exists(v)'
    /\ \A a \in Approvals : approval[a].status # "none" =>
          approval'[a].status # "none" /\ approval'[a].run = approval[a].run /\ approval'[a].step = approval[a].step

\* Nothing changes of run v that a call may have read, or that it has left.
Untouched(v) ==
    /\ wfRun'[v].done = wfRun[v].done /\ wfRun'[v].current = wfRun[v].current
    /\ wfRun'[v].awaiting = wfRun[v].awaiting /\ wfRun'[v].attempts = wfRun[v].attempts
    /\ effects'[v] = effects[v] /\ asked'[v] = asked[v]

\* The other calls stand where they stood, and their runs are not disturbed.
OthersAside(c) ==
    \A d \in WfCalls \ {c} :
        /\ wfCall'[d] = wfCall[d]
        /\ \/ Untouched(wfCall[d].run)
           \/ wfCall[d].run \in overlapped'
           \/ ~Engaged(d, wfCall[d].run)

\* What a call knows survives the steps of the others.
LEMMA OtherHolds ==
    ASSUME WfTypes, WfMonotone, NEW c \in WfCalls, OthersAside(c),
           NEW d \in WfCalls \ {c}, CallHolds(d)
    PROVE  CallHolds(d)'
<1> DEFINE w == wfCall[d].run
<1>0. wfCall'[d] = wfCall[d]
    BY DEF OthersAside
<1>1. Left(d)' = Left(d) /\ NextOf(d)' = NextOf(d)
    BY <1>0 DEF Left, NextOf
<1>2. w \in WfRuns /\ wfCall[d].appr \in Approvals \union {0}
    BY DEF WfTypes, WfCallRow
<1>3. StepInHand(d)'
    BY <1>0, <1>1 DEF CallHolds, StepInHand, At
<1>4. ContextGranted(d)'
    BY <1>0 DEF CallHolds, ContextGranted, At, GrantedIn, WfMonotone
<1>5. NamesExist(d)'
    <2>1. wfCall[d].appr # 0 => /\ approval'[wfCall[d].appr].status # "none"
                                /\ approval'[wfCall[d].appr].run = approval[wfCall[d].appr].run
                                /\ approval'[wfCall[d].appr].step = approval[wfCall[d].appr].step
        BY <1>2 DEF CallHolds, NamesExist, WfMonotone
    <2>2. MadeFor(wfCall[d].appr, w, wfCall[d].step) => MadeFor(wfCall[d].appr, w, wfCall[d].step)'
        BY <1>0, <2>1 DEF MadeFor
    <2>3. wfRun[w].status # "none" => wfRun'[w].status # "none"
        BY <1>2 DEF WfMonotone, Exists
    <2>4. At(d, "expire") => \A a \in wfCall[d].held : a \in Approvals /\ approval'[a].status # "none"
        BY DEF CallHolds, NamesExist, WfMonotone
    <2> QED BY <1>0, <2>1, <2>2, <2>3, <2>4 DEF CallHolds, NamesExist, At, MadeFor, Exists
<1>6. ASSUME w \notin overlapped' PROVE ReadHolds(d)' /\ ToComeUntried(d)'
    <2>1. w \notin overlapped
        BY <1>6 DEF WfMonotone
    <2>2. ReadHolds(d) /\ ToComeUntried(d)
        BY <2>1 DEF CallHolds
    <2>3. CASE Untouched(w)
        <3>1. \A s : Untried(w, s)' <=> Untried(w, s)
            BY <1>0, <2>3 DEF Untried, Untouched
        <3>2. \A S : UntriedOutside(w, S) => UntriedOutside(w, S)'
            BY <1>0, <3>1 DEF UntriedOutside
        <3>3. ReadHolds(d)'
            BY <1>0, <2>2, <2>3 DEF ReadHolds, RunOf, Untouched
        <3>4. ToComeUntried(d)'
            BY <1>0, <1>1, <2>2, <2>3, <3>2 DEF ToComeUntried, Untouched
        <3> QED BY <3>3, <3>4
    <2>4. CASE ~Engaged(d, w)
        BY <1>0, <2>4 DEF ReadHolds, ToComeUntried, Engaged, Driving, At
    <2> QED BY <1>6, <2>3, <2>4 DEF OthersAside
<1> QED BY <1>0, <1>3, <1>4, <1>5, <1>6 DEF CallHolds

\* What holds of a run survives when it is not touched, except in its status.
LEMMA RunUntouched ==
    ASSUME WfTypes, WfMonotone, NEW w \in WfRuns, RunHolds(w), Untouched(w),
           \/ wfRun'[w].status = wfRun[w].status
           \/ wfRun'[w].status \notin {"none", "AWAITING_APPROVAL", "SLEEPING"}
    PROVE  RunHolds(w)'
<1>1. wfRun[w].awaiting \in Approvals \union {0}
    BY DEF WfTypes, RunRow
<1>2. RunNames(w)'
    <2>1. wfRun[w].awaiting # 0 => /\ approval'[wfRun[w].awaiting].status # "none"
                                   /\ approval'[wfRun[w].awaiting].run = approval[wfRun[w].awaiting].run
                                   /\ approval'[wfRun[w].awaiting].step = approval[wfRun[w].awaiting].step
        BY <1>1 DEF RunHolds, RunNames, WfMonotone
    <2> QED BY <2>1 DEF RunHolds, RunNames, Untouched, MadeFor
<1>3. RunApproved(w)'
    BY DEF RunHolds, RunApproved, Untouched, WfMonotone, GrantedIn
<1>4. RunBudget(w)'
    <2>1. \A s : Untried(w, s)' <=> Untried(w, s)
        BY DEF Untried, Untouched
    <2>2. \A S : UntriedOutside(w, S) => UntriedOutside(w, S)'
        BY <2>1 DEF UntriedOutside
    <2> QED BY <2>2 DEF RunHolds, RunBudget, Untouched, WfMonotone
<1> QED BY <1>2, <1>3, <1>4 DEF RunHolds

\* A step of one call changes that call only.
LEMMA OneCallMoves ==
    ASSUME wfCall \in [WfCalls -> WfCallRow], NEW c \in WfCalls, NEW r \in WfCallRow, Become(c, r)
    PROVE  /\ wfCall' \in [WfCalls -> WfCallRow] /\ wfCall'[c] = r
           /\ \A d \in WfCalls \ {c} : wfCall'[d] = wfCall[d]
BY DEF Become

\* A call that goes on keeps what it has read.
LEMMA GoesOn ==
    ASSUME wfCall \in [WfCalls -> WfCallRow], NEW c \in WfCalls, NEW p \in WfPcs, GoOn(c, p)
    PROVE  LET m == wfCall[c]  n == wfCall'[c] IN
           /\ n \in WfCallRow /\ Become(c, n)
           /\ n.pc = p /\ n.op = m.op /\ n.run = m.run /\ n.appr = m.appr /\ n.done = m.done
           /\ n.step = m.step /\ n.attempts = m.attempts /\ n.held = m.held
<1>1. [wfCall[c] EXCEPT !.pc = p] \in WfCallRow
    BY DEF WfCallRow
<1>2. wfCall'[c] = [wfCall[c] EXCEPT !.pc = p]
    BY DEF GoOn, Become
<1>3. wfCall[c] \in WfCallRow
    OBVIOUS
<1> QED BY <1>1, <1>2, <1>3 DEF GoOn, WfCallRow

\* A call that records a step goes on to the next.
LEMMA RecordsIt ==
    ASSUME wfCall \in [WfCalls -> WfCallRow], NEW c \in WfCalls, NEW s \in WfSteps, Recorded(c, s)
    PROVE  LET m == wfCall[c]  n == wfCall'[c] IN
           /\ n \in WfCallRow /\ Become(c, n)
           /\ n.pc = "step" /\ n.run = m.run /\ n.appr = m.appr /\ n.done = m.done \union {s}
<1> DEFINE D == wfCall[c].done \union {s}
<1>0. wfCall[c] \in WfCallRow
    OBVIOUS
<1>1. D \in SUBSET WfSteps
    BY <1>0 DEF WfCallRow
<1>2. wfCall'[c] = [wfCall[c] EXCEPT !.pc = "step", !.done = D] /\ Become(c, wfCall'[c])
    BY DEF Recorded, Become
<1> HIDE DEF D
<1>3. [wfCall[c] EXCEPT !.pc = "step", !.done = D] \in WfCallRow
    BY <1>0, <1>1 DEF WfCallRow, WfPcs
<1>4. LET m == wfCall[c]  n == wfCall'[c] IN n.pc = "step" /\ n.run = m.run /\ n.appr = m.appr /\ n.done = D
    BY <1>0, <1>2 DEF WfCallRow
<1> QED BY <1>2, <1>3, <1>4 DEF D

-----------------------------------------------------------------------------
(* Kinds of steps                                                           *)

\* What has to be shown of a step of one call.
LEMMA StepKeeps ==
    ASSUME WfInv, NEW c \in WfCalls, WfTypes', WfMonotone, OthersAside(c), CallHolds(c)',
           RequestsHold', WfRelations', \A w \in WfRuns : RunHolds(w)'
    PROVE  WfInv'
<1>1. \A d \in WfCalls \ {c} : CallHolds(d)'
    BY OtherHolds DEF WfInv
<1>2. \A d \in WfCalls : CallHolds(d)'
    BY <1>1
<1> QED BY <1>2 DEF WfInv

\* Only where the call stands changes.
RowsStay == UNCHANGED <<wfRun, approval, deadLetter, effects, asked, granted, overlapped>>
Moves(c) == wfCall'[c] \in WfCallRow /\ Become(c, wfCall'[c]) /\ RowsStay
    /\ tooEarly \subseteq tooEarly' /\ tooEarly' \subseteq WfRuns

LEMMA CallMoves ==
    ASSUME WfInv, NEW c \in WfCalls, Moves(c), CallHolds(c)', WfRelations'
    PROVE  WfInv'
<1>0. /\ wfCall' \in [WfCalls -> WfCallRow]
      /\ \A d \in WfCalls \ {c} : wfCall'[d] = wfCall[d]
    BY OneCallMoves DEF WfInv, WfTypes, Moves
<1>1. WfTypes'
    BY <1>0 DEF WfInv, WfTypes, Moves, RowsStay, Raised
<1>2. WfMonotone /\ RequestsHold'
    BY DEF WfInv, WfMonotone, RequestsHold, Moves, RowsStay, Exists
<1>3. \A v \in WfRuns : Untouched(v) /\ wfRun'[v].status = wfRun[v].status
    BY DEF Untouched, Moves, RowsStay
<1>4. \A d \in WfCalls : wfCall[d].run \in WfRuns
    BY DEF WfInv, WfTypes, WfCallRow
<1>5. OthersAside(c)
    BY <1>0, <1>3, <1>4 DEF OthersAside
<1>6. \A w \in WfRuns : RunHolds(w)'
    BY <1>2, <1>3, RunUntouched DEF WfInv
<1> QED BY <1>1, <1>2, <1>5, <1>6, StepKeeps

\* A call that drives its run goes on driving it.
LEMMA DrivesOn ==
    ASSUME WfInv, NEW c \in WfCalls, Moves(c), CallHolds(c)', UNCHANGED tooEarly,
           wfCall[c].pc \in Driving, wfCall'[c].pc \in Driving, wfCall'[c].run = wfCall[c].run,
           wfCall'[c].pc = "suspend" => wfCall'[c].appr = 0
    PROVE  WfInv'
<1>0. \A d \in WfCalls \ {c} : wfCall'[d] = wfCall[d]
    BY OneCallMoves DEF WfInv, WfTypes, Moves
<1>1. \A d \in WfCalls, w \in WfRuns : (DrivenBy(d, w) <=> DrivenBy(d, w)') /\ (Engaged(d, w) <=> Engaged(d, w)')
    BY <1>0 DEF DrivenBy, Engaged
<1>2. \A d \in WfCalls, w \in WfRuns : /\ Resuming(d, w) => Resuming(d, w)'
                                       /\ Approving(d, w) => Approving(d, w)'
                                       /\ SuspendsAt(d, w)' => SuspendsAt(d, w)
    BY <1>0 DEF Resuming, Approving, SuspendsAt, At, Driving, Given, Moves, RowsStay
<1>3. RunningIsDriven' /\ OneDriver'
    BY <1>1 DEF WfInv, WfRelations, RunningIsDriven, OneDriver, Moves, RowsStay
<1>4. ResumeComes'
    BY <1>2 DEF WfInv, WfRelations, ResumeComes, Given, Moves, RowsStay
<1> QED BY <1>3, <1>4, CallMoves DEF WfRelations

\* A call that drives nothing goes on so.
LEMMA StaysAside ==
    ASSUME WfInv, NEW c \in WfCalls, Moves(c), CallHolds(c)',
           wfCall[c].pc \notin Driving, wfCall'[c].pc \notin Driving,
           wfCall'[c].pc \in {"check", "resume", "retryWrite"} =>
               \/ wfCall'[c].run \in overlapped
               \/ \A d \in WfCalls : ~DrivenBy(d, wfCall'[c].run),
           \A w \in WfRuns \ (tooEarly' \union overlapped) : Resuming(c, w) =>
               Resuming(c, w)' \/ wfRun[w].status # "AWAITING_APPROVAL" \/ ~Given(wfRun[w].awaiting),
           \A w \in WfRuns \ (tooEarly' \union overlapped) : Approving(c, w) =>
               Approving(c, w)' \/ \A d \in WfCalls : ~DrivenBy(d, w)
    PROVE  WfInv'
<1>0. \A d \in WfCalls \ {c} : wfCall'[d] = wfCall[d]
    BY OneCallMoves DEF WfInv, WfTypes, Moves
<1>1. \A d \in WfCalls, w \in WfRuns : DrivenBy(d, w) <=> DrivenBy(d, w)'
    BY <1>0 DEF DrivenBy
<1>2. \A d \in WfCalls, w \in WfRuns \ overlapped :
          Engaged(d, w)' => Engaged(d, w) \/ (d = c /\ \A e \in WfCalls : ~DrivenBy(e, w))
    BY <1>0 DEF Engaged
<1>3. RunningIsDriven'
    BY <1>1 DEF WfInv, WfRelations, RunningIsDriven, Moves, RowsStay
<1>4. OneDriver'
    BY <1>1, <1>2 DEF WfInv, WfRelations, OneDriver, Moves, RowsStay
<1>5. \A d \in WfCalls, w \in WfRuns : SuspendsAt(d, w)' => SuspendsAt(d, w) /\ DrivenBy(d, w)
    BY <1>0 DEF SuspendsAt, At, Driving, DrivenBy, Given, Moves, RowsStay
<1>6. \A d \in WfCalls \ {c}, w \in WfRuns : (Resuming(d, w) => Resuming(d, w)') /\ (Approving(d, w) => Approving(d, w)')
    BY <1>0 DEF Resuming, Approving, At
<1>7. ResumeComes'
    <2> SUFFICES ASSUME NEW w \in WfRuns \ (tooEarly' \union overlapped')
                 PROVE  /\ wfRun'[w].status = "AWAITING_APPROVAL" /\ Given(wfRun[w].awaiting)'
                              => \E d \in WfCalls : Resuming(d, w)'
                        /\ (\E d \in WfCalls : SuspendsAt(d, w)') => \E d \in WfCalls : Approving(d, w)'
        BY DEF ResumeComes, Moves, RowsStay
    <2>1. w \in WfRuns \ (tooEarly \union overlapped) /\ w \in WfRuns \ (tooEarly' \union overlapped)
        BY DEF Moves, RowsStay
    <2>2. wfRun' = wfRun /\ approval' = approval
        BY DEF Moves, RowsStay
    <2>3. ASSUME wfRun[w].status = "AWAITING_APPROVAL", Given(wfRun[w].awaiting)
          PROVE  \E d \in WfCalls : Resuming(d, w)'
        BY <1>6, <2>1, <2>3 DEF WfInv, WfRelations, ResumeComes
    <2>4. ASSUME NEW d \in WfCalls, SuspendsAt(d, w)' PROVE \E e \in WfCalls : Approving(e, w)'
        BY <1>5, <1>6, <2>1, <2>4 DEF WfInv, WfRelations, ResumeComes
    <2> QED BY <2>2, <2>3, <2>4 DEF Given
<1> QED BY <1>3, <1>4, <1>7, CallMoves DEF WfRelations

\* A call that is over, or that has read nothing of its run yet, knows little.
LEMMA RestHolds ==
    ASSUME NEW c \in WfCalls,
           wfCall'[c].pc \in {"lookup", "count", "create", "bury", "findExpired", "done", "thrown"},
           wfCall'[c].pc \in {"lookup", "count", "create"} => wfCall'[c].done = {},
           wfCall'[c].appr # 0 => approval'[wfCall'[c].appr].status # "none"
    PROVE  CallHolds(c)'
BY DEF CallHolds, StepInHand, NamesExist, ContextGranted, ReadHolds, ToComeUntried, Carrying, Driving, At

-----------------------------------------------------------------------------
(* The driving steps that change no row                                     *)

\* A call is in a run and has a request that exist.
LEMMA CallFacts ==
    ASSUME WfInv, NEW c \in WfCalls
    PROVE  /\ wfCall[c] \in WfCallRow /\ wfCall \in [WfCalls -> WfCallRow] /\ CallHolds(c)
           /\ wfCall[c].run \in WfRuns /\ RunHolds(wfCall[c].run)
           /\ wfCall[c].appr \in Approvals \union {0} /\ wfCall[c].done \in SUBSET WfSteps
           /\ wfCall[c].appr # 0 => approval[wfCall[c].appr].status # "none"
<1>1. wfCall[c] \in WfCallRow /\ wfCall \in [WfCalls -> WfCallRow] /\ CallHolds(c)
    BY DEF WfInv, WfTypes
<1>2. wfCall[c].run \in WfRuns /\ wfCall[c].appr \in Approvals \union {0} /\ wfCall[c].done \in SUBSET WfSteps
    BY <1>1 DEF WfCallRow
<1> QED BY <1>1, <1>2 DEF WfInv, CallHolds, NamesExist

LEMMA AfterRecord ==
    ASSUME WfInv, NEW c \in WfCalls, wfCall[c].pc \in {"step", "failed", "children"},
           Left(c) # {}, ~Needs(NextOf(c)), Recorded(c, NextOf(c)), RowsStay, UNCHANGED tooEarly
    PROVE  WfInv'
<1> DEFINE s == NextOf(c)
           w == wfCall[c].run
<1>1. s \in WfSteps /\ s \notin wfCall[c].done
    BY NextIsLeast DEF WfInv
<1>2. /\ wfCall'[c] \in WfCallRow /\ Become(c, wfCall'[c])
      /\ wfCall'[c].pc = "step" /\ wfCall'[c].run = w /\ wfCall'[c].appr = wfCall[c].appr
      /\ wfCall'[c].done = wfCall[c].done \union {s}
    BY <1>1, CallFacts, RecordsIt
<1>3. Moves(c)
    BY <1>2 DEF Moves, WfInv, WfTypes
<1>4. CallHolds(c)'
    <2>1. StepInHand(c)'
        BY <1>2 DEF StepInHand, At
    <2>2. NamesExist(c)'
        BY <1>2, CallFacts DEF CallHolds, NamesExist, Carrying, Driving, At, RowsStay, Exists
    <2>3. ContextGranted(c)'
        BY <1>2, CallFacts DEF CallHolds, ContextGranted, Carrying, Driving, At, RowsStay, GrantedIn
    <2>4. ReadHolds(c)'
        BY <1>2 DEF ReadHolds
    <2>5. ASSUME w \notin overlapped PROVE ToComeUntried(c)'
        <3>1. UntriedOutside(w, wfCall[c].done \union {s})
            BY <2>5, CallFacts DEF CallHolds, ToComeUntried, UntriedOutside
        <3>2. UntriedOutside(w, wfCall[c].done)'
            BY <1>2, <3>1 DEF UntriedOutside, Untried, RowsStay
        <3> QED BY <1>2, <3>2 DEF ToComeUntried
    <2> QED BY <1>2, <2>1, <2>2, <2>3, <2>4, <2>5 DEF CallHolds, RowsStay
<1> QED BY <1>2, <1>3, <1>4, DrivesOn DEF Driving

\* A call that leaves runSequence with an exception, or with a failed step.
LEMMA AfterFail ==
    ASSUME WfInv, NEW c \in WfCalls, NEW p \in {"failed", "failRead", "failWrite"},
           wfCall[c].pc \in {"step", "failed", "children", "failRead"},
           p = "failed" => Left(c) # {} /\ Kind[NextOf(c)] # "approval" /\ wfCall[c].pc \in {"step", "children"},
           wfCall'[c] \in WfCallRow, Become(c, wfCall'[c]), wfCall'[c].pc = p,
           wfCall'[c].run = wfCall[c].run, wfCall'[c].appr = wfCall[c].appr, wfCall'[c].done = wfCall[c].done,
           RowsStay, UNCHANGED tooEarly
    PROVE  WfInv'
<1> DEFINE w == wfCall[c].run
<1>0. Left(c)' = Left(c) /\ NextOf(c)' = NextOf(c)
    BY DEF Left, NextOf
<1>1. Moves(c)
    BY DEF Moves, WfInv, WfTypes
<1>2. CallHolds(c)'
    <2>1. StepInHand(c)'
        BY <1>0 DEF StepInHand, At
    <2>2. NamesExist(c)'
        BY CallFacts DEF CallHolds, NamesExist, Carrying, Driving, At, RowsStay, Exists
    <2>3. ContextGranted(c)'
        BY CallFacts DEF CallHolds, ContextGranted, Carrying, Driving, At, RowsStay, GrantedIn
    <2>4. ReadHolds(c)'
        BY DEF ReadHolds
    <2>5. ASSUME w \notin overlapped, p = "failed" PROVE UntriedOutside(w, wfCall[c].done \union {NextOf(c)})'
        <3>1. UntriedOutside(w, wfCall[c].done \union {NextOf(c)})
            BY <2>5, CallFacts DEF CallHolds, ToComeUntried, UntriedOutside
        <3> QED BY <1>0, <3>1 DEF UntriedOutside, Untried, RowsStay
    <2>6. ASSUME w \notin overlapped PROVE ToComeUntried(c)'
        BY <1>0, <2>5, <2>6 DEF ToComeUntried
    <2> QED BY <2>1, <2>2, <2>3, <2>4, <2>6 DEF CallHolds, RowsStay
<1> QED BY <1>1, <1>2, DrivesOn DEF Driving

LEMMA FailsTo ==
    ASSUME WfInv, NEW c \in WfCalls, NEW p \in {"failed", "failRead"},
           wfCall[c].pc \in {"step", "failed", "children"},
           p = "failed" => Left(c) # {} /\ Kind[NextOf(c)] # "approval" /\ wfCall[c].pc \in {"step", "children"},
           GoOn(c, p), RowsStay, UNCHANGED tooEarly
    PROVE  WfInv'
<1>1. p \in WfPcs
    BY DEF WfPcs
<1>2. LET m == wfCall[c]  n == wfCall'[c] IN
      n \in WfCallRow /\ Become(c, n) /\ n.pc = p /\ n.run = m.run /\ n.appr = m.appr /\ n.done = m.done
    BY <1>1, CallFacts, GoesOn
<1> QED BY <1>2, AfterFail

LEMMA SkipStepKeeps ==
    ASSUME WfInv, NEW c \in WfCalls, SkipStep(c) PROVE WfInv'
<1>1. ~Needs(NextOf(c))
    BY DEF SkipStep, Needs
<1> QED BY <1>1, AfterRecord DEF SkipStep, At, RowsStay, wfHistory

LEMMA DelayStepKeeps ==
    ASSUME WfInv, NEW c \in WfCalls, DelayStep(c) PROVE WfInv'
<1> DEFINE s == NextOf(c)
           w == wfCall[c].run
           r == [wfCall[c] EXCEPT !.pc = "suspend", !.appr = 0, !.step = s]
<1>1. At(c, "step") /\ Left(c) # {} /\ Kind[s] = "delay" /\ RowsStay /\ UNCHANGED tooEarly
    BY DEF DelayStep, Is, RowsStay, wfHistory
<1>2. s \in WfSteps /\ ~Needs(s)
    BY <1>1, NextIsLeast DEF WfInv, Needs
<1>3. CASE Recorded(c, s)
    BY <1>1, <1>2, <1>3, AfterRecord DEF At
<1>4. CASE Become(c, r)
    <2>1. r \in WfCallRow
        BY ZenonT(60), <1>2, CallFacts DEF WfCallRow, WfPcs
    <2>2. wfCall'[c] = r
        BY <2>1, <1>4, CallFacts, OneCallMoves
    <2>3. /\ wfCall'[c].pc = "suspend" /\ wfCall'[c].appr = 0 /\ wfCall'[c].step = s
          /\ wfCall'[c].run = w /\ wfCall'[c].done = wfCall[c].done
        BY <2>2, CallFacts DEF WfCallRow
    <2>4. Moves(c)
        BY <1>1, <1>4, <2>1, <2>2 DEF Moves, WfInv, WfTypes
    <2>5. StepInHand(c)'
        BY <1>2, <2>3, WorkflowAssumption DEF StepInHand, At, WfSteps
    <2>6. NamesExist(c)'
        BY <1>1, <1>2, <2>3, CallFacts DEF CallHolds, NamesExist, Carrying, Driving, At, RowsStay, Exists, MadeFor
    <2>7. ContextGranted(c)'
        BY <1>1, <2>3, CallFacts DEF CallHolds, ContextGranted, Carrying, Driving, At, RowsStay, GrantedIn
    <2>8. ReadHolds(c)'
        BY <2>3 DEF ReadHolds
    <2>9. ASSUME w \notin overlapped PROVE ToComeUntried(c)'
        <3>1. UntriedOutside(w, wfCall[c].done \union {s})
            BY <1>1, <2>9, CallFacts DEF CallHolds, ToComeUntried, UntriedOutside, At
        <3>2. UntriedOutside(w, wfCall[c].done \union {wfCall[c].step})'
            BY <1>1, <2>3, <3>1 DEF UntriedOutside, Untried, RowsStay
        <3> QED BY <2>3, <3>2 DEF ToComeUntried
    <2>10. CallHolds(c)'
        BY <1>1, <2>3, <2>5, <2>6, <2>7, <2>8, <2>9 DEF CallHolds, RowsStay
    <2> QED BY <1>1, <2>3, <2>4, <2>10, DrivesOn DEF Driving, At
<1> QED BY <1>3, <1>4 DEF DelayStep

LEMMA ParallelStepKeeps ==
    ASSUME WfInv, NEW c \in WfCalls, ParallelStep(c) PROVE WfInv'
<1> DEFINE s == NextOf(c)
           w == wfCall[c].run
           r == [wfCall[c] EXCEPT !.pc = "children", !.held = Children]
<1>1. At(c, "step") /\ Left(c) # {} /\ Kind[s] = "parallel" /\ RowsStay /\ UNCHANGED tooEarly /\ Become(c, r)
    BY DEF ParallelStep, Is, RowsStay, wfHistory
<1>2. s \in WfSteps /\ s \notin wfCall[c].done
    BY <1>1, NextIsLeast DEF WfInv
<1>3. r \in WfCallRow
    BY ZenonT(60), CallFacts DEF WfCallRow, WfPcs
<1>4. wfCall'[c] = r
    BY <1>3, <1>1, CallFacts, OneCallMoves
<1>5. /\ wfCall'[c].pc = "children" /\ wfCall'[c].appr = wfCall[c].appr
      /\ wfCall'[c].run = w /\ wfCall'[c].done = wfCall[c].done
    BY <1>4, CallFacts DEF WfCallRow
<1>6. Left(c)' = Left(c) /\ NextOf(c)' = s
    BY <1>5 DEF Left, NextOf
<1>7. Moves(c)
    BY <1>1, <1>3, <1>4 DEF Moves, WfInv, WfTypes
<1>8. StepInHand(c)'
    BY <1>1, <1>5, <1>6 DEF StepInHand, At
<1>9. NamesExist(c)'
    BY <1>1, <1>5, CallFacts DEF CallHolds, NamesExist, Carrying, Driving, At, RowsStay, Exists
<1>10. ContextGranted(c)'
    BY <1>1, <1>5, CallFacts DEF CallHolds, ContextGranted, Carrying, Driving, At, RowsStay, GrantedIn
<1>11. ReadHolds(c)'
    BY <1>5 DEF ReadHolds
<1>12. ASSUME w \notin overlapped PROVE ToComeUntried(c)'
    <2>1. UntriedOutside(w, wfCall[c].done)
        BY <1>1, <1>12, CallFacts DEF CallHolds, ToComeUntried, At
    <2>2. UntriedOutside(w, wfCall[c].done \union {s})' /\ Untried(w, s)'
        BY <1>1, <1>2, <1>5, <1>6, <2>1 DEF UntriedOutside, Untried, RowsStay
    <2> QED BY <1>5, <1>6, <2>2 DEF ToComeUntried, Untried
<1>13. CallHolds(c)'
    BY <1>1, <1>5, <1>8, <1>9, <1>10, <1>11, <1>12 DEF CallHolds, RowsStay
<1> QED BY <1>1, <1>5, <1>7, <1>13, DrivesOn DEF Driving, At

LEMMA ParallelJoinKeeps ==
    ASSUME WfInv, NEW c \in WfCalls, ParallelJoin(c) PROVE WfInv'
<1>1. At(c, "children") /\ RowsStay /\ UNCHANGED tooEarly
    BY DEF ParallelJoin, RowsStay, wfHistory
<1>2. Left(c) # {} /\ Kind[NextOf(c)] # "approval"
    BY <1>1, CallFacts DEF CallHolds, StepInHand, At
<1>3. CASE Recorded(c, NextOf(c))
    BY <1>1, <1>2, <1>3, AfterRecord DEF At, Needs
<1>4. CASE GoOn(c, "failed")
    BY <1>1, <1>2, <1>4, FailsTo DEF At
<1> QED BY <1>3, <1>4 DEF ParallelJoin

LEMMA StepFailedKeeps ==
    ASSUME WfInv, NEW c \in WfCalls, StepFailed(c) PROVE WfInv'
<1>1. At(c, "failed") /\ RowsStay /\ UNCHANGED tooEarly
    BY DEF StepFailed, RowsStay, wfHistory
<1>2. Left(c) # {} /\ Kind[NextOf(c)] # "approval"
    BY <1>1, CallFacts DEF CallHolds, StepInHand, At
<1>3. CASE Recorded(c, NextOf(c))
    BY <1>1, <1>2, <1>3, AfterRecord DEF At, Needs
<1>4. CASE GoOn(c, "failRead")
    BY <1>1, <1>2, <1>4, FailsTo DEF At
<1> QED BY <1>3, <1>4 DEF StepFailed

LEMMA StepThrowsKeeps ==
    ASSUME WfInv, NEW c \in WfCalls, StepThrows(c) PROVE WfInv'
BY FailsTo DEF StepThrows, At, RowsStay, wfHistory

LEMMA FailReadKeeps ==
    ASSUME WfInv, NEW c \in WfCalls, FailRead(c) PROVE WfInv'
<1> DEFINE r == [wfCall[c] EXCEPT !.pc = "failWrite", !.attempts = RunOf(c).attempts]
<1>1. At(c, "failRead") /\ Become(c, r) /\ RowsStay /\ UNCHANGED tooEarly
    BY DEF FailRead, RowsStay, wfHistory
<1>2. RunOf(c).attempts \in Nat
    BY CallFacts DEF WfInv, WfTypes, RunRow, RunOf
<1>3. r \in WfCallRow
    BY ZenonT(60), <1>2, CallFacts DEF WfCallRow, WfPcs
<1>4. wfCall'[c] = r
    BY <1>3, <1>1, CallFacts, OneCallMoves
<1>5. /\ wfCall'[c].pc = "failWrite" /\ wfCall'[c].appr = wfCall[c].appr
      /\ wfCall'[c].run = wfCall[c].run /\ wfCall'[c].done = wfCall[c].done
    BY <1>4, CallFacts DEF WfCallRow
<1> QED BY <1>1, <1>3, <1>4, <1>5, AfterFail DEF At

-----------------------------------------------------------------------------
(* The steps of calls that drive nothing and write nothing                  *)

\* Somebody who has not read a run yet, and does not come to resume it.
Indifferent(c) ==
    /\ wfCall[c].pc \notin Driving \union {"check", "resume"}
    /\ At(c, "readRun") => wfCall[c].op # "approve"

LEMMA IndifferentMoves ==
    ASSUME WfInv, NEW c \in WfCalls, Moves(c), CallHolds(c)', Indifferent(c),
           wfCall'[c].pc \notin Driving \union {"check", "resume"},
           wfCall'[c].pc = "retryWrite" =>
               wfCall'[c].run \in overlapped \/ \A d \in WfCalls : ~DrivenBy(d, wfCall'[c].run)
    PROVE  WfInv'
<1>1. \A w \in WfRuns : ~Resuming(c, w) /\ ~Approving(c, w)
    BY DEF Indifferent, Resuming, Approving, At
<1> QED BY <1>1, StaysAside DEF Indifferent

\* A call that leaves, or goes on to something that reads no run first.
LEMMA IndifferentGoesOn ==
    ASSUME WfInv, NEW c \in WfCalls, Indifferent(c), RowsStay, UNCHANGED tooEarly,
           NEW p \in {"lookup", "count", "create", "bury", "findExpired", "done", "thrown"}, GoOn(c, p),
           p \in {"lookup", "count", "create"} => wfCall[c].pc \in {"lookup", "count"}
    PROVE  WfInv'
<1>1. p \in WfPcs
    BY DEF WfPcs
<1>2. LET m == wfCall[c]  n == wfCall'[c] IN
      /\ n \in WfCallRow /\ Become(c, n) /\ n.pc = p
      /\ n.run = m.run /\ n.appr = m.appr /\ n.done = m.done
    BY <1>1, CallFacts, GoesOn
<1>3. Moves(c)
    BY <1>2 DEF Moves, WfInv, WfTypes
<1>4. wfCall'[c].appr # 0 => approval'[wfCall'[c].appr].status # "none"
    BY <1>2, CallFacts DEF RowsStay
<1>5. wfCall'[c].pc \in {"lookup", "count", "create"} => wfCall'[c].done = {}
    BY <1>2, CallFacts DEF CallHolds, ContextGranted
<1>6. CallHolds(c)'
    BY <1>2, <1>4, <1>5, RestHolds
<1> QED BY <1>2, <1>3, <1>6, IndifferentMoves DEF Driving

LEMMA WfCallBeginKeeps ==
    ASSUME WfInv, NEW c \in WfCalls, WfCallBegin(c) PROVE WfInv'
<1>1. At(c, "idle") /\ RowsStay /\ UNCHANGED tooEarly
    BY DEF WfCallBegin, RowsStay, wfHistory
<1>2. Indifferent(c)
    BY <1>1 DEF Indifferent, At, Driving
<1>3. ASSUME NEW r \in WfCallRow, Become(c, r), r.pc \in {"lookup", "count", "findExpired"},
             r.appr = wfCall[c].appr, r.done = wfCall[c].done
      PROVE  WfInv'
    <2>1. wfCall'[c] = r
        BY <1>3, CallFacts, OneCallMoves
    <2>2. Moves(c)
        BY <1>1, <1>3, <2>1 DEF Moves, WfInv, WfTypes
    <2>3. wfCall'[c].appr # 0 => approval'[wfCall'[c].appr].status # "none"
        BY <1>1, <1>3, <2>1, CallFacts DEF RowsStay
    <2>4. CallHolds(c)'
        BY <1>1, <1>3, <2>1, <2>3, CallFacts, RestHolds DEF CallHolds, ContextGranted, At
    <2> QED BY <1>2, <1>3, <2>1, <2>2, <2>4, IndifferentMoves DEF Driving
<1>4. ASSUME NEW k \in Keys \union {NoKey},
             Become(c, [wfCall[c] EXCEPT !.op = "start", !.key = k, !.pc = IF k = NoKey THEN "count" ELSE "lookup"])
      PROVE  WfInv'
    <2> DEFINE p == IF k = NoKey THEN "count" ELSE "lookup"
               r == [wfCall[c] EXCEPT !.op = "start", !.key = k, !.pc = p]
    <2>1. p \in WfPcs /\ p \in {"lookup", "count", "findExpired"} /\ "start" \in WfCallOps
        BY DEF WfPcs, WfCallOps
    <2> HIDE DEF p
    <2>2. r \in WfCallRow /\ r.pc = p /\ r.appr = wfCall[c].appr /\ r.done = wfCall[c].done
        BY <2>1, CallFacts DEF WfCallRow
    <2> QED BY <1>3, <1>4, <2>1, <2>2 DEF p
<1>5. ASSUME Become(c, [wfCall[c] EXCEPT !.op = "expireStale", !.pc = "findExpired"])
      PROVE  WfInv'
    <2> DEFINE r == [wfCall[c] EXCEPT !.op = "expireStale", !.pc = "findExpired"]
    <2>1. r \in WfCallRow /\ r.pc \in {"lookup", "count", "findExpired"} /\ r.appr = wfCall[c].appr /\ r.done = wfCall[c].done
        BY ZenonT(60), CallFacts DEF WfCallRow, WfPcs, WfCallOps
    <2> QED BY <1>3, <1>5, <2>1
<1>6. ASSUME NEW o \in RunOps, NEW w \in WfRuns, Exists(w),
             Become(c, [wfCall[c] EXCEPT !.op = o, !.run = w, !.pc = "readRun"])
      PROVE  WfInv'
    <2> DEFINE r == [wfCall[c] EXCEPT !.op = o, !.run = w, !.pc = "readRun"]
    <2>1. r \in WfCallRow /\ r.pc = "readRun" /\ r.run = w /\ r.appr = wfCall[c].appr
        BY ZenonT(60), CallFacts DEF WfCallRow, WfPcs, WfCallOps
    <2>2. wfCall'[c] = r
        BY <1>6, <2>1, CallFacts, OneCallMoves
    <2> HIDE DEF r
    <2>3. Moves(c)
        BY <1>1, <1>6, <2>1, <2>2 DEF Moves, WfInv, WfTypes, r
    <2>4. StepInHand(c)' /\ ContextGranted(c)' /\ ReadHolds(c)' /\ ToComeUntried(c)'
        BY <2>1, <2>2 DEF StepInHand, ContextGranted, ReadHolds, ToComeUntried, At, Carrying, Driving
    <2>5. NamesExist(c)'
        BY <1>1, <1>6, <2>1, <2>2, CallFacts DEF NamesExist, At, RowsStay, Exists
    <2> QED BY <1>2, <2>1, <2>2, <2>3, <2>4, <2>5, IndifferentMoves DEF CallHolds, Driving
<1>7. ASSUME NEW o \in Decisions, NEW a \in Raised,
             Become(c, [wfCall[c] EXCEPT !.op = o, !.appr = a, !.pc = "readApproval"])
      PROVE  WfInv'
    <2> DEFINE r == [wfCall[c] EXCEPT !.op = o, !.appr = a, !.pc = "readApproval"]
    <2>0. a \in Approvals /\ approval[a].status # "none" /\ a # 0
        BY DEF Raised, Approvals
    <2>1. r \in WfCallRow /\ r.pc = "readApproval" /\ r.appr = a /\ r.op = o
        BY ZenonT(60), <2>0, CallFacts DEF WfCallRow, WfPcs, WfCallOps
    <2>2. wfCall'[c] = r
        BY <1>7, <2>1, CallFacts, OneCallMoves
    <2> HIDE DEF r
    <2>3. Moves(c)
        BY <1>1, <1>7, <2>1, <2>2 DEF Moves, WfInv, WfTypes, r
    <2>4. StepInHand(c)' /\ ContextGranted(c)' /\ ReadHolds(c)' /\ ToComeUntried(c)'
        BY <2>1, <2>2 DEF StepInHand, ContextGranted, ReadHolds, ToComeUntried, At, Carrying, Driving
    <2>5. NamesExist(c)'
        BY <1>1, <2>0, <2>1, <2>2 DEF NamesExist, At, RowsStay, Carrying, Driving
    <2> QED BY <1>2, <2>1, <2>2, <2>3, <2>4, <2>5, IndifferentMoves DEF CallHolds, Driving
<1> QED BY <1>4, <1>5, <1>6, <1>7 DEF WfCallBegin

LEMMA StartLookupKeeps ==
    ASSUME WfInv, NEW c \in WfCalls, StartLookup(c) PROVE WfInv'
BY IndifferentGoesOn DEF StartLookup, RowsStay, wfHistory, Indifferent, At, Driving

LEMMA StartCountKeeps ==
    ASSUME WfInv, NEW c \in WfCalls, StartCount(c) PROVE WfInv'
BY IndifferentGoesOn DEF StartCount, RowsStay, wfHistory, Indifferent, At, Driving

\* What a call that goes on to deciding, or to a write, has to know.
LEMMA IndifferentGoesOnTo ==
    ASSUME WfInv, NEW c \in WfCalls, Indifferent(c), RowsStay, UNCHANGED tooEarly,
           NEW p \in {"decide", "cancelWrite"}, GoOn(c, p),
           p = "decide" => At(c, "readApproval"),
           p = "cancelWrite" => At(c, "readRun")
    PROVE  WfInv'
<1>1. p \in WfPcs
    BY DEF WfPcs
<1>2. LET m == wfCall[c]  n == wfCall'[c] IN
      n \in WfCallRow /\ Become(c, n) /\ n.pc = p /\ n.run = m.run /\ n.appr = m.appr /\ n.op = m.op
    BY <1>1, CallFacts, GoesOn
<1>3. Moves(c)
    BY <1>2 DEF Moves, WfInv, WfTypes
<1>4. StepInHand(c)' /\ ContextGranted(c)' /\ ReadHolds(c)' /\ ToComeUntried(c)'
    BY <1>2 DEF StepInHand, ContextGranted, ReadHolds, ToComeUntried, At, Carrying, Driving
<1>5. NamesExist(c)'
    BY <1>2, CallFacts DEF CallHolds, NamesExist, At, RowsStay, Exists, Carrying, Driving
<1> QED BY <1>2, <1>3, <1>4, <1>5, IndifferentMoves DEF CallHolds, Driving

LEMMA AssertPendingKeeps ==
    ASSUME WfInv, NEW c \in WfCalls, AssertPending(c) PROVE WfInv'
<1>1. Indifferent(c) /\ RowsStay /\ UNCHANGED tooEarly /\ At(c, "readApproval")
    BY DEF AssertPending, RowsStay, wfHistory, Indifferent, At, Driving
<1>2. GoOn(c, "decide") \/ GoOn(c, "thrown")
    BY DEF AssertPending
<1> QED BY <1>1, <1>2, IndifferentGoesOn, IndifferentGoesOnTo

LEMMA RunCancelReadKeeps ==
    ASSUME WfInv, NEW c \in WfCalls, RunCancelRead(c) PROVE WfInv'
<1>1. Indifferent(c) /\ RowsStay /\ UNCHANGED tooEarly /\ At(c, "readRun")
    BY DEF RunCancelRead, RowsStay, wfHistory, Indifferent, At, Driving
<1>2. GoOn(c, "cancelWrite") \/ GoOn(c, "thrown")
    BY DEF RunCancelRead
<1> QED BY <1>1, <1>2, IndifferentGoesOn, IndifferentGoesOnTo

LEMMA RunRetryReadKeeps ==
    ASSUME WfInv, NEW c \in WfCalls, RunRetryRead(c) PROVE WfInv'
<1> DEFINE w == wfCall[c].run
           r == [wfCall[c] EXCEPT !.pc = "retryWrite", !.attempts = RunOf(c).attempts]
<1>1. Indifferent(c) /\ RowsStay /\ UNCHANGED tooEarly /\ At(c, "readRun")
    BY DEF RunRetryRead, RowsStay, wfHistory, Indifferent, At, Driving
<1>2. CASE GoOn(c, "thrown")
    BY <1>1, <1>2, IndifferentGoesOn
<1>3. CASE MayRetry(w) /\ Become(c, r)
    <2>1. RunOf(c).attempts \in Nat
        BY CallFacts DEF WfInv, WfTypes, RunRow, RunOf
    <2>2. r \in WfCallRow
        BY ZenonT(60), <2>1, CallFacts DEF WfCallRow, WfPcs
    <2>3. wfCall'[c] = r
        BY <1>3, <2>2, CallFacts, OneCallMoves
    <2>4. /\ wfCall'[c].pc = "retryWrite" /\ wfCall'[c].appr = wfCall[c].appr
          /\ wfCall'[c].run = w /\ wfCall'[c].attempts = RunOf(c).attempts
        BY <2>3, CallFacts DEF WfCallRow
    <2> HIDE DEF r
    <2>5. Moves(c)
        BY <1>1, <1>3, <2>2, <2>3 DEF Moves, WfInv, WfTypes, r
    <2>6. StepInHand(c)' /\ ContextGranted(c)' /\ ToComeUntried(c)'
        BY <2>4 DEF StepInHand, ContextGranted, ToComeUntried, At, Carrying, Driving
    <2>7. NamesExist(c)'
        BY <1>1, <2>4, CallFacts DEF CallHolds, NamesExist, At, RowsStay, Exists, Carrying, Driving
    <2>8. ReadHolds(c)'
        BY <1>1, <2>4 DEF ReadHolds, RunOf, RowsStay
    <2>9. w \in overlapped \/ \A d \in WfCalls : ~DrivenBy(d, w)
        BY <1>3, CallFacts DEF WfInv, WfRelations, OneDriver, MayRetry
    <2> QED BY <1>1, <2>4, <2>5, <2>6, <2>7, <2>8, <2>9, IndifferentMoves DEF CallHolds, Driving
<1> QED BY <1>2, <1>3 DEF RunRetryRead

LEMMA FindExpiredKeeps ==
    ASSUME WfInv, NEW c \in WfCalls, FindExpired(c) PROVE WfInv'
<1>1. Indifferent(c) /\ RowsStay /\ UNCHANGED tooEarly
    BY DEF FindExpired, RowsStay, wfHistory, Indifferent, At, Driving
<1>2. PICK S \in SUBSET {a \in Approvals : approval[a].status = "PENDING"} :
          Become(c, [wfCall[c] EXCEPT !.pc = "expire", !.held = S])
    BY DEF FindExpired
<1> DEFINE r == [wfCall[c] EXCEPT !.pc = "expire", !.held = S]
<1>3. \A a \in S : a \in Approvals /\ approval[a].status # "none"
    OBVIOUS
<1>4. r \in WfCallRow /\ r.pc = "expire" /\ r.held = S /\ r.appr = wfCall[c].appr
    BY ZenonT(60), CallFacts DEF WfCallRow, WfPcs
<1>5. wfCall'[c] = r
    BY <1>2, <1>4, CallFacts, OneCallMoves
<1> HIDE DEF r
<1>6. Moves(c)
    BY <1>1, <1>2, <1>4, <1>5 DEF Moves, WfInv, WfTypes, r
<1>7. StepInHand(c)' /\ ContextGranted(c)' /\ ReadHolds(c)' /\ ToComeUntried(c)'
    BY <1>4, <1>5 DEF StepInHand, ContextGranted, ReadHolds, ToComeUntried, At, Carrying, Driving
<1>8. NamesExist(c)'
    BY <1>1, <1>3, <1>4, <1>5, CallFacts DEF NamesExist, At, RowsStay, Carrying, Driving
<1> QED BY <1>1, <1>4, <1>5, <1>6, <1>7, <1>8, IndifferentMoves DEF CallHolds, Driving

LEMMA ResumeCheckKeeps ==
    ASSUME WfInv, NEW c \in WfCalls, ResumeCheck(c) PROVE WfInv'
<1> DEFINE w == wfCall[c].run
           p == IF LetsResume(wfCall[c].appr) THEN "resume" ELSE "thrown"
<1>1. At(c, "check") /\ RowsStay /\ UNCHANGED tooEarly /\ GoOn(c, p)
    BY DEF ResumeCheck, RowsStay, wfHistory
<1>2. p \in WfPcs
    BY DEF WfPcs
<1>3. LET m == wfCall[c]  n == wfCall'[c] IN
      /\ n \in WfCallRow /\ Become(c, n) /\ n.pc = p
      /\ n.run = m.run /\ n.appr = m.appr /\ n.done = m.done /\ n.step = m.step
    BY <1>1, <1>2, CallFacts, GoesOn
<1> HIDE DEF p
<1>4. Moves(c)
    BY <1>1, <1>3 DEF Moves, WfInv, WfTypes
<1>5. CASE ~LetsResume(wfCall[c].appr)
    <2>1. wfCall'[c].pc = "thrown"
        BY <1>3, <1>5 DEF p
    <2>2. wfCall'[c].appr # 0 => approval'[wfCall'[c].appr].status # "none"
        BY <1>1, <1>3, CallFacts DEF RowsStay
    <2>3. CallHolds(c)'
        BY <2>1, <2>2, RestHolds
    <2>4. w \notin overlapped => ~Given(wfRun[w].awaiting)
        BY <1>1, <1>5, CallFacts DEF CallHolds, ReadHolds, At, LetsResume, Given, RunOf
    <2>5. \A v \in WfRuns : (Resuming(c, v) => v = w) /\ ~Approving(c, v)
        BY <1>1 DEF Resuming, Approving, At
    <2> QED BY <1>1, <1>4, <2>1, <2>3, <2>4, <2>5, StaysAside DEF Driving, At, RowsStay
<1>6. CASE LetsResume(wfCall[c].appr)
    <2>1. wfCall'[c].pc = "resume"
        BY <1>3, <1>6 DEF p
    <2>2. StepInHand(c)'
        BY <2>1 DEF StepInHand, At
    <2>3. NamesExist(c)'
        BY <1>1, <1>3, <2>1, CallFacts DEF CallHolds, NamesExist, At, RowsStay, Exists, Carrying, Driving
    <2>4. <<w, wfCall[c].step>> \in granted
        BY <1>1, <1>6, CallFacts DEF CallHolds, NamesExist, MadeFor, At, LetsResume, WfInv, RequestsHold
    <2>5. ContextGranted(c)'
        BY <1>1, <1>3, <2>1, <2>4, CallFacts DEF CallHolds, ContextGranted, GrantedIn, At, RowsStay, Carrying, Driving
    <2>6. ASSUME w \notin overlapped PROVE ReadHolds(c)'
        BY <1>1, <1>3, <2>1, <2>6, CallFacts DEF CallHolds, ReadHolds, RunOf, At, RowsStay
    <2>7. ASSUME w \notin overlapped PROVE ToComeUntried(c)'
        BY <1>1, <1>3, <2>1, <2>7, CallFacts DEF CallHolds, ToComeUntried, UntriedOutside, Untried, At, RowsStay
    <2>8. CallHolds(c)'
        BY <1>1, <1>3, <2>2, <2>3, <2>5, <2>6, <2>7 DEF CallHolds, RowsStay
    <2>9. w \in overlapped \/ \A d \in WfCalls : ~DrivenBy(d, w)
        <3>1. Engaged(c, w) /\ ~DrivenBy(c, w)
            BY <1>1 DEF Engaged, DrivenBy, At, Driving
        <3> QED BY <3>1, CallFacts DEF WfInv, WfRelations, OneDriver
    <2>10. \A v \in WfRuns : (Resuming(c, v) => Resuming(c, v)') /\ ~Approving(c, v)
        BY <1>1, <1>3, <2>1 DEF Resuming, Approving, At
    <2> QED BY <1>1, <1>3, <1>4, <2>1, <2>8, <2>9, <2>10, StaysAside DEF Driving, At
<1> QED BY <1>5, <1>6

LEMMA ResumeReadKeeps ==
    ASSUME WfInv, NEW c \in WfCalls, ResumeRead(c) PROVE WfInv'
<1> DEFINE w == wfCall[c].run
           q == IF RunOf(c).awaiting # 0 THEN "check" ELSE "resume"
           r == [wfCall[c] EXCEPT !.pc = q, !.appr = RunOf(c).awaiting, !.done = RunOf(c).done,
                                  !.step = RunOf(c).current]
<1>1. At(c, "readRun") /\ RowsStay /\ w \in WfRuns
    BY CallFacts DEF ResumeRead, RowsStay
<1>2. CASE RunOf(c).status \in {"AWAITING_APPROVAL", "SLEEPING"} /\ Become(c, r) /\ UNCHANGED tooEarly
    <2>0. RunOf(c) \in RunRow /\ RunOf(c) = wfRun[w]
        BY <1>1 DEF WfInv, WfTypes, RunOf
    <2>1. RunOf(c).awaiting \in Approvals \union {0} /\ RunOf(c).done \in SUBSET WfSteps
              /\ RunOf(c).current \in WfSteps \union {0}
        BY <2>0 DEF RunRow
    <2>2. q \in WfPcs
        BY DEF WfPcs
    <2> HIDE DEF q
    <2>3. r \in WfCallRow
        BY <2>1, <2>2, CallFacts DEF WfCallRow
    <2>4. wfCall'[c] = r
        BY <1>2, <2>3, CallFacts, OneCallMoves
    <2>5. /\ wfCall'[c].pc = q /\ wfCall'[c].run = w /\ wfCall'[c].appr = wfRun[w].awaiting
          /\ wfCall'[c].done = wfRun[w].done /\ wfCall'[c].step = wfRun[w].current
        BY <2>0, <2>4, CallFacts DEF WfCallRow
    <2>6. \/ q = "check" /\ wfRun[w].awaiting # 0
          \/ q = "resume" /\ wfRun[w].awaiting = 0
        BY <2>0 DEF q
    <2> HIDE DEF r
    <2>7. Moves(c)
        BY <1>1, <1>2, <2>3, <2>4 DEF Moves, WfInv, WfTypes, r
    <2>8. StepInHand(c)'
        BY <2>5, <2>6 DEF StepInHand, At
    <2>9. NamesExist(c)'
        BY <1>1, <2>5, <2>6, CallFacts DEF CallHolds, NamesExist, At, RowsStay, Exists, Carrying, Driving,
                                           RunHolds, RunNames, MadeFor
    <2>10. ContextGranted(c)'
        BY <1>1, <2>5, <2>6, CallFacts DEF ContextGranted, At, RowsStay, GrantedIn, Carrying, Driving,
                                           RunHolds, RunNames, RunApproved, MadeFor
    <2>11. ReadHolds(c)'
        BY <1>1, <2>5, <2>6 DEF ReadHolds, RunOf, RowsStay
    <2>12. ASSUME w \notin overlapped PROVE ToComeUntried(c)'
        <3>1. UntriedOutside(w, wfRun[w].done \union {wfRun[w].current})
            BY <1>2, <2>0, <2>12, CallFacts DEF RunHolds, RunBudget
        <3> QED BY <1>1, <2>5, <2>6, <3>1 DEF ToComeUntried, UntriedOutside, Untried, RowsStay
    <2>13. CallHolds(c)'
        BY <1>1, <2>5, <2>8, <2>9, <2>10, <2>11, <2>12 DEF CallHolds, RowsStay
    <2>14. w \in overlapped \/ \A d \in WfCalls : ~DrivenBy(d, w)
        BY <1>1, <1>2, <2>0 DEF WfInv, WfRelations, OneDriver
    <2>15. \A v \in WfRuns : Resuming(c, v) \/ Approving(c, v) => v = w
        BY <1>1 DEF Resuming, Approving, At
    <2>16. Resuming(c, w)'
        BY <2>5, <2>6 DEF Resuming, At
    <2> QED BY <1>1, <2>5, <2>6, <2>7, <2>13, <2>14, <2>15, <2>16, StaysAside DEF Driving, At, RowsStay
<1>3. CASE /\ RunOf(c).status \notin {"AWAITING_APPROVAL", "SLEEPING"} /\ GoOn(c, "thrown")
           /\ tooEarly' = IF wfCall[c].op = "approve" THEN tooEarly \union {w} ELSE tooEarly
    <2>1. "thrown" \in WfPcs
        BY DEF WfPcs
    <2>2. LET m == wfCall[c]  n == wfCall'[c] IN
          n \in WfCallRow /\ Become(c, n) /\ n.pc = "thrown" /\ n.run = m.run /\ n.appr = m.appr
        BY <1>3, <2>1, CallFacts, GoesOn
    <2>3. Moves(c)
        BY <1>1, <1>3, <2>2 DEF Moves, WfInv, WfTypes
    <2>4. wfCall'[c].appr # 0 => approval'[wfCall'[c].appr].status # "none"
        BY <1>1, <2>2, CallFacts DEF RowsStay
    <2>5. CallHolds(c)'
        BY <2>2, <2>4, RestHolds
    <2>6. \A v \in WfRuns : Resuming(c, v) \/ Approving(c, v) => v \in tooEarly'
        BY <1>1, <1>3 DEF Resuming, Approving, At
    <2> QED BY <1>1, <2>2, <2>3, <2>5, <2>6, StaysAside DEF Driving, At
<1> QED BY <1>2, <1>3 DEF ResumeRead

-----------------------------------------------------------------------------
(* The steps that write the row of a run                                    *)

LEMMA AllowedGrows ==
    ASSUME NEW n \in Nat
    PROVE  /\ Allowed(n) \in Nat /\ Allowed(n + 1) = Allowed(n) + (WfRetries + 1)
           /\ Allowed(0) = 0
<1> DEFINE k == WfRetries + 1
<1>1. k \in Nat
    BY WorkflowAssumption
<1> HIDE DEF k
<1>2. k * n \in Nat /\ k * (n + 1) = k * n + k /\ k * 0 = 0
    BY <1>1
<1> QED BY <1>2 DEF Allowed, k

\* What has to be shown of a step that writes the row of the run of the call.
LEMMA RunWrites ==
    ASSUME WfInv, NEW c \in WfCalls, NEW w \in WfRuns, NEW row \in RunRow, row.status # "none",
           wfRun' = [wfRun EXCEPT ![w] = row],
           wfCall'[c] \in WfCallRow, Become(c, wfCall'[c]),
           UNCHANGED <<approval, deadLetter, effects, asked, granted, tooEarly>>,
           overlapped \subseteq overlapped', overlapped' \subseteq WfRuns,
           \/ w \in overlapped'
           \/ Untouched(w)
           \/ \A d \in WfCalls \ {c} : ~Engaged(d, w),
           CallHolds(c)', RunHolds(w)', WfRelations'
    PROVE  WfInv'
<1>0. /\ wfCall' \in [WfCalls -> WfCallRow]
      /\ \A d \in WfCalls \ {c} : wfCall'[d] = wfCall[d]
    BY OneCallMoves DEF WfInv, WfTypes
<1>1. wfRun' \in [WfRuns -> RunRow] /\ wfRun'[w] = row /\ \A v \in WfRuns \ {w} : wfRun'[v] = wfRun[v]
    BY DEF WfInv, WfTypes
<1>2. WfTypes'
    BY <1>0, <1>1 DEF WfInv, WfTypes, Raised
<1>3. WfMonotone
    BY <1>1 DEF WfMonotone, Exists
<1>4. RequestsHold'
    BY <1>3 DEF WfInv, RequestsHold, WfTypes, ApprovalRow, WfMonotone
<1>5. \A v \in WfRuns \ {w} : Untouched(v) /\ wfRun'[v].status = wfRun[v].status
    BY <1>1 DEF Untouched
<1>6. \A d \in WfCalls : wfCall[d].run \in WfRuns
    BY CallFacts
<1>7. OthersAside(c)
    BY <1>0, <1>5, <1>6 DEF OthersAside
<1>8. \A v \in WfRuns \ {w} : RunHolds(v)'
    BY <1>3, <1>5, RunUntouched DEF WfInv
<1> QED BY <1>2, <1>3, <1>4, <1>7, <1>8, StepKeeps DEF WfInv

\* A call sets a run going.
LEMMA DriverEnters ==
    ASSUME WfInv, NEW c \in WfCalls, NEW w \in WfRuns, NEW row \in RunRow, row.status = "RUNNING",
           wfRun' = [wfRun EXCEPT ![w] = row],
           wfCall'[c] \in WfCallRow, Become(c, wfCall'[c]), wfCall'[c].pc = "step", wfCall'[c].run = w,
           UNCHANGED <<approval, deadLetter, effects, asked, granted, tooEarly>>, NoteDriver(c, w),
           wfCall[c].pc \in {"create", "resume", "retryWrite"}, wfCall[c].pc # "create" => wfCall[c].run = w,
           CallHolds(c)', RunHolds(w)'
    PROVE  WfInv'
<1>0. \A d \in WfCalls \ {c} : wfCall'[d] = wfCall[d]
    BY OneCallMoves DEF WfInv, WfTypes
<1>1. wfRun' \in [WfRuns -> RunRow] /\ wfRun'[w] = row /\ \A v \in WfRuns \ {w} : wfRun'[v] = wfRun[v]
    BY DEF WfInv, WfTypes
<1>2. /\ overlapped \subseteq overlapped' /\ overlapped' \subseteq WfRuns
      /\ w \in overlapped' \/ \A d \in WfCalls \ {c} : ~Engaged(d, w)
    BY DEF NoteDriver, WfInv, WfTypes
<1>3. DrivenBy(c, w)' /\ \A v \in WfRuns \ {w} : ~Engaged(c, v)' /\ ~Resuming(c, v) /\ ~Approving(c, v)
    BY DEF DrivenBy, Engaged, Driving, Resuming, Approving, At
<1>4. \A d \in WfCalls \ {c}, v \in WfRuns :
          /\ Engaged(d, v)' <=> Engaged(d, v)
          /\ DrivenBy(d, v)' <=> DrivenBy(d, v)
          /\ Resuming(d, v)' <=> Resuming(d, v)
          /\ Approving(d, v)' <=> Approving(d, v)
          /\ SuspendsAt(d, v)' <=> SuspendsAt(d, v)
    BY <1>0 DEF DrivenBy, Engaged, Resuming, Approving, SuspendsAt, At, Given
<1>5. \A d \in WfCalls, v \in WfRuns : DrivenBy(d, v) => Engaged(d, v)
    BY DEF DrivenBy, Engaged
<1>6. RunningIsDriven'
    <2> SUFFICES ASSUME NEW v \in WfRuns, wfRun'[v].status = "RUNNING"
                 PROVE  \E d \in WfCalls : DrivenBy(d, v)'
        BY DEF RunningIsDriven
    <2>1. CASE v = w
        BY <1>3, <2>1
    <2>2. CASE v # w
        <3>1. PICK d \in WfCalls : DrivenBy(d, v)
            BY <1>1, <2>2 DEF WfInv, WfRelations, RunningIsDriven
        <3>2. d # c
            BY <3>1 DEF DrivenBy, Driving
        <3> QED BY <1>4, <3>1, <3>2
    <2> QED BY <2>1, <2>2
<1>7. OneDriver'
    <2> SUFFICES ASSUME NEW v \in WfRuns \ overlapped', NEW d \in WfCalls, DrivenBy(d, v)'
                 PROVE  /\ wfRun'[v].status \in {"RUNNING", "CANCELLED"}
                        /\ \A e \in WfCalls \ {d} : ~Engaged(e, v)'
        BY DEF OneDriver
    <2>1. CASE v = w
        <3>1. d = c
            BY <1>2, <1>4, <1>5, <2>1
        <3> QED BY <1>1, <1>2, <1>4, <2>1, <3>1
    <2>2. CASE v # w
        <3>1. d # c
            BY <2>2 DEF DrivenBy
        <3>2. DrivenBy(d, v) /\ v \notin overlapped
            BY <1>2, <1>4, <3>1
        <3>3. wfRun[v].status \in {"RUNNING", "CANCELLED"} /\ \A e \in WfCalls \ {d} : ~Engaged(e, v)
            BY <3>2 DEF WfInv, WfRelations, OneDriver
        <3> QED BY <1>1, <1>3, <1>4, <2>2, <3>3
    <2> QED BY <2>1, <2>2
<1>8. ResumeComes'
    <2> SUFFICES ASSUME NEW v \in WfRuns \ (tooEarly' \union overlapped')
                 PROVE  /\ wfRun'[v].status = "AWAITING_APPROVAL" /\ Given(wfRun[v].awaiting)'
                              => \E d \in WfCalls : Resuming(d, v)'
                        /\ (\E d \in WfCalls : SuspendsAt(d, v)') => \E d \in WfCalls : Approving(d, v)'
        BY DEF ResumeComes
    <2>1. v \in WfRuns \ (tooEarly \union overlapped)
        BY <1>2
    <2>2. ~SuspendsAt(c, v)'
        BY DEF SuspendsAt, At
    <2>3. CASE v = w
        <3>1. \A d \in WfCalls : ~SuspendsAt(d, v)'
            BY <1>2, <1>4, <1>5, <2>2, <2>3 DEF SuspendsAt, DrivenBy, At, Driving
        <3> QED BY <1>1, <2>3, <3>1
    <2>4. CASE v # w
        <3>1. ASSUME wfRun'[v].status = "AWAITING_APPROVAL", Given(wfRun[v].awaiting)'
              PROVE  \E d \in WfCalls : Resuming(d, v)'
            <4>1. wfRun[v].status = "AWAITING_APPROVAL" /\ Given(wfRun[v].awaiting)
                BY <1>1, <2>4, <3>1 DEF Given
            <4>2. PICK d \in WfCalls : Resuming(d, v)
                BY <2>1, <4>1 DEF WfInv, WfRelations, ResumeComes
            <4> QED BY <1>3, <1>4, <2>4, <4>2
        <3>2. ASSUME NEW d \in WfCalls, SuspendsAt(d, v)'
              PROVE  \E e \in WfCalls : Approving(e, v)'
            <4>1. SuspendsAt(d, v)
                BY <1>4, <2>2, <3>2
            <4>2. PICK e \in WfCalls : Approving(e, v)
                BY <2>1, <4>1 DEF WfInv, WfRelations, ResumeComes
            <4> QED BY <1>3, <1>4, <2>4, <4>2
        <3> QED BY <3>1, <3>2
    <2> QED BY <2>3, <2>4
<1> QED BY <1>2, <1>6, <1>7, <1>8, RunWrites DEF WfRelations

\* A call leaves its run, with what the row now says.
LEMMA DriverLeaves ==
    ASSUME WfInv, NEW c \in WfCalls, NEW w \in WfRuns, w = wfCall[c].run, NEW row \in RunRow, row.status \notin {"none", "RUNNING"},
           wfCall[c].pc \in Driving, WriteRun(c, row), NEW p \in {"done", "bury"}, GoOn(c, p),
           UNCHANGED <<approval, deadLetter, effects, asked, granted, overlapped, tooEarly>>,
           RunHolds(w)',
           row.status = "AWAITING_APPROVAL" => At(c, "suspend") /\ row.awaiting = wfCall[c].appr /\ wfCall[c].appr # 0
    PROVE  WfInv'
<1>0. p \in WfPcs
    BY DEF WfPcs
<1>1. LET m == wfCall[c]  n == wfCall'[c] IN
      n \in WfCallRow /\ Become(c, n) /\ n.pc = p /\ n.run = m.run /\ n.appr = m.appr
    BY <1>0, CallFacts, GoesOn
<1>2. \A d \in WfCalls \ {c} : wfCall'[d] = wfCall[d]
    BY <1>1, OneCallMoves DEF WfInv, WfTypes
<1>3. wfCall'[c].appr # 0 => approval'[wfCall'[c].appr].status # "none"
    BY <1>1, CallFacts
<1>4. CallHolds(c)'
    BY <1>1, <1>3, RestHolds
<1>5. w \in WfRuns /\ wfRun' = [wfRun EXCEPT ![w] = row]
    BY CallFacts DEF WriteRun
<1>6. wfRun' \in [WfRuns -> RunRow] /\ wfRun'[w] = row /\ \A v \in WfRuns \ {w} : wfRun'[v] = wfRun[v]
    BY <1>5 DEF WfInv, WfTypes
<1>7. DrivenBy(c, w) /\ \A v \in WfRuns : ~Resuming(c, v) /\ ~Approving(c, v) /\ ~DrivenBy(c, v)' /\ ~Engaged(c, v)'
    BY <1>1 DEF DrivenBy, Engaged, Driving, Resuming, Approving, At
<1>8. \A d \in WfCalls \ {c}, v \in WfRuns :
          /\ Engaged(d, v)' <=> Engaged(d, v)
          /\ DrivenBy(d, v)' <=> DrivenBy(d, v)
          /\ Resuming(d, v)' <=> Resuming(d, v)
          /\ Approving(d, v)' <=> Approving(d, v)
          /\ SuspendsAt(d, v)' <=> SuspendsAt(d, v)
    BY <1>2 DEF DrivenBy, Engaged, Resuming, Approving, SuspendsAt, At, Given
<1>9. w \in overlapped \/ \A d \in WfCalls \ {c} : ~Engaged(d, w)
    BY <1>5, <1>7 DEF WfInv, WfRelations, OneDriver
<1>10. RunningIsDriven'
    <2> SUFFICES ASSUME NEW v \in WfRuns, wfRun'[v].status = "RUNNING"
                 PROVE  \E d \in WfCalls : DrivenBy(d, v)'
        BY DEF RunningIsDriven
    <2>1. v # w
        BY <1>6
    <2>2. PICK d \in WfCalls : DrivenBy(d, v)
        BY <1>6, <2>1 DEF WfInv, WfRelations, RunningIsDriven
    <2>3. d # c
        BY <2>1, <2>2 DEF DrivenBy
    <2> QED BY <1>8, <2>2, <2>3
<1>11. OneDriver'
    <2> SUFFICES ASSUME NEW v \in WfRuns \ overlapped', NEW d \in WfCalls, DrivenBy(d, v)'
                 PROVE  /\ wfRun'[v].status \in {"RUNNING", "CANCELLED"}
                        /\ \A e \in WfCalls \ {d} : ~Engaged(e, v)'
        BY DEF OneDriver
    <2>1. d # c
        BY <1>7
    <2>2. DrivenBy(d, v)
        BY <1>8, <2>1
    <2>3. Engaged(d, v)
        BY <2>2 DEF DrivenBy, Engaged
    <2>4. v # w
        BY <1>9, <2>1, <2>3
    <2>5. wfRun[v].status \in {"RUNNING", "CANCELLED"} /\ \A e \in WfCalls \ {d} : ~Engaged(e, v)
        BY <2>2 DEF WfInv, WfRelations, OneDriver
    <2> QED BY <1>6, <1>7, <1>8, <2>4, <2>5
<1>12. ResumeComes'
    <2> SUFFICES ASSUME NEW v \in WfRuns \ (tooEarly' \union overlapped')
                 PROVE  /\ wfRun'[v].status = "AWAITING_APPROVAL" /\ Given(wfRun[v].awaiting)'
                              => \E d \in WfCalls : Resuming(d, v)'
                        /\ (\E d \in WfCalls : SuspendsAt(d, v)') => \E d \in WfCalls : Approving(d, v)'
        BY DEF ResumeComes
    <2>1. v \in WfRuns \ (tooEarly \union overlapped)
        OBVIOUS
    <2>2. ASSUME wfRun'[v].status = "AWAITING_APPROVAL", Given(wfRun[v].awaiting)'
          PROVE  \E d \in WfCalls : Resuming(d, v)'
        <3>1. CASE v = w
            <4>1. SuspendsAt(c, w)
                BY <1>6, <2>2, <3>1 DEF SuspendsAt, Given
            <4>2. PICK d \in WfCalls : Approving(d, v)
                BY <2>1, <3>1, <4>1 DEF WfInv, WfRelations, ResumeComes
            <4>3. d # c /\ Resuming(d, v)
                BY <1>7, <2>1, <4>2 DEF Resuming
            <4> QED BY <1>8, <2>1, <4>3
        <3>2. CASE v # w
            <4>1. wfRun[v].status = "AWAITING_APPROVAL" /\ Given(wfRun[v].awaiting)
                BY <1>6, <2>2, <3>2 DEF Given
            <4>2. PICK d \in WfCalls : Resuming(d, v)
                BY <2>1, <4>1 DEF WfInv, WfRelations, ResumeComes
            <4> QED BY <1>7, <1>8, <4>2
        <3> QED BY <3>1, <3>2
    <2>3. ASSUME NEW d \in WfCalls, SuspendsAt(d, v)'
          PROVE  \E e \in WfCalls : Approving(e, v)'
        <3>1. d # c
            BY <1>1, <2>3 DEF SuspendsAt, At
        <3>2. PICK e \in WfCalls : Approving(e, v)
            BY <1>8, <2>1, <2>3, <3>1 DEF WfInv, WfRelations, ResumeComes
        <3> QED BY <1>7, <1>8, <3>2
    <2> QED BY <2>2, <2>3
<1> QED BY <1>1, <1>4, <1>5, <1>9, <1>10, <1>11, <1>12, RunWrites DEF WfRelations, WfInv, WfTypes

LEMMA StartCreateKeeps ==
    ASSUME WfInv, NEW c \in WfCalls, StartCreate(c) PROVE WfInv'
<1>1. At(c, "create") /\ UNCHANGED <<approval, deadLetter, effects, asked, granted, tooEarly>>
    BY DEF StartCreate
<1>2. CASE GoOn(c, "thrown") /\ UNCHANGED <<wfRun, overlapped>>
    BY <1>1, <1>2, IndifferentGoesOn DEF RowsStay, Indifferent, At, Driving
<1>3. ASSUME NEW w \in WfRuns, ~Exists(w), NoteDriver(c, w),
             wfRun' = [wfRun EXCEPT ![w] = [NoRow EXCEPT !.status = "RUNNING", !.key = wfCall[c].key]],
             Become(c, [wfCall[c] EXCEPT !.pc = "step", !.run = w])
      PROVE  WfInv'
    <2> DEFINE row == [NoRow EXCEPT !.status = "RUNNING", !.key = wfCall[c].key]
               r == [wfCall[c] EXCEPT !.pc = "step", !.run = w]
    <2>1. wfCall[c].key \in Keys \union {NoKey}
        BY CallFacts DEF WfCallRow
    <2>2. /\ row \in RunRow /\ row.status = "RUNNING" /\ row.attempts = 1 /\ row.done = {}
          /\ row.awaiting = 0 /\ row.current = 0
        BY <2>1 DEF NoRow, RunRow, RunStatus
    <2>3. wfRun' = [wfRun EXCEPT ![w] = row]
        BY <1>3
    <2> HIDE DEF row
    <2>4. wfRun'[w] = row
        BY <2>3 DEF WfInv, WfTypes
    <2>5. r \in WfCallRow
        BY ZenonT(60), CallFacts DEF WfCallRow, WfPcs
    <2>6. wfCall'[c] = r
        BY <1>3, <2>5, CallFacts, OneCallMoves
    <2>7. wfCall'[c].pc = "step" /\ wfCall'[c].run = w /\ wfCall'[c].appr = wfCall[c].appr /\ wfCall'[c].done = {}
        BY <1>1, <2>6, CallFacts DEF WfCallRow, CallHolds, ContextGranted, At
    <2>8. RunHolds(w) /\ \A s \in WfSteps : effects[w][s] = 0 /\ asked[w][s] = 0
        BY <1>3 DEF WfInv, RunHolds, RunBudget, Exists
    <2>9. Allowed(wfRun'[w].attempts - 1) = 0 /\ Allowed(wfRun'[w].attempts) >= 0
        BY <2>2, <2>4, AllowedGrows
    <2>10. \A s \in WfSteps : effects'[w][s] <= Allowed(wfRun'[w].attempts - 1) /\ asked'[w][s] <= wfRun'[w].attempts - 1
        BY <1>1, <2>2, <2>4, <2>8, <2>9
    <2>11. StepInHand(c)' /\ ReadHolds(c)' /\ ContextGranted(c)'
        BY <2>7 DEF StepInHand, ReadHolds, ContextGranted, At, GrantedIn
    <2>12. NamesExist(c)'
        BY <1>1, <2>2, <2>4, <2>7, CallFacts DEF NamesExist, Exists, At
    <2>13. ToComeUntried(c)'
        BY <2>7, <2>10 DEF ToComeUntried, UntriedOutside, Untried
    <2>14. CallHolds(c)'
        BY <2>11, <2>12, <2>13 DEF CallHolds
    <2>15. RunNames(w)'
        BY <2>2, <2>4, WorkflowAssumption DEF RunNames, MadeFor, Needs, WfSteps
    <2>16. RunApproved(w)'
        BY <1>1, <2>2, <2>4, <2>8 DEF RunApproved, GrantedIn
    <2>17. RunBudget(w)'
        BY <1>1, <2>2, <2>4, <2>8, <2>9 DEF RunBudget
    <2>18. RunHolds(w)'
        BY <2>15, <2>16, <2>17 DEF RunHolds
    <2>19. wfCall'[c] \in WfCallRow /\ Become(c, wfCall'[c])
        BY <1>3, <2>5, <2>6
    <2> HIDE DEF r
    <2> QED BY <1>1, <1>3, <2>2, <2>3, <2>7, <2>14, <2>18, <2>19, DriverEnters DEF At
<1> QED BY <1>1, <1>2, <1>3 DEF StartCreate

LEMMA ResumeWriteKeeps ==
    ASSUME WfInv, NEW c \in WfCalls, ResumeWrite(c) PROVE WfInv'
<1>0. PICK w \in WfRuns : w = wfCall[c].run
    BY CallFacts
<1> USE <1>0
<1> DEFINE D == SettledBy(wfCall[c].done, wfCall[c].step)
           row == [wfRun[w] EXCEPT !.status = "RUNNING", !.awaiting = 0, !.current = 0, !.done = D]
           r == [wfCall[c] EXCEPT !.pc = "step", !.done = D]
<1>1. /\ At(c, "resume") /\ UNCHANGED <<approval, deadLetter, effects, asked, granted, tooEarly>>
      /\ wfRun' = [wfRun EXCEPT ![w] = row] /\ Become(c, r) /\ NoteDriver(c, w)
    BY DEF ResumeWrite, WriteRun, RunOf
<1>2. w \in WfRuns /\ wfRun[w] \in RunRow /\ RunHolds(w)
    BY CallFacts DEF WfInv, WfTypes
<1>3. D \in SUBSET WfSteps /\ D \subseteq wfCall[c].done \union {wfCall[c].step}
          /\ \A s \in WfSteps \ D : s \notin wfCall[c].done \union {wfCall[c].step}
    BY CallFacts, WorkflowAssumption DEF WfCallRow, SettledBy, WfSteps
<1> HIDE DEF D
<1>4. /\ row \in RunRow /\ row.status = "RUNNING" /\ row.attempts = wfRun[w].attempts /\ row.done = D
      /\ row.awaiting = 0 /\ row.current = 0
    BY <1>2, <1>3 DEF RunRow, RunStatus
<1>5. r \in WfCallRow /\ r.pc = "step" /\ r.run = w /\ r.appr = wfCall[c].appr /\ r.done = D
    BY ZenonT(60), <1>3, CallFacts DEF WfCallRow, WfPcs
<1> HIDE DEF row, r
<1>6. wfRun'[w] = row
    BY <1>1, <1>2 DEF WfInv, WfTypes
<1>7. wfCall'[c] = r
    BY <1>1, <1>5, CallFacts, OneCallMoves
<1>8. GrantedIn(w, wfCall[c].done) /\ GrantedIn(w, {wfCall[c].step})
    BY <1>1, CallFacts DEF CallHolds, ContextGranted, Carrying, At
<1>9. \A s \in D : Needs(s) => <<w, s>> \in granted
    BY <1>3, <1>8 DEF GrantedIn
<1>10. StepInHand(c)' /\ ReadHolds(c)'
    BY <1>5, <1>7 DEF StepInHand, ReadHolds, At
<1>11. ContextGranted(c)'
    BY <1>1, <1>5, <1>7, <1>9 DEF ContextGranted, At, GrantedIn
<1>12. NamesExist(c)'
    BY <1>1, <1>4, <1>5, <1>6, <1>7, CallFacts DEF NamesExist, Exists, At
<1>13. ASSUME w \notin overlapped
       PROVE  \A s \in WfSteps \ D : effects[w][s] <= Allowed(wfRun[w].attempts - 1) /\ asked[w][s] <= wfRun[w].attempts - 1
    BY <1>1, <1>3, <1>13, CallFacts DEF CallHolds, ToComeUntried, UntriedOutside, Untried, At
<1>14. overlapped \subseteq overlapped'
    BY <1>1 DEF NoteDriver
<1>15. ASSUME w \notin overlapped' PROVE ToComeUntried(c)'
    BY <1>1, <1>4, <1>5, <1>6, <1>7, <1>13, <1>14, <1>15 DEF ToComeUntried, UntriedOutside, Untried
<1>16. CallHolds(c)'
    BY <1>5, <1>7, <1>10, <1>11, <1>12, <1>15 DEF CallHolds
<1>17. RunNames(w)'
    BY <1>4, <1>6, WorkflowAssumption DEF RunNames, MadeFor, Needs, WfSteps
<1>18. RunApproved(w)'
    BY <1>1, <1>2, <1>4, <1>6, <1>9 DEF RunApproved, GrantedIn, RunHolds
<1>19. RunBudget(w)'
    BY <1>1, <1>2, <1>4, <1>6, <1>14 DEF RunBudget, RunHolds
<1>20. RunHolds(w)'
    BY <1>17, <1>18, <1>19 DEF RunHolds
<1> QED BY <1>1, <1>2, <1>4, <1>5, <1>7, <1>16, <1>20, DriverEnters DEF At

LEMMA RunRetryWriteKeeps ==
    ASSUME WfInv, NEW c \in WfCalls, RunRetryWrite(c) PROVE WfInv'
<1>0. PICK w \in WfRuns : w = wfCall[c].run
    BY CallFacts
<1> USE <1>0
<1> DEFINE n == wfCall[c].attempts
           k == n + 1
           row == [wfRun[w] EXCEPT !.status = "RUNNING", !.attempts = k, !.done = {}]
           r == [wfCall[c] EXCEPT !.pc = "step", !.done = {}]
<1>1. /\ At(c, "retryWrite") /\ UNCHANGED <<approval, deadLetter, effects, asked, granted, tooEarly>>
      /\ wfRun' = [wfRun EXCEPT ![w] = row] /\ Become(c, r) /\ NoteDriver(c, w)
    BY DEF RunRetryWrite, WriteRun, RunOf
<1>2. w \in WfRuns /\ wfRun[w] \in RunRow /\ RunHolds(w) /\ n \in Nat
    BY CallFacts DEF WfInv, WfTypes, WfCallRow
<1>21. k \in Nat
    BY <1>2
<1> HIDE DEF k
<1>3. /\ row \in RunRow /\ row.status = "RUNNING" /\ row.attempts = k /\ row.done = {}
      /\ row.awaiting = wfRun[w].awaiting /\ row.current = wfRun[w].current
    BY <1>2, <1>21 DEF RunRow, RunStatus
<1>4. r \in WfCallRow /\ r.pc = "step" /\ r.run = w /\ r.appr = wfCall[c].appr /\ r.done = {}
    BY ZenonT(60), CallFacts DEF WfCallRow, WfPcs
<1> HIDE DEF row, r
<1>5. wfRun'[w] = row
    BY <1>1, <1>2 DEF WfInv, WfTypes
<1>6. wfCall'[c] = r
    BY <1>1, <1>4, CallFacts, OneCallMoves
<1>7. StepInHand(c)' /\ ReadHolds(c)' /\ ContextGranted(c)'
    BY <1>4, <1>6 DEF StepInHand, ReadHolds, ContextGranted, At, GrantedIn
<1>8. NamesExist(c)'
    BY <1>1, <1>3, <1>4, <1>5, <1>6, CallFacts DEF NamesExist, Exists, At
<1>9. overlapped \subseteq overlapped'
    BY <1>1 DEF NoteDriver
<1>10. ASSUME w \notin overlapped'
       PROVE  /\ \A s \in WfSteps : effects[w][s] <= Allowed(n) /\ asked[w][s] <= n
              /\ Allowed(n) \in Nat /\ Allowed(n + 1) \in Nat /\ Allowed(n) <= Allowed(n + 1)
    <2>1. n = wfRun[w].attempts
        BY <1>1, <1>9, <1>10, CallFacts DEF CallHolds, ReadHolds, At, RunOf
    <2>2. Allowed(n) \in Nat /\ Allowed(n + 1) \in Nat /\ Allowed(n + 1) = Allowed(n) + (WfRetries + 1)
        BY <1>2, AllowedGrows
    <2> QED BY <1>2, <1>9, <1>10, <2>1, <2>2, WorkflowAssumption DEF RunHolds, RunBudget
<1>11. \A s \in WfSteps : effects[w][s] \in Nat /\ asked[w][s] \in Nat
    BY <1>2 DEF WfInv, WfTypes
<1>12. wfRun'[w].attempts - 1 = n
    BY <1>2, <1>3, <1>5 DEF k
<1>13. ASSUME w \notin overlapped' PROVE ToComeUntried(c)'
    BY <1>1, <1>4, <1>6, <1>10, <1>12, <1>13 DEF ToComeUntried, UntriedOutside, Untried
<1>14. CallHolds(c)'
    BY <1>4, <1>6, <1>7, <1>8, <1>13 DEF CallHolds
<1>15. RunNames(w)'
    BY <1>1, <1>2, <1>3, <1>5 DEF RunHolds, RunNames, MadeFor
<1>16. RunApproved(w)'
    BY <1>1, <1>2, <1>3, <1>5 DEF RunApproved, GrantedIn, RunHolds
<1>17. ASSUME w \notin overlapped'
       PROVE  \A s \in WfSteps : effects'[w][s] <= Allowed(wfRun'[w].attempts) /\ asked'[w][s] <= wfRun'[w].attempts
    BY <1>1, <1>2, <1>3, <1>5, <1>10, <1>11, <1>17 DEF k
<1>18. RunBudget(w)'
    BY <1>2, <1>3, <1>5, <1>17, <1>21 DEF RunBudget, k
<1>19. RunHolds(w)'
    BY <1>15, <1>16, <1>18 DEF RunHolds
<1> QED BY <1>1, <1>2, <1>3, <1>4, <1>6, <1>14, <1>19, DriverEnters DEF At

LEMMA SuspendKeeps ==
    ASSUME WfInv, NEW c \in WfCalls, Suspend(c) PROVE WfInv'
<1>0. PICK w \in WfRuns : w = wfCall[c].run
    BY CallFacts
<1> USE <1>0
<1> DEFINE m == wfCall[c]
           x == SuspendedStatus(m.appr)
           row == [wfRun[w] EXCEPT !.status = x, !.done = m.done, !.awaiting = m.appr, !.current = m.step]
<1>1. /\ At(c, "suspend") /\ GoOn(c, "done") /\ WriteRun(c, row)
      /\ UNCHANGED <<approval, deadLetter, effects, asked, granted, overlapped, tooEarly>>
    BY DEF Suspend, RunOf, Saved, wfHistory
<1>2. w \in WfRuns /\ wfRun[w] \in RunRow /\ RunHolds(w)
    BY CallFacts DEF WfInv, WfTypes
<1>3. x \in RunStatus \ {"none", "RUNNING"} /\ (x = "AWAITING_APPROVAL" <=> m.appr # 0)
    BY DEF SuspendedStatus, RunStatus
<1> HIDE DEF x
<1>4. /\ row \in RunRow /\ row.status = x /\ row.attempts = wfRun[w].attempts /\ row.done = m.done
      /\ row.awaiting = m.appr /\ row.current = m.step
    BY <1>2, <1>3, CallFacts DEF RunRow, WfCallRow
<1> HIDE DEF row
<1>5. wfRun'[w] = row
    BY <1>1, <1>2 DEF WfInv, WfTypes, WriteRun
<1>6. RunNames(w)'
    BY <1>1, <1>3, <1>4, <1>5, CallFacts DEF RunNames, CallHolds, NamesExist, StepInHand, MadeFor, At
<1>7. RunApproved(w)'
    BY <1>1, <1>2, <1>4, <1>5, CallFacts DEF RunApproved, GrantedIn, RunHolds, CallHolds, ContextGranted, At, Carrying, Driving
<1>8. ASSUME w \notin overlapped
      PROVE  \A s \in WfSteps \ (m.done \union {m.step}) :
                effects[w][s] <= Allowed(wfRun[w].attempts - 1) /\ asked[w][s] <= wfRun[w].attempts - 1
    BY <1>1, <1>8, CallFacts DEF CallHolds, ToComeUntried, UntriedOutside, Untried, At
<1>9. ASSUME w \notin overlapped
      PROVE  UntriedOutside(w, wfRun[w].done \union {wfRun[w].current})'
    <2>1. /\ wfRun'[w].done = m.done /\ wfRun'[w].current = m.step
          /\ wfRun'[w].attempts = wfRun[w].attempts
        BY <1>4, <1>5
    <2> QED BY <1>1, <1>8, <1>9, <2>1 DEF UntriedOutside, Untried
<1>10. RunBudget(w)'
    BY <1>1, <1>2, <1>3, <1>4, <1>5, <1>9 DEF RunBudget, RunHolds
<1>11. RunHolds(w)'
    BY <1>6, <1>7, <1>10 DEF RunHolds
<1> QED BY <1>1, <1>3, <1>4, <1>11, DriverLeaves DEF At, Driving

\* A row that takes over the context of the call, in a status nobody resumes.
LEMMA RowSettles ==
    ASSUME WfInv, NEW c \in WfCalls, NEW w \in WfRuns, w = wfCall[c].run, wfCall[c].pc \in Driving,
           wfRun'[w].status \notin {"none", "AWAITING_APPROVAL", "SLEEPING"},
           wfRun'[w].attempts = wfRun[w].attempts, wfRun'[w].done = wfCall[c].done,
           wfRun'[w].awaiting = wfRun[w].awaiting, wfRun'[w].current = wfRun[w].current,
           UNCHANGED <<approval, effects, asked, granted, overlapped>>
    PROVE  RunHolds(w)'
<1>1. RunHolds(w)
    BY DEF WfInv
<1>2. RunNames(w)'
    BY <1>1 DEF RunHolds, RunNames, MadeFor
<1>3. RunApproved(w)'
    BY <1>1, CallFacts DEF RunHolds, RunApproved, GrantedIn, CallHolds, ContextGranted, Carrying
<1>4. RunBudget(w)'
    BY <1>1 DEF RunHolds, RunBudget
<1> QED BY <1>2, <1>3, <1>4 DEF RunHolds

LEMMA FinishKeeps ==
    ASSUME WfInv, NEW c \in WfCalls, Finish(c) PROVE WfInv'
<1>0. PICK w \in WfRuns : w = wfCall[c].run
    BY CallFacts
<1> USE <1>0
<1> DEFINE row == [wfRun[w] EXCEPT !.status = "SUCCEEDED", !.done = wfCall[c].done]
<1>1. /\ At(c, "step") /\ GoOn(c, "done") /\ WriteRun(c, row)
      /\ UNCHANGED <<approval, deadLetter, effects, asked, granted, overlapped, tooEarly>>
    BY DEF Finish, RunOf, wfHistory
<1>2. wfRun[w] \in RunRow /\ RunHolds(w)
    BY CallFacts DEF WfInv, WfTypes
<1>3. /\ row \in RunRow /\ row.status = "SUCCEEDED" /\ row.attempts = wfRun[w].attempts /\ row.done = wfCall[c].done
      /\ row.awaiting = wfRun[w].awaiting /\ row.current = wfRun[w].current
    BY <1>2, CallFacts DEF RunRow, RunStatus
<1> HIDE DEF row
<1>4. wfRun'[w] = row
    BY <1>1, <1>2 DEF WfInv, WfTypes, WriteRun
<1>5. RunHolds(w)'
    BY <1>1, <1>2, <1>3, <1>4, CallFacts, RowSettles DEF At, Driving
<1> QED BY <1>1, <1>3, <1>5, DriverLeaves DEF At, Driving

LEMMA FailWriteKeeps ==
    ASSUME WfInv, NEW c \in WfCalls, FailWrite(c) PROVE WfInv'
<1>0. PICK w \in WfRuns : w = wfCall[c].run
    BY CallFacts
<1> USE <1>0
<1> DEFINE x == IF Exhausted(wfCall[c].attempts) THEN "DEAD_LETTERED" ELSE "FAILED"
           p == IF Exhausted(wfCall[c].attempts) THEN "bury" ELSE "done"
           row == [wfRun[w] EXCEPT !.status = x, !.done = wfCall[c].done]
<1>1. /\ At(c, "failWrite") /\ GoOn(c, p) /\ WriteRun(c, row)
      /\ UNCHANGED <<approval, deadLetter, effects, asked, granted, overlapped, tooEarly>>
    BY DEF FailWrite, RunOf, wfHistory
<1>2. wfRun[w] \in RunRow /\ RunHolds(w)
    BY CallFacts DEF WfInv, WfTypes
<1>3. x \in {"DEAD_LETTERED", "FAILED"} /\ p \in {"done", "bury"}
    OBVIOUS
<1> HIDE DEF x, p
<1>4. x \in RunStatus
    BY <1>3 DEF RunStatus
<1>5. /\ row \in RunRow /\ row.status = x /\ row.attempts = wfRun[w].attempts /\ row.done = wfCall[c].done
      /\ row.awaiting = wfRun[w].awaiting /\ row.current = wfRun[w].current
    BY <1>2, <1>4, CallFacts DEF RunRow
<1> HIDE DEF row
<1>6. wfRun'[w] = row
    BY <1>1, <1>2 DEF WfInv, WfTypes, WriteRun
<1>7. RunHolds(w)'
    BY <1>1, <1>2, <1>3, <1>5, <1>6, CallFacts, RowSettles DEF At, Driving
<1> QED BY <1>1, <1>3, <1>5, <1>7, DriverLeaves DEF At, Driving

LEMMA RunCancelWriteKeeps ==
    ASSUME WfInv, NEW c \in WfCalls, RunCancelWrite(c) PROVE WfInv'
<1>0. PICK w \in WfRuns : w = wfCall[c].run
    BY CallFacts
<1> USE <1>0
<1> DEFINE row == [wfRun[w] EXCEPT !.status = "CANCELLED"]
<1>1. /\ At(c, "cancelWrite") /\ GoOn(c, "done") /\ wfRun' = [wfRun EXCEPT ![w] = row]
      /\ UNCHANGED <<approval, deadLetter, effects, asked, granted, overlapped, tooEarly>>
    BY DEF RunCancelWrite, RunOf, WriteRun, wfHistory
<1>2. wfRun[w] \in RunRow /\ RunHolds(w)
    BY CallFacts DEF WfInv, WfTypes
<1>3. /\ row \in RunRow /\ row.status = "CANCELLED" /\ row.attempts = wfRun[w].attempts /\ row.done = wfRun[w].done
      /\ row.awaiting = wfRun[w].awaiting /\ row.current = wfRun[w].current
    BY <1>2 DEF RunRow, RunStatus
<1> HIDE DEF row
<1>4. wfRun'[w] = row /\ \A v \in WfRuns \ {w} : wfRun'[v] = wfRun[v]
    BY <1>1, <1>2 DEF WfInv, WfTypes
<1>5. "done" \in WfPcs
    BY DEF WfPcs
<1>6. LET m == wfCall[c]  n == wfCall'[c] IN
      n \in WfCallRow /\ Become(c, n) /\ n.pc = "done" /\ n.run = m.run /\ n.appr = m.appr
    BY <1>1, <1>5, CallFacts, GoesOn
<1>7. \A d \in WfCalls \ {c} : wfCall'[d] = wfCall[d]
    BY <1>6, OneCallMoves DEF WfInv, WfTypes
<1>8. wfCall'[c].appr # 0 => approval'[wfCall'[c].appr].status # "none"
    BY <1>1, <1>6, CallFacts
<1>9. CallHolds(c)'
    BY <1>6, <1>8, RestHolds
<1>10. Untouched(w)
    BY <1>1, <1>3, <1>4 DEF Untouched
<1>11. WfMonotone
    BY <1>1, <1>3, <1>4 DEF WfMonotone, Exists
<1>12. RunHolds(w)'
    BY <1>2, <1>3, <1>4, <1>10, <1>11, RunUntouched DEF WfInv
<1>13. \A v \in WfRuns : /\ ~Resuming(c, v) /\ ~Approving(c, v) /\ ~DrivenBy(c, v)
                        /\ ~DrivenBy(c, v)' /\ ~Engaged(c, v)' /\ ~SuspendsAt(c, v)'
    BY <1>1, <1>6 DEF DrivenBy, Engaged, Driving, Resuming, Approving, SuspendsAt, At
<1>14. \A d \in WfCalls \ {c}, v \in WfRuns :
          /\ Engaged(d, v)' <=> Engaged(d, v)
          /\ DrivenBy(d, v)' <=> DrivenBy(d, v)
          /\ Resuming(d, v)' <=> Resuming(d, v)
          /\ Approving(d, v)' <=> Approving(d, v)
          /\ SuspendsAt(d, v)' <=> SuspendsAt(d, v)
    BY <1>1, <1>7 DEF DrivenBy, Engaged, Resuming, Approving, SuspendsAt, At, Given
<1>15. RunningIsDriven'
    <2> SUFFICES ASSUME NEW v \in WfRuns, wfRun'[v].status = "RUNNING"
                 PROVE  \E d \in WfCalls : DrivenBy(d, v)'
        BY DEF RunningIsDriven
    <2>1. v # w
        BY <1>3, <1>4
    <2>2. PICK d \in WfCalls : DrivenBy(d, v)
        BY <1>4, <2>1 DEF WfInv, WfRelations, RunningIsDriven
    <2> QED BY <1>13, <1>14, <2>2
<1>16. OneDriver'
    <2> SUFFICES ASSUME NEW v \in WfRuns \ overlapped', NEW d \in WfCalls, DrivenBy(d, v)'
                 PROVE  /\ wfRun'[v].status \in {"RUNNING", "CANCELLED"}
                        /\ \A e \in WfCalls \ {d} : ~Engaged(e, v)'
        BY DEF OneDriver
    <2>1. v \in WfRuns \ overlapped /\ d # c /\ DrivenBy(d, v)
        BY <1>1, <1>13, <1>14
    <2>2. wfRun[v].status \in {"RUNNING", "CANCELLED"} /\ \A e \in WfCalls \ {d} : ~Engaged(e, v)
        BY <2>1 DEF WfInv, WfRelations, OneDriver
    <2> QED BY <1>3, <1>4, <1>13, <1>14, <2>2
<1>17. ResumeComes'
    <2> SUFFICES ASSUME NEW v \in WfRuns \ (tooEarly' \union overlapped')
                 PROVE  /\ wfRun'[v].status = "AWAITING_APPROVAL" /\ Given(wfRun[v].awaiting)'
                              => \E d \in WfCalls : Resuming(d, v)'
                        /\ (\E d \in WfCalls : SuspendsAt(d, v)') => \E d \in WfCalls : Approving(d, v)'
        BY DEF ResumeComes
    <2>1. v \in WfRuns \ (tooEarly \union overlapped)
        BY <1>1
    <2>2. ASSUME wfRun'[v].status = "AWAITING_APPROVAL", Given(wfRun[v].awaiting)'
          PROVE  \E d \in WfCalls : Resuming(d, v)'
        <3>1. wfRun[v].status = "AWAITING_APPROVAL" /\ Given(wfRun[v].awaiting)
            BY <1>1, <1>3, <1>4, <2>2 DEF Given
        <3>2. PICK d \in WfCalls : Resuming(d, v)
            BY <2>1, <3>1 DEF WfInv, WfRelations, ResumeComes
        <3> QED BY <1>13, <1>14, <3>2
    <2>3. ASSUME NEW d \in WfCalls, SuspendsAt(d, v)'
          PROVE  \E e \in WfCalls : Approving(e, v)'
        <3>1. PICK e \in WfCalls : Approving(e, v)
            BY <1>13, <1>14, <2>1, <2>3 DEF WfInv, WfRelations, ResumeComes
        <3> QED BY <1>13, <1>14, <3>1
    <2> QED BY <2>2, <2>3
<1> QED BY <1>1, <1>3, <1>6, <1>9, <1>10, <1>12, <1>15, <1>16, <1>17, RunWrites DEF WfRelations, WfInv, WfTypes

LEMMA BuryKeeps ==
    ASSUME WfInv, NEW c \in WfCalls, Bury(c) PROVE WfInv'
<1>1. At(c, "bury") /\ GoOn(c, "done") /\ UNCHANGED <<wfRun, approval, effects, asked, granted, overlapped, tooEarly>>
    BY DEF Bury, wfHistory
<1>2. "done" \in WfPcs
    BY DEF WfPcs
<1>3. LET m == wfCall[c]  n == wfCall'[c] IN
      n \in WfCallRow /\ Become(c, n) /\ n.pc = "done" /\ n.run = m.run /\ n.appr = m.appr
    BY <1>1, <1>2, CallFacts, GoesOn
<1>4. wfCall' \in [WfCalls -> WfCallRow] /\ \A d \in WfCalls \ {c} : wfCall'[d] = wfCall[d]
    BY <1>3, OneCallMoves DEF WfInv, WfTypes
<1>5. deadLetter' \subseteq WfRuns
    BY CallFacts DEF Bury, WfInv, WfTypes
<1>6. WfTypes'
    BY <1>1, <1>4, <1>5 DEF WfInv, WfTypes, Raised
<1>7. WfMonotone /\ RequestsHold'
    BY <1>1 DEF WfInv, WfMonotone, RequestsHold, Exists
<1>8. \A v \in WfRuns : Untouched(v) /\ wfRun'[v].status = wfRun[v].status
    BY <1>1 DEF Untouched
<1>9. OthersAside(c)
    BY <1>4, <1>8, CallFacts DEF OthersAside
<1>10. \A w \in WfRuns : RunHolds(w)'
    BY <1>7, <1>8, RunUntouched DEF WfInv
<1>11. wfCall'[c].appr # 0 => approval'[wfCall'[c].appr].status # "none"
    BY <1>1, <1>3, CallFacts
<1>12. CallHolds(c)'
    BY <1>3, <1>11, RestHolds
<1>13. \A d \in WfCalls, v \in WfRuns :
          /\ Engaged(d, v)' <=> Engaged(d, v)
          /\ DrivenBy(d, v)' <=> DrivenBy(d, v)
          /\ Resuming(d, v)' <=> Resuming(d, v)
          /\ Approving(d, v)' <=> Approving(d, v)
          /\ SuspendsAt(d, v)' <=> SuspendsAt(d, v)
    BY <1>1, <1>3, <1>4 DEF DrivenBy, Engaged, Driving, Resuming, Approving, SuspendsAt, At, Given
<1>14. RunningIsDriven' /\ OneDriver'
    BY <1>1, <1>13 DEF WfInv, WfRelations, RunningIsDriven, OneDriver
<1>15. ResumeComes'
    BY <1>1, <1>13 DEF WfInv, WfRelations, ResumeComes, Given
<1> QED BY <1>6, <1>7, <1>9, <1>10, <1>12, <1>14, <1>15, StepKeeps DEF WfRelations

-----------------------------------------------------------------------------
(* The driving steps that execute something or ask for an approval          *)

LEMMA DriverActs ==
    ASSUME WfInv, NEW c \in WfCalls, NEW w \in WfRuns, w = wfCall[c].run,
           wfCall[c].pc \in Driving, wfCall'[c].pc \in Driving, wfCall'[c].run = w,
           wfCall'[c] \in WfCallRow, Become(c, wfCall'[c]),
           wfCall'[c].pc = "suspend" => approval'[wfCall'[c].appr].status # "APPROVED",
           UNCHANGED <<wfRun, deadLetter, granted, overlapped, tooEarly>>,
           effects' \in [WfRuns -> [WfSteps -> Nat]], asked' \in [WfRuns -> [WfSteps -> Nat]],
           \A v \in WfRuns \ {w} : effects'[v] = effects[v] /\ asked'[v] = asked[v],
           approval' \in [Approvals -> ApprovalRow], (\E n \in 0 .. MaxApprovals : Raised = 1 .. n)',
           \A a \in Approvals : approval[a].status # "none" => approval'[a] = approval[a],
           \A a \in Approvals : approval[a].status = "none" =>
                approval'[a].status # "APPROVED" /\ approval'[a].run \in WfRuns
                /\ (approval'[a].status # "none" => approval'[a].run = w),
           CallHolds(c)', RunHolds(w)'
    PROVE  WfInv'
<1>0. wfCall' \in [WfCalls -> WfCallRow] /\ \A d \in WfCalls \ {c} : wfCall'[d] = wfCall[d]
    BY OneCallMoves DEF WfInv, WfTypes
<1>1. WfTypes'
    BY <1>0 DEF WfInv, WfTypes
<1>2. WfMonotone
    BY DEF WfMonotone, Exists
<1>3. Exists(w)
    BY CallFacts DEF CallHolds, NamesExist, Carrying
<1>4. RequestsHold'
    <2> SUFFICES ASSUME NEW a \in Approvals
                 PROVE  /\ approval'[a].status = "APPROVED" => <<approval'[a].run, approval'[a].step>> \in granted'
                        /\ approval'[a].status # "none" => wfRun'[approval'[a].run].status # "none"
        BY DEF RequestsHold, Exists
    <2>1. CASE approval[a].status = "none"
        BY <1>3, <2>1 DEF Exists
    <2>2. CASE approval[a].status # "none"
        BY <2>2 DEF WfInv, RequestsHold, Exists
    <2> QED BY <2>1, <2>2
<1>5. w \in overlapped \/ \A d \in WfCalls \ {c} : ~Engaged(d, w)
    BY DEF WfInv, WfRelations, OneDriver, DrivenBy
<1>6. \A v \in WfRuns \ {w} : Untouched(v) /\ wfRun'[v].status = wfRun[v].status
    BY DEF Untouched
<1>7. OthersAside(c)
    BY <1>0, <1>5, <1>6, CallFacts DEF OthersAside
<1>8. \A v \in WfRuns \ {w} : RunHolds(v)'
    BY <1>2, <1>6, RunUntouched DEF WfInv
<1>9. \A d \in WfCalls, v \in WfRuns : (DrivenBy(d, v) <=> DrivenBy(d, v)') /\ (Engaged(d, v) <=> Engaged(d, v)')
    BY <1>0 DEF DrivenBy, Engaged
<1>10. RunningIsDriven' /\ OneDriver'
    BY <1>9 DEF WfInv, WfRelations, RunningIsDriven, OneDriver
<1>11. \A d \in WfCalls, v \in WfRuns : (Resuming(d, v) => Resuming(d, v)') /\ (Approving(d, v) => Approving(d, v)')
    BY <1>0 DEF Resuming, Approving, At, Driving
<1>12. \A a \in Approvals : Given(a)' => Given(a)
    BY DEF Given
<1>13. \A d \in WfCalls, v \in WfRuns : SuspendsAt(d, v)' => SuspendsAt(d, v)
    <2> SUFFICES ASSUME NEW d \in WfCalls, NEW v \in WfRuns, SuspendsAt(d, v)'
                 PROVE  SuspendsAt(d, v)
        OBVIOUS
    <2>1. d # c
        BY DEF SuspendsAt, Given, At
    <2>2. wfCall[d].appr \in Approvals \union {0} /\ wfCall'[d] = wfCall[d]
        BY <1>0, <2>1, CallFacts
    <2>3. At(d, "suspend") /\ wfCall[d].run = v /\ wfCall[d].appr # 0 /\ approval'[wfCall[d].appr].status = "APPROVED"
        BY <2>2 DEF SuspendsAt, At, Given
    <2> QED BY <1>12, <2>2, <2>3 DEF SuspendsAt, Given
<1>14. ResumeComes'
    <2> SUFFICES ASSUME NEW v \in WfRuns \ (tooEarly' \union overlapped')
                 PROVE  /\ wfRun'[v].status = "AWAITING_APPROVAL" /\ Given(wfRun[v].awaiting)'
                              => \E d \in WfCalls : Resuming(d, v)'
                        /\ (\E d \in WfCalls : SuspendsAt(d, v)') => \E d \in WfCalls : Approving(d, v)'
        BY DEF ResumeComes
    <2>1. ASSUME wfRun'[v].status = "AWAITING_APPROVAL", Given(wfRun[v].awaiting)'
          PROVE  \E d \in WfCalls : Resuming(d, v)'
        <3>1. RunNames(v) /\ wfRun[v] \in RunRow
            BY DEF WfInv, RunHolds, WfTypes
        <3>2. wfRun[v].awaiting \in Approvals
            BY <2>1, <3>1 DEF RunNames, RunRow
        <3>3. Given(wfRun[v].awaiting)
            BY <2>1, <3>2 DEF Given
        <3> QED BY <1>11, <2>1, <3>3 DEF WfInv, WfRelations, ResumeComes
    <2>2. ASSUME NEW d \in WfCalls, SuspendsAt(d, v)' PROVE \E e \in WfCalls : Approving(e, v)'
        BY <1>11, <1>13, <2>2 DEF WfInv, WfRelations, ResumeComes
    <2> QED BY <2>1, <2>2
<1> QED BY <1>1, <1>2, <1>4, <1>7, <1>8, <1>10, <1>14, StepKeeps DEF WfRelations

\* Executions begun of the step in hand.
LEMMA Executes ==
    ASSUME WfInv, NEW c \in WfCalls, NEW w \in WfRuns, w = wfCall[c].run, wfCall[c].pc \in {"step", "children"},
           Left(c) # {}, NEW s, s = NextOf(c), NEW n \in 0 .. WfRetries + 1, Begun(w, s, n),
           w \notin overlapped => effects[w][s] <= Allowed(wfRun[w].attempts - 1),
           UNCHANGED <<wfRun, approval, asked, granted, overlapped>>
    PROVE  /\ effects' \in [WfRuns -> [WfSteps -> Nat]] /\ RunHolds(w)'
           /\ \A v \in WfRuns \ {w} : effects'[v] = effects[v]
           /\ \A t \in WfSteps \ {s} : effects'[w][t] = effects[w][t]
<1>1. s \in WfSteps /\ s \notin wfCall[c].done /\ \A a \in WfSteps : a < s => a \in wfCall[c].done
    BY NextIsLeast DEF WfInv
<1>2. effects \in [WfRuns -> [WfSteps -> Nat]] /\ n \in Nat /\ wfRun[w] \in RunRow
    BY WorkflowAssumption DEF WfInv, WfTypes
<1> DEFINE k == effects[w][s] + n
<1>3. k \in Nat /\ effects' = [effects EXCEPT ![w][s] = k]
    BY <1>1, <1>2 DEF Begun
<1> HIDE DEF k
<1>4. /\ effects' \in [WfRuns -> [WfSteps -> Nat]] /\ effects'[w][s] = k
      /\ \A v \in WfRuns \ {w} : effects'[v] = effects[v]
      /\ \A t \in WfSteps \ {s} : effects'[w][t] = effects[w][t]
    BY <1>1, <1>2, <1>3
<1>5. RunHolds(w)
    BY DEF WfInv
<1>6. RunNames(w)'
    BY <1>5 DEF RunHolds, RunNames, MadeFor
<1>7. RunApproved(w)'
    <2> SUFFICES ASSUME NEW t \in WfSteps, NEW a \in WfSteps, a < t, effects'[w][t] > 0, Kind[a] = "approval",
                        a \notin Conditional
                 PROVE  <<w, a>> \in granted
        BY <1>5 DEF RunHolds, RunApproved, GrantedIn
    <2>1. CASE t = s
        BY <1>1, <2>1, CallFacts DEF CallHolds, ContextGranted, GrantedIn, Needs, Carrying, Driving
    <2>2. CASE t # s
        BY <1>4, <1>5, <2>2 DEF RunHolds, RunApproved
    <2> QED BY <2>1, <2>2
<1>8. Exists(w)
    BY CallFacts DEF CallHolds, NamesExist, Carrying, Driving
<1>9. wfRun[w].attempts \in Nat \ {0}
    BY <1>2, <1>5 DEF RunHolds, RunBudget, RunRow
<1>10. ASSUME w \notin overlapped
       PROVE  effects'[w][s] <= Allowed(wfRun[w].attempts)
    <2> DEFINE b == wfRun[w].attempts - 1
    <2>1. b \in Nat /\ wfRun[w].attempts = b + 1
        BY <1>9
    <2>2. Allowed(b) \in Nat /\ Allowed(b + 1) = Allowed(b) + (WfRetries + 1)
        BY <2>1, AllowedGrows
    <2>3. effects[w][s] <= Allowed(b)
        BY <1>10
    <2>4. effects[w][s] \in Nat /\ n <= WfRetries + 1 /\ WfRetries \in Nat
        BY <1>1, <1>2, WorkflowAssumption
    <2> HIDE DEF b
    <2>5. k <= Allowed(b + 1)
        BY <2>2, <2>3, <2>4 DEF k
    <2> QED BY <1>4, <2>1, <2>5
<1>11. w \notin overlapped => wfRun[w].status \in {"RUNNING", "CANCELLED"}
    BY DEF WfInv, WfRelations, OneDriver, DrivenBy, Driving
<1>12. RunBudget(w)'
    BY <1>4, <1>5, <1>8, <1>10, <1>11 DEF RunHolds, RunBudget, Exists
<1> QED BY <1>4, <1>6, <1>7, <1>12 DEF RunHolds

\* A request for the step in hand is numbered next.
LEMMA Requests ==
    ASSUME WfInv, NEW c \in WfCalls, NEW w \in WfRuns, w = wfCall[c].run, wfCall[c].pc \in {"step", "children"},
           Left(c) # {}, NEW s, s = NextOf(c), Request(w, s),
           w \notin overlapped => asked[w][s] <= wfRun[w].attempts - 1,
           UNCHANGED <<wfRun, effects, granted, overlapped>>
    PROVE  LET n == Cardinality(Raised) + 1 IN
           /\ asked' \in [WfRuns -> [WfSteps -> Nat]] /\ RunHolds(w)'
           /\ \A v \in WfRuns \ {w} : asked'[v] = asked[v]
           /\ \A t \in WfSteps \ {s} : asked'[w][t] = asked[w][t]
           /\ n \in Approvals /\ n # 0 /\ approval[n].status = "none"
           /\ approval' \in [Approvals -> ApprovalRow] /\ (\E k \in 0 .. MaxApprovals : Raised = 1 .. k)'
           /\ approval'[n].status = "PENDING" /\ approval'[n].run = w /\ approval'[n].step = s
           /\ \A a \in Approvals \ {n} : approval'[a] = approval[a]
<1> DEFINE n == Cardinality(Raised) + 1
<1>1. s \in WfSteps
    BY NextIsLeast DEF WfInv
<1>2. PICK m \in 0 .. MaxApprovals : Raised = 1 .. m
    BY DEF WfInv, WfTypes
<1>3. Cardinality(Raised) = m
    BY <1>2, FS_Interval
<1>4. m < MaxApprovals /\ m \in Nat /\ n = m + 1
    BY <1>3, WorkflowAssumption DEF Request
<1>5. n \in Approvals /\ n # 0 /\ n \notin Raised
    BY <1>2, <1>4, WorkflowAssumption DEF Approvals
<1> DEFINE row == [status |-> "PENDING", run |-> w, step |-> s]
<1>6. row \in ApprovalRow
    BY <1>1 DEF ApprovalRow, ApprovalStatus
<1>7. approval' = [approval EXCEPT ![n] = row] /\ asked' = [asked EXCEPT ![w][s] = @ + 1]
    BY DEF Request
<1> HIDE DEF n
<1>8. /\ approval' \in [Approvals -> ApprovalRow] /\ approval'[n] = row
      /\ \A a \in Approvals \ {n} : approval'[a] = approval[a]
    BY <1>5, <1>6, <1>7 DEF WfInv, WfTypes
<1>9. approval[n].status = "none"
    BY <1>5 DEF Raised
<1>10. Raised' = Raised \union {n}
    BY <1>5, <1>8 DEF Raised
<1>11. Raised' = 1 .. m + 1 /\ m + 1 \in 0 .. MaxApprovals
    BY <1>2, <1>4, <1>10, WorkflowAssumption
<1>12. (\E k \in 0 .. MaxApprovals : Raised = 1 .. k)'
    BY <1>11
<1>13. asked \in [WfRuns -> [WfSteps -> Nat]] /\ wfRun[w] \in RunRow
    BY DEF WfInv, WfTypes
<1>14. /\ asked' \in [WfRuns -> [WfSteps -> Nat]] /\ asked'[w][s] = asked[w][s] + 1
       /\ \A v \in WfRuns \ {w} : asked'[v] = asked[v]
       /\ \A t \in WfSteps \ {s} : asked'[w][t] = asked[w][t]
    BY <1>1, <1>7, <1>13
<1>15. RunHolds(w)
    BY DEF WfInv
<1>16. RunNames(w)'
    <2>1. wfRun[w].awaiting # 0 => wfRun[w].awaiting \in Approvals \ {n}
        BY <1>9, <1>13, <1>15 DEF RunHolds, RunNames, RunRow
    <2> QED BY <1>8, <1>15, <2>1 DEF RunHolds, RunNames, MadeFor
<1>17. RunApproved(w)'
    BY <1>15 DEF RunHolds, RunApproved, GrantedIn
<1>18. Exists(w)
    BY CallFacts DEF CallHolds, NamesExist, Carrying, Driving
<1>19. ASSUME w \notin overlapped PROVE asked'[w][s] <= wfRun[w].attempts
    BY <1>1, <1>13, <1>14, <1>19 DEF RunRow
<1>20. w \notin overlapped => wfRun[w].status \in {"RUNNING", "CANCELLED"}
    BY DEF WfInv, WfRelations, OneDriver, DrivenBy, Driving
<1>21. RunBudget(w)'
    BY <1>14, <1>15, <1>18, <1>19, <1>20 DEF RunHolds, RunBudget, Exists
<1>22. RunHolds(w)'
    BY <1>16, <1>17, <1>21 DEF RunHolds
<1> QED BY <1>5, <1>8, <1>9, <1>12, <1>14, <1>22 DEF n

LEMMA AdapterStepKeeps ==
    ASSUME WfInv, NEW c \in WfCalls, AdapterStep(c) PROVE WfInv'
<1>0. PICK w \in WfRuns : w = wfCall[c].run
    BY CallFacts
<1>1. /\ At(c, "step") /\ Left(c) # {} /\ Kind[NextOf(c)] = "adapter"
      /\ UNCHANGED <<wfRun, approval, deadLetter, asked, granted, overlapped, tooEarly>>
    BY DEF AdapterStep, Is
<1>2. PICK s \in WfSteps : s = NextOf(c) /\ s \notin wfCall[c].done
    BY <1>1, NextIsLeast DEF WfInv
<1>3. PICK n \in 0 .. WfRetries + 1 : Begun(w, s, n) /\ (Recorded(c, s) \/ GoOn(c, "failed"))
    BY <1>0, <1>2, WorkflowAssumption DEF AdapterStep
<1>4. w \notin overlapped => UntriedOutside(w, wfCall[c].done)
    BY <1>0, <1>1, CallFacts DEF CallHolds, ToComeUntried, At
<1>5. w \notin overlapped => effects[w][s] <= Allowed(wfRun[w].attempts - 1)
    BY <1>2, <1>4 DEF UntriedOutside, Untried
<1>6. /\ effects' \in [WfRuns -> [WfSteps -> Nat]] /\ RunHolds(w)'
      /\ \A v \in WfRuns \ {w} : effects'[v] = effects[v]
      /\ \A t \in WfSteps \ {s} : effects'[w][t] = effects[w][t]
    BY <1>0, <1>1, <1>2, <1>3, <1>5, Executes DEF At
<1>7. w \notin overlapped =>
          \A t \in WfSteps \ (wfCall[c].done \union {s}) :
              effects'[w][t] <= Allowed(wfRun[w].attempts - 1) /\ asked[w][t] <= wfRun[w].attempts - 1
    BY <1>4, <1>6 DEF UntriedOutside, Untried
<1>8. wfCall[c].pc \in Driving
    BY <1>1 DEF At, Driving
<1>9. CASE Recorded(c, s)
    <2>1. /\ wfCall'[c] \in WfCallRow /\ Become(c, wfCall'[c])
          /\ wfCall'[c].pc = "step" /\ wfCall'[c].run = w /\ wfCall'[c].appr = wfCall[c].appr
          /\ wfCall'[c].done = wfCall[c].done \union {s}
        BY <1>0, <1>9, CallFacts, RecordsIt
    <2>2. StepInHand(c)' /\ ReadHolds(c)'
        BY <2>1 DEF StepInHand, ReadHolds, At
    <2>3. NamesExist(c)'
        BY <1>0, <1>1, <2>1, CallFacts DEF CallHolds, NamesExist, Carrying, Driving, At, Exists
    <2>4. ContextGranted(c)'
        BY <1>0, <1>1, <1>2, <2>1, CallFacts DEF CallHolds, ContextGranted, Carrying, Driving, At, GrantedIn, Needs
    <2>5. ASSUME w \notin overlapped PROVE ToComeUntried(c)'
        BY <1>1, <1>7, <2>1, <2>5 DEF ToComeUntried, UntriedOutside, Untried
    <2>6. CallHolds(c)'
        BY <1>1, <2>1, <2>2, <2>3, <2>4, <2>5 DEF CallHolds
    <2> QED BY <1>0, <1>1, <1>6, <1>8, <2>1, <2>6, DriverActs DEF WfInv, WfTypes, ApprovalRow, Raised, Driving
<1>10. CASE GoOn(c, "failed")
    <2>0. "failed" \in WfPcs
        BY DEF WfPcs
    <2>1. /\ wfCall'[c] \in WfCallRow /\ Become(c, wfCall'[c])
          /\ wfCall'[c].pc = "failed" /\ wfCall'[c].run = w /\ wfCall'[c].appr = wfCall[c].appr
          /\ wfCall'[c].done = wfCall[c].done
        BY <1>0, <1>10, <2>0, CallFacts, GoesOn
    <2>2. Left(c)' = Left(c) /\ NextOf(c)' = s
        BY <1>2, <2>1 DEF Left, NextOf
    <2>3. StepInHand(c)' /\ ReadHolds(c)'
        BY <1>1, <1>2, <2>1, <2>2 DEF StepInHand, ReadHolds, At
    <2>4. NamesExist(c)'
        BY <1>0, <1>1, <2>1, CallFacts DEF CallHolds, NamesExist, Carrying, Driving, At, Exists
    <2>5. ContextGranted(c)'
        BY <1>0, <1>1, <2>1, CallFacts DEF CallHolds, ContextGranted, Carrying, Driving, At, GrantedIn
    <2>6. ASSUME w \notin overlapped PROVE ToComeUntried(c)'
        BY <1>1, <1>7, <2>1, <2>2, <2>6 DEF ToComeUntried, UntriedOutside, Untried
    <2>7. CallHolds(c)'
        BY <1>1, <2>1, <2>3, <2>4, <2>5, <2>6 DEF CallHolds
    <2> QED BY <1>0, <1>1, <1>6, <1>8, <2>1, <2>7, DriverActs DEF WfInv, WfTypes, ApprovalRow, Raised, Driving
<1> QED BY <1>3, <1>9, <1>10

\* The step asks for an approval, and the run is to be suspended at it.
LEMMA AskKeeps ==
    ASSUME WfInv, NEW c \in WfCalls, Ask(c), At(c, "step"), Left(c) # {} PROVE WfInv'
<1>0. PICK w \in WfRuns : w = wfCall[c].run
    BY CallFacts
<1>1. PICK s \in WfSteps : s = NextOf(c) /\ s \notin wfCall[c].done
    BY NextIsLeast DEF WfInv
<1> DEFINE a == Cardinality(Raised) + 1
           r == [wfCall[c] EXCEPT !.pc = "suspend", !.step = s, !.appr = a]
<1>2. Request(w, s) /\ Become(c, r) /\ UNCHANGED <<wfRun, deadLetter, effects, granted, overlapped, tooEarly>>
    BY <1>0, <1>1 DEF Ask
<1>3. w \notin overlapped => UntriedOutside(w, wfCall[c].done)
    BY <1>0, CallFacts DEF CallHolds, ToComeUntried, At
<1>4. w \notin overlapped => asked[w][s] <= wfRun[w].attempts - 1
    BY <1>1, <1>3 DEF UntriedOutside, Untried
<1>5. /\ asked' \in [WfRuns -> [WfSteps -> Nat]] /\ RunHolds(w)'
      /\ \A v \in WfRuns \ {w} : asked'[v] = asked[v]
      /\ \A t \in WfSteps \ {s} : asked'[w][t] = asked[w][t]
      /\ a \in Approvals /\ a # 0 /\ approval[a].status = "none"
      /\ approval' \in [Approvals -> ApprovalRow] /\ (\E k \in 0 .. MaxApprovals : Raised = 1 .. k)'
      /\ approval'[a].status = "PENDING" /\ approval'[a].run = w /\ approval'[a].step = s
      /\ \A b \in Approvals \ {a} : approval'[b] = approval[b]
    BY <1>0, <1>1, <1>2, <1>4, Requests DEF At
<1> HIDE DEF a
<1>16. a \in Approvals \union {0} /\ s \in WfSteps \union {0} /\ wfCall[c] \in WfCallRow
    BY <1>5, CallFacts
<1>6. r \in WfCallRow
    BY <1>16 DEF WfCallRow, WfPcs
<1>7. wfCall'[c] = r /\ Become(c, wfCall'[c]) /\ wfCall'[c] \in WfCallRow
    BY <1>2, <1>6, CallFacts, OneCallMoves
<1>8. /\ wfCall'[c].pc = "suspend" /\ wfCall'[c].run = w /\ wfCall'[c].appr = a /\ wfCall'[c].step = s
      /\ wfCall'[c].done = wfCall[c].done
    BY <1>0, <1>7, CallFacts DEF WfCallRow
<1> HIDE DEF r
<1>9. StepInHand(c)' /\ ReadHolds(c)'
    BY <1>8, WorkflowAssumption DEF StepInHand, ReadHolds, At, WfSteps
<1>10. NamesExist(c)'
    BY <1>0, <1>2, <1>5, <1>8, CallFacts DEF CallHolds, NamesExist, Carrying, Driving, At, Exists, MadeFor
<1>11. ContextGranted(c)'
    BY <1>0, <1>2, <1>8, CallFacts DEF CallHolds, ContextGranted, Carrying, Driving, At, GrantedIn
<1>12. ASSUME w \notin overlapped PROVE ToComeUntried(c)'
    BY <1>2, <1>3, <1>5, <1>8, <1>12 DEF ToComeUntried, UntriedOutside, Untried
<1>13. CallHolds(c)'
    BY <1>2, <1>8, <1>9, <1>10, <1>11, <1>12 DEF CallHolds
<1>14. \A b \in Approvals : approval[b].status # "none" => approval'[b] = approval[b]
    BY <1>5
<1>15. \A b \in Approvals : approval[b].status = "none" =>
            approval'[b].status # "APPROVED" /\ approval'[b].run \in WfRuns
            /\ (approval'[b].status # "none" => approval'[b].run = w)
    BY <1>5 DEF WfInv, WfTypes, ApprovalRow
<1> QED BY <1>0, <1>2, <1>5, <1>7, <1>8, <1>13, <1>14, <1>15, DriverActs DEF WfInv, WfTypes, Driving, At

LEMMA ApprovalStepKeeps ==
    ASSUME WfInv, NEW c \in WfCalls, ApprovalStep(c) PROVE WfInv'
BY AskKeeps DEF ApprovalStep, Is

LEMMA DecisionStepKeeps ==
    ASSUME WfInv, NEW c \in WfCalls, DecisionStep(c) PROVE WfInv'
<1>1. At(c, "step") /\ Left(c) # {} /\ Kind[NextOf(c)] = "decision"
    BY DEF DecisionStep, Is
<1>2. CASE Ask(c)
    BY <1>1, <1>2, AskKeeps
<1>3. CASE (Recorded(c, NextOf(c)) \/ GoOn(c, "failed")) /\ UNCHANGED <<wfRun, approval, deadLetter, wfHistory>>
    <2>1. RowsStay /\ UNCHANGED tooEarly /\ ~Needs(NextOf(c))
        BY <1>1, <1>3 DEF RowsStay, wfHistory, Needs
    <2>2. CASE Recorded(c, NextOf(c))
        BY <1>1, <2>1, <2>2, AfterRecord DEF At
    <2>3. CASE GoOn(c, "failed")
        BY <1>1, <2>1, <2>3, FailsTo DEF At
    <2> QED BY <1>3, <2>2, <2>3
<1> QED BY <1>2, <1>3 DEF DecisionStep

\* What is left of a child that is over: the call goes on among the children.
LEMMA ChildOver ==
    ASSUME WfInv, NEW c \in WfCalls, At(c, "children"), NEW k \in {"adapter", "approval"}, NEW s \in WfSteps,
           s = NextOf(c), NEW x \in {s, wfCall[c].step},
           Become(c, [wfCall[c] EXCEPT !.held = wfCall[c].held \ {k}, !.step = x])
    PROVE  /\ wfCall'[c] \in WfCallRow /\ Become(c, wfCall'[c])
           /\ wfCall'[c].pc = "children" /\ wfCall'[c].run = wfCall[c].run /\ wfCall'[c].appr = wfCall[c].appr
           /\ wfCall'[c].done = wfCall[c].done /\ wfCall'[c].held = wfCall[c].held \ {k}
           /\ Left(c)' = Left(c) /\ NextOf(c)' = s
<1> DEFINE h == wfCall[c].held \ {k}
           r == [wfCall[c] EXCEPT !.held = h, !.step = x]
<1>1. h \in SUBSET (Children \union Approvals) /\ x \in WfSteps \union {0}
    BY CallFacts DEF WfCallRow
<1> HIDE DEF h
<1>2. r \in WfCallRow
    BY <1>1, CallFacts DEF WfCallRow
<1>3. Become(c, r)
    BY DEF h
<1>4. wfCall'[c] = r
    BY <1>2, <1>3, CallFacts, OneCallMoves
<1>5. /\ wfCall'[c].pc = "children" /\ wfCall'[c].run = wfCall[c].run /\ wfCall'[c].appr = wfCall[c].appr
      /\ wfCall'[c].done = wfCall[c].done /\ wfCall'[c].held = h
    BY <1>4, CallFacts DEF WfCallRow, At
<1>6. Left(c)' = Left(c) /\ NextOf(c)' = s
    BY <1>5 DEF Left, NextOf
<1> QED BY <1>2, <1>3, <1>4, <1>5, <1>6 DEF h

LEMMA ChildStepKeeps ==
    ASSUME WfInv, NEW c \in WfCalls, ChildStep(c) PROVE WfInv'
<1>0. PICK w \in WfRuns : w = wfCall[c].run
    BY CallFacts
<1>1. At(c, "children") /\ UNCHANGED <<wfRun, deadLetter, granted, overlapped, tooEarly>>
    BY DEF ChildStep
<1>2. Left(c) # {} /\ Kind[NextOf(c)] # "approval"
    BY <1>1, CallFacts DEF CallHolds, StepInHand, At
<1>3. PICK s \in WfSteps : s = NextOf(c)
    BY <1>2, NextIsLeast DEF WfInv
<1>4. wfCall[c].pc \in Driving /\ wfCall[c].pc = "children"
    BY <1>1 DEF At, Driving
<1>5. ASSUME w \notin overlapped
      PROVE  /\ UntriedOutside(w, wfCall[c].done \union {s})
             /\ "adapter" \in wfCall[c].held => effects[w][s] <= Allowed(wfRun[w].attempts - 1)
             /\ "approval" \in wfCall[c].held => asked[w][s] <= wfRun[w].attempts - 1
    BY <1>0, <1>3, <1>4, <1>5, CallFacts DEF CallHolds, ToComeUntried
<1>6. ASSUME NEW x \in {s, wfCall[c].step}, NEW n \in 0 .. WfRetries + 1, "adapter" \in wfCall[c].held,
             Begun(w, s, n), Become(c, [wfCall[c] EXCEPT !.held = wfCall[c].held \ {"adapter"}, !.step = x]),
             UNCHANGED <<approval, asked>>
      PROVE  WfInv'
    <2>1. /\ wfCall'[c] \in WfCallRow /\ Become(c, wfCall'[c])
          /\ wfCall'[c].pc = "children" /\ wfCall'[c].run = w /\ wfCall'[c].appr = wfCall[c].appr
          /\ wfCall'[c].done = wfCall[c].done /\ wfCall'[c].held = wfCall[c].held \ {"adapter"}
          /\ Left(c)' = Left(c) /\ NextOf(c)' = s
        BY <1>0, <1>1, <1>3, <1>6, ChildOver
    <2>2. /\ effects' \in [WfRuns -> [WfSteps -> Nat]] /\ RunHolds(w)'
          /\ \A v \in WfRuns \ {w} : effects'[v] = effects[v]
          /\ \A t \in WfSteps \ {s} : effects'[w][t] = effects[w][t]
        BY <1>0, <1>1, <1>2, <1>3, <1>4, <1>5, <1>6, Executes
    <2>3. StepInHand(c)' /\ ReadHolds(c)'
        BY <1>2, <1>3, <2>1 DEF StepInHand, ReadHolds, At
    <2>4. NamesExist(c)'
        BY <1>0, <1>1, <1>4, <1>6, <2>1, CallFacts DEF CallHolds, NamesExist, Carrying, Driving, At, Exists
    <2>5. ContextGranted(c)'
        BY <1>0, <1>1, <1>4, <2>1, CallFacts DEF CallHolds, ContextGranted, Carrying, Driving, At, GrantedIn
    <2>6. ASSUME w \notin overlapped PROVE ToComeUntried(c)'
        BY <1>1, <1>5, <1>6, <2>1, <2>2, <2>6 DEF ToComeUntried, UntriedOutside, Untried
    <2>7. CallHolds(c)'
        BY <1>1, <2>1, <2>3, <2>4, <2>5, <2>6 DEF CallHolds
    <2> QED BY <1>0, <1>1, <1>4, <1>6, <2>1, <2>2, <2>7, DriverActs DEF WfInv, WfTypes, ApprovalRow, Raised
<1>7. ASSUME "approval" \in wfCall[c].held, Request(w, s), UNCHANGED effects,
             Become(c, [wfCall[c] EXCEPT !.held = wfCall[c].held \ {"approval"}, !.step = s])
      PROVE  WfInv'
    <2> DEFINE a == Cardinality(Raised) + 1
    <2>1. /\ wfCall'[c] \in WfCallRow /\ Become(c, wfCall'[c])
          /\ wfCall'[c].pc = "children" /\ wfCall'[c].run = w /\ wfCall'[c].appr = wfCall[c].appr
          /\ wfCall'[c].done = wfCall[c].done /\ wfCall'[c].held = wfCall[c].held \ {"approval"}
          /\ Left(c)' = Left(c) /\ NextOf(c)' = s
        BY <1>0, <1>1, <1>3, <1>7, ChildOver
    <2>2. /\ asked' \in [WfRuns -> [WfSteps -> Nat]] /\ RunHolds(w)'
          /\ \A v \in WfRuns \ {w} : asked'[v] = asked[v]
          /\ \A t \in WfSteps \ {s} : asked'[w][t] = asked[w][t]
          /\ a \in Approvals /\ a # 0 /\ approval[a].status = "none"
          /\ approval' \in [Approvals -> ApprovalRow] /\ (\E k \in 0 .. MaxApprovals : Raised = 1 .. k)'
          /\ approval'[a].status = "PENDING" /\ approval'[a].run = w /\ approval'[a].step = s
          /\ \A b \in Approvals \ {a} : approval'[b] = approval[b]
        BY <1>0, <1>1, <1>2, <1>3, <1>4, <1>5, <1>7, Requests
    <2> HIDE DEF a
    <2>3. StepInHand(c)' /\ ReadHolds(c)'
        BY <1>2, <1>3, <2>1 DEF StepInHand, ReadHolds, At
    <2>4. NamesExist(c)'
        <3>1. wfCall[c].appr # 0 => approval'[wfCall[c].appr].status # "none"
            BY <2>2, CallFacts
        <3> QED BY <1>0, <1>1, <1>4, <2>1, <3>1, CallFacts DEF CallHolds, NamesExist, Carrying, Driving, At, Exists
    <2>5. ContextGranted(c)'
        BY <1>0, <1>1, <1>4, <2>1, CallFacts DEF CallHolds, ContextGranted, Carrying, Driving, At, GrantedIn
    <2>6. ASSUME w \notin overlapped PROVE ToComeUntried(c)'
        BY <1>1, <1>5, <1>7, <2>1, <2>2, <2>6 DEF ToComeUntried, UntriedOutside, Untried
    <2>7. CallHolds(c)'
        BY <1>1, <2>1, <2>3, <2>4, <2>5, <2>6 DEF CallHolds
    <2>8. \A b \in Approvals : approval[b].status # "none" => approval'[b] = approval[b]
        BY <2>2
    <2>9. \A b \in Approvals : approval[b].status = "none" =>
              approval'[b].status # "APPROVED" /\ approval'[b].run \in WfRuns
              /\ (approval'[b].status # "none" => approval'[b].run = w)
        BY <2>2 DEF WfInv, WfTypes, ApprovalRow
    <2> QED BY <1>0, <1>1, <1>4, <1>7, <2>1, <2>2, <2>7, <2>8, <2>9, DriverActs DEF WfInv, WfTypes
<1>8. \A late \in 0 .. WfRetries : late + 1 \in 0 .. WfRetries + 1
    BY WorkflowAssumption
<1> QED BY <1>0, <1>3, <1>6, <1>7, <1>8 DEF ChildStep

-----------------------------------------------------------------------------
(* Deciding and expiring requests                                           *)

\* A request that exists gets another status.
LEMMA RequestWritten ==
    ASSUME WfInv, NEW a \in Approvals, approval[a].status # "none", NEW x \in ApprovalStatus \ {"none"},
           approval' = [approval EXCEPT ![a].status = x]
    PROVE  /\ approval' \in [Approvals -> ApprovalRow] /\ Raised' = Raised
           /\ approval'[a].status = x /\ approval'[a].run = approval[a].run /\ approval'[a].step = approval[a].step
           /\ \A b \in Approvals \ {a} : approval'[b] = approval[b]
<1> DEFINE row == [approval[a] EXCEPT !.status = x]
<1>1. approval \in [Approvals -> ApprovalRow] /\ approval[a] \in ApprovalRow
    BY DEF WfInv, WfTypes
<1>2. /\ row \in ApprovalRow /\ row.status = x
      /\ row.run = approval[a].run /\ row.step = approval[a].step
    BY <1>1 DEF ApprovalRow
<1>3. approval' = [approval EXCEPT ![a] = row]
    OBVIOUS
<1> HIDE DEF row
<1>4. /\ approval' \in [Approvals -> ApprovalRow] /\ approval'[a] = row
      /\ \A b \in Approvals \ {a} : approval'[b] = approval[b]
    BY <1>1, <1>2, <1>3
<1>5. Raised' = Raised
    BY <1>2, <1>4 DEF Raised
<1> QED BY <1>2, <1>4, <1>5

\* What such a step has to show: a call that drives nothing has written the
\* status of a request, and whoever approved it goes on to resume the run.
LEMMA RequestDecided ==
    ASSUME WfInv, NEW c \in WfCalls, NEW a \in Approvals, approval[a].status # "none",
           NEW x \in ApprovalStatus \ {"none"}, approval' = [approval EXCEPT ![a].status = x],
           wfCall'[c] \in WfCallRow, Become(c, wfCall'[c]), CallHolds(c)',
           wfCall[c].pc \in {"decide", "expire"}, wfCall'[c].pc \in {"readRun", "done", "expire"},
           granted' \subseteq WfRuns \X (WfSteps \union {0}), granted \subseteq granted',
           x = "APPROVED" => /\ <<approval[a].run, approval[a].step>> \in granted'
                             /\ At(c, "readRun")' /\ wfCall'[c].op = "approve" /\ wfCall'[c].run = approval[a].run,
           UNCHANGED <<wfRun, deadLetter, effects, asked, overlapped, tooEarly>>
    PROVE  WfInv'
<1>0. wfCall' \in [WfCalls -> WfCallRow] /\ \A d \in WfCalls \ {c} : wfCall'[d] = wfCall[d]
    BY OneCallMoves DEF WfInv, WfTypes
<1>1. /\ approval' \in [Approvals -> ApprovalRow] /\ Raised' = Raised
      /\ approval'[a].status = x /\ approval'[a].run = approval[a].run /\ approval'[a].step = approval[a].step
      /\ \A b \in Approvals \ {a} : approval'[b] = approval[b]
    BY RequestWritten
<1>2. WfTypes'
    BY <1>0, <1>1 DEF WfInv, WfTypes
<1>3. WfMonotone
    BY <1>1 DEF WfMonotone, Exists
<1>4. RequestsHold'
    BY <1>1 DEF WfInv, RequestsHold, Exists
<1>5. \A v \in WfRuns : Untouched(v) /\ wfRun'[v].status = wfRun[v].status
    BY DEF Untouched
<1>6. OthersAside(c)
    BY <1>0, <1>5, CallFacts DEF OthersAside
<1>7. \A v \in WfRuns : RunHolds(v)'
    BY <1>3, <1>5, RunUntouched DEF WfInv
<1>8. \A d \in WfCalls, v \in WfRuns : (DrivenBy(d, v) <=> DrivenBy(d, v)') /\ (Engaged(d, v) <=> Engaged(d, v)')
    BY <1>0 DEF DrivenBy, Engaged, Driving
<1>9. RunningIsDriven' /\ OneDriver'
    BY <1>8 DEF WfInv, WfRelations, RunningIsDriven, OneDriver
<1>10. \A d \in WfCalls, v \in WfRuns : (Resuming(d, v) => Resuming(d, v)') /\ (Approving(d, v) => Approving(d, v)')
    BY <1>0 DEF Resuming, Approving, At
<1>11. ASSUME x = "APPROVED" PROVE Approving(c, approval[a].run)' /\ Resuming(c, approval[a].run)'
    BY <1>1, <1>11 DEF Approving, Resuming, At
<1>12. \A b \in Approvals : Given(b)' => Given(b) \/ (b = a /\ x = "APPROVED")
    BY <1>1 DEF Given
<1>13. ResumeComes'
    <2> SUFFICES ASSUME NEW v \in WfRuns \ (tooEarly' \union overlapped')
                 PROVE  /\ wfRun'[v].status = "AWAITING_APPROVAL" /\ Given(wfRun[v].awaiting)'
                              => \E d \in WfCalls : Resuming(d, v)'
                        /\ (\E d \in WfCalls : SuspendsAt(d, v)') => \E d \in WfCalls : Approving(d, v)'
        BY DEF ResumeComes
    <2>1. ASSUME x = "APPROVED", approval[a].run = v PROVE Approving(c, v)' /\ Resuming(c, v)'
        BY <1>1, <2>1 DEF Approving, Resuming, At
    <2>2. ASSUME wfRun'[v].status = "AWAITING_APPROVAL", Given(wfRun[v].awaiting)'
          PROVE  \E d \in WfCalls : Resuming(d, v)'
        <3>1. RunNames(v) /\ wfRun[v] \in RunRow
            BY DEF WfInv, RunHolds, WfTypes
        <3>2. wfRun[v].awaiting \in Approvals
            BY <2>2, <3>1 DEF RunNames, RunRow
        <3>3. CASE Given(wfRun[v].awaiting)
            BY <1>10, <2>2, <3>3 DEF WfInv, WfRelations, ResumeComes
        <3>4. CASE wfRun[v].awaiting = a /\ x = "APPROVED"
            <4>1. approval[a].run = v
                BY <2>2, <3>1, <3>4 DEF RunNames, MadeFor
            <4> QED BY <2>1, <3>4, <4>1
        <3>5. Given(wfRun[v].awaiting) \/ (wfRun[v].awaiting = a /\ x = "APPROVED")
            BY <1>1, <2>2, <3>2 DEF Given
        <3> QED BY <3>3, <3>4, <3>5
    <2>3. ASSUME NEW d \in WfCalls, SuspendsAt(d, v)' PROVE \E e \in WfCalls : Approving(e, v)'
        <3>1. d # c
            BY <2>3 DEF SuspendsAt, At
        <3>2. wfCall'[d] = wfCall[d] /\ wfCall[d].appr \in Approvals \union {0} /\ CallHolds(d)
            BY <1>0, <3>1, CallFacts
        <3>3. At(d, "suspend") /\ wfCall[d].run = v /\ wfCall[d].appr # 0 /\ approval'[wfCall[d].appr].status = "APPROVED"
            BY <2>3, <3>2 DEF SuspendsAt, At, Given
        <3>4. CASE Given(wfCall[d].appr)
            BY <1>10, <3>3, <3>4 DEF WfInv, WfRelations, ResumeComes, SuspendsAt
        <3>5. CASE wfCall[d].appr = a /\ x = "APPROVED"
            <4>1. approval[a].run = v
                BY <3>2, <3>3, <3>5 DEF CallHolds, NamesExist, MadeFor, At
            <4> QED BY <2>1, <3>5, <4>1
        <3> QED BY <1>1, <3>2, <3>3, <3>4, <3>5 DEF Given
    <2> QED BY <2>2, <2>3
<1> QED BY <1>2, <1>3, <1>4, <1>6, <1>7, <1>9, <1>13, StepKeeps DEF WfRelations

LEMMA DecideKeeps ==
    ASSUME WfInv, NEW c \in WfCalls, Decide(c) PROVE WfInv'
<1>0. PICK a \in Approvals : a = wfCall[c].appr /\ approval[a].status # "none" /\ wfCall[c].op \in Decisions
    BY CallFacts DEF Decide, CallHolds, NamesExist, At
<1> DEFINE x == DecisionStatus[wfCall[c].op]
<1>1. /\ At(c, "decide") /\ approval' = [approval EXCEPT ![a].status = x]
      /\ UNCHANGED <<wfRun, deadLetter, effects, asked, overlapped, tooEarly>>
    BY <1>0 DEF Decide
<1>2. x \in ApprovalStatus \ {"none"} /\ (x = "APPROVED" <=> wfCall[c].op = "approve")
    BY <1>0 DEF DecisionStatus, Decisions, ApprovalStatus
<1> HIDE DEF x
<1>3. approval[a] \in ApprovalRow /\ Exists(approval[a].run)
    BY <1>0 DEF WfInv, WfTypes, RequestsHold
<1>4. approval[a].run \in WfRuns /\ approval[a].step \in WfSteps \union {0}
    BY <1>3 DEF ApprovalRow
<1>5. wfCall[c].appr # 0 => approval'[wfCall[c].appr].status # "none"
    BY <1>0, <1>1, <1>2, RequestWritten
<1>6. CASE wfCall[c].op # "approve" /\ GoOn(c, "done") /\ UNCHANGED granted
    <2>0. "done" \in WfPcs
        BY DEF WfPcs
    <2>1. LET m == wfCall[c]  n == wfCall'[c] IN
          n \in WfCallRow /\ Become(c, n) /\ n.pc = "done" /\ n.run = m.run /\ n.appr = m.appr
        BY <1>6, <2>0, CallFacts, GoesOn
    <2>2. CallHolds(c)'
        BY <1>5, <2>1, RestHolds
    <2> QED BY <1>0, <1>1, <1>2, <1>6, <2>1, <2>2, RequestDecided DEF At, WfInv, WfTypes
<1>7. CASE /\ wfCall[c].op = "approve"
           /\ granted' = granted \union {<<approval[a].run, approval[a].step>>}
           /\ Become(c, [wfCall[c] EXCEPT !.pc = AfterApproval, !.run = approval[a].run])
    <2> DEFINE r == [wfCall[c] EXCEPT !.pc = "readRun", !.run = approval[a].run]
    <2>1. r \in WfCallRow
        BY ZenonT(60), <1>4, CallFacts DEF WfCallRow, WfPcs
    <2>2. Become(c, r)
        BY <1>7 DEF AfterApproval
    <2>3. wfCall'[c] = r
        BY <2>1, <2>2, CallFacts, OneCallMoves
    <2>4. /\ wfCall'[c].pc = "readRun" /\ wfCall'[c].run = approval[a].run /\ wfCall'[c].appr = wfCall[c].appr
          /\ wfCall'[c].op = "approve"
        BY <1>7, <2>3, CallFacts DEF WfCallRow
    <2> HIDE DEF r
    <2>5. wfCall'[c] \in WfCallRow /\ Become(c, wfCall'[c])
        BY <2>1, <2>2, <2>3
    <2>6. StepInHand(c)' /\ ReadHolds(c)' /\ ContextGranted(c)' /\ ToComeUntried(c)'
        BY <2>4 DEF StepInHand, ReadHolds, ContextGranted, ToComeUntried, At, Carrying, Driving
    <2>7. wfRun'[wfCall'[c].run].status # "none"
        BY <1>1, <1>3, <2>4 DEF Exists
    <2>8. NamesExist(c)'
        BY <1>5, <2>4, <2>7 DEF NamesExist, Exists, At
    <2>9. CallHolds(c)'
        BY <2>6, <2>8 DEF CallHolds
    <2>10. granted' \subseteq WfRuns \X (WfSteps \union {0}) /\ granted \subseteq granted'
               /\ <<approval[a].run, approval[a].step>> \in granted'
        BY <1>4, <1>7 DEF WfInv, WfTypes
    <2> QED BY <1>0, <1>1, <1>2, <2>4, <2>5, <2>9, <2>10, RequestDecided DEF At
<1> QED BY <1>0, <1>6, <1>7 DEF Decide

LEMMA ExpireOneKeeps ==
    ASSUME WfInv, NEW c \in WfCalls, ExpireOne(c) PROVE WfInv'
<1>1. At(c, "expire") /\ UNCHANGED <<wfRun, deadLetter, wfHistory>>
    BY DEF ExpireOne
<1>2. CASE GoOn(c, "done") /\ UNCHANGED approval
    BY <1>1, <1>2, IndifferentGoesOn DEF RowsStay, Indifferent, At, Driving, wfHistory
<1>3. ASSUME NEW a \in wfCall[c].held, approval' = [approval EXCEPT ![a].status = "EXPIRED"],
             Become(c, [wfCall[c] EXCEPT !.held = wfCall[c].held \ {a}])
      PROVE  WfInv'
    <2> DEFINE h == wfCall[c].held \ {a}
               r == [wfCall[c] EXCEPT !.held = h]
    <2>1. \A b \in wfCall[c].held : b \in Approvals /\ approval[b].status # "none"
        BY <1>1, CallFacts DEF CallHolds, NamesExist
    <2>2. h \in SUBSET (Children \union Approvals) /\ \A b \in h : b \in wfCall[c].held
        BY CallFacts DEF WfCallRow
    <2>3. Become(c, r)
        BY <1>3
    <2> HIDE DEF h
    <2>4. r \in WfCallRow
        BY <2>2, CallFacts DEF WfCallRow
    <2>5. wfCall'[c] = r
        BY <2>3, <2>4, CallFacts, OneCallMoves
    <2>6. wfCall'[c].pc = "expire" /\ wfCall'[c].held = h /\ wfCall'[c].appr = wfCall[c].appr
        BY <1>1, <2>5, CallFacts DEF WfCallRow, At
    <2>7. wfCall'[c] \in WfCallRow /\ Become(c, wfCall'[c])
        BY <2>3, <2>4, <2>5
    <2> HIDE DEF r
    <2>8. "EXPIRED" \in ApprovalStatus \ {"none"} /\ a \in Approvals /\ approval[a].status # "none"
        BY <2>1 DEF ApprovalStatus
    <2>9. \A b \in Approvals : approval[b].status # "none" => approval'[b].status # "none"
        <3>1. approval'[a].status = "EXPIRED" /\ \A b \in Approvals \ {a} : approval'[b] = approval[b]
            BY <1>3, <2>8, RequestWritten
        <3> QED BY <3>1
    <2>10. StepInHand(c)' /\ ReadHolds(c)' /\ ContextGranted(c)' /\ ToComeUntried(c)'
        BY <2>6 DEF StepInHand, ReadHolds, ContextGranted, ToComeUntried, At, Carrying, Driving
    <2>11. NamesExist(c)'
        BY <2>1, <2>2, <2>6, <2>9, CallFacts DEF NamesExist, At, Carrying, Driving
    <2>12. CallHolds(c)'
        BY <2>10, <2>11 DEF CallHolds
    <2> QED BY <1>1, <1>3, <2>6, <2>7, <2>8, <2>12, RequestDecided DEF At, wfHistory, WfInv, WfTypes
<1> QED BY <1>2, <1>3 DEF ExpireOne

-----------------------------------------------------------------------------
(* The theorems                                                             *)

LEMMA WfInvInit == WfInit => WfInv
<1> SUFFICES ASSUME WfInit PROVE WfInv
    OBVIOUS
<1> DEFINE w0 == CHOOSE w \in WfRuns : TRUE
           r0 == [pc |-> "idle", op |-> "none", run |-> w0, appr |-> 0, done |-> {}, step |-> 0, key |-> NoKey,
                  attempts |-> 0, held |-> {}]
<1>1. w0 \in WfRuns
    <2>1. 1 \in WfRuns
        BY WorkflowAssumption DEF WfRuns
    <2> QED BY <2>1
<1> HIDE DEF w0
<1>2. r0 \in WfCallRow
    BY <1>1 DEF WfCallRow, WfPcs, WfCallOps
<1>3. \A c \in WfCalls : wfCall[c] = r0
    BY DEF WfInit, w0
<1>4. \A c \in WfCalls : wfCall[c].pc = "idle" /\ wfCall[c].appr = 0 /\ wfCall[c].done = {}
    BY <1>3
<1>5. NoRow \in RunRow /\ NoRow.status = "none" /\ NoRow.awaiting = 0 /\ NoRow.current = 0 /\ NoRow.done = {}
          /\ NoRow.attempts = 1
    BY DEF NoRow, RunRow, RunStatus
<1>6. NoApproval \in ApprovalRow /\ NoApproval.status = "none"
    BY <1>1 DEF NoApproval, ApprovalRow, ApprovalStatus, w0
<1>7. \A w \in WfRuns : wfRun[w] = NoRow
    BY DEF WfInit
<1>8. \A a \in Approvals : approval[a] = NoApproval
    BY DEF WfInit
<1>9. \A w \in WfRuns, s \in WfSteps : effects[w][s] = 0 /\ asked[w][s] = 0
    BY DEF WfInit
<1>10. WfTypes
    <2>1. Raised = {} /\ {} = 1 .. 0 /\ 0 \in 0 .. MaxApprovals
        BY <1>6, <1>8, WorkflowAssumption DEF Raised
    <2>2. wfCall \in [WfCalls -> WfCallRow]
        BY <1>2, <1>3 DEF WfInit
    <2> QED BY <1>5, <1>6, <2>1, <2>2 DEF WfInit, WfTypes
<1>11. RequestsHold
    BY <1>6, <1>8 DEF RequestsHold
<1>12. WfRelations
    BY <1>4, <1>5, <1>7 DEF WfRelations, RunningIsDriven, OneDriver, ResumeComes, DrivenBy, Driving, SuspendsAt, At
<1>13. \A c \in WfCalls : CallHolds(c)
    BY <1>4 DEF CallHolds, StepInHand, NamesExist, ContextGranted, ReadHolds, ToComeUntried, Carrying, Driving, At
<1>14. ASSUME NEW w \in WfRuns PROVE RunHolds(w)
    <2>1. RunNames(w)
        BY <1>5, <1>7, WorkflowAssumption DEF RunNames, MadeFor, Needs, WfSteps
    <2>2. RunApproved(w)
        BY <1>5, <1>7, <1>9 DEF RunApproved, GrantedIn
    <2>3. RunBudget(w)
        <3>1. Allowed(1) >= 0
            BY AllowedGrows
        <3> QED BY <1>5, <1>7, <1>9, <3>1 DEF RunBudget
    <2> QED BY <2>1, <2>2, <2>3 DEF RunHolds
<1> QED BY <1>10, <1>11, <1>12, <1>13, <1>14 DEF WfInv

LEMMA WfInvStep == WfInv /\ [WfNext]_wfVars => WfInv'
<1> SUFFICES ASSUME WfInv, [WfNext]_wfVars PROVE WfInv'
    OBVIOUS
<1>1. ASSUME NEW c \in WfCalls, DriveStep(c) PROVE WfInv'
    BY <1>1, SkipStepKeeps, AdapterStepKeeps, DelayStepKeeps, ApprovalStepKeeps, DecisionStepKeeps,
       ParallelStepKeeps, ChildStepKeeps, ParallelJoinKeeps, StepFailedKeeps, StepThrowsKeeps,
       SuspendKeeps, FinishKeeps, FailReadKeeps, FailWriteKeeps, BuryKeeps DEF DriveStep
<1>2. CASE WfNext
    BY <1>1, <1>2, WfCallBeginKeeps, StartLookupKeeps, StartCountKeeps, StartCreateKeeps, ResumeReadKeeps,
       ResumeCheckKeeps, ResumeWriteKeeps, RunRetryReadKeeps, RunRetryWriteKeeps, RunCancelReadKeeps,
       RunCancelWriteKeeps, AssertPendingKeeps, DecideKeeps, FindExpiredKeeps, ExpireOneKeeps DEF WfNext
<1>3. CASE UNCHANGED wfVars
    <2>1. ASSUME NEW c \in WfCalls PROVE CallHolds(c)'
        <3>1. StepInHand(c)' <=> StepInHand(c)
            BY <1>3 DEF wfVars, StepInHand, At, Left, NextOf
        <3>2. NamesExist(c)' <=> NamesExist(c)
            BY <1>3 DEF wfVars, NamesExist, At, Exists, MadeFor
        <3>3. ContextGranted(c)' <=> ContextGranted(c)
            BY <1>3 DEF wfVars, ContextGranted, At, GrantedIn
        <3>4. ReadHolds(c)' <=> ReadHolds(c)
            BY <1>3 DEF wfVars, ReadHolds, RunOf
        <3>5. ToComeUntried(c)' <=> ToComeUntried(c)
            BY <1>3 DEF wfVars, ToComeUntried, UntriedOutside, Untried, Left, NextOf
        <3> QED BY <1>3, <3>1, <3>2, <3>3, <3>4, <3>5 DEF wfVars, WfInv, CallHolds
    <2>2. \A w \in WfRuns : RunHolds(w)'
        BY <1>3 DEF wfVars, WfInv, RunHolds, RunNames, RunApproved, RunBudget, GrantedIn, MadeFor,
                    UntriedOutside, Untried
    <2>3. WfTypes' /\ RequestsHold'
        BY <1>3 DEF wfVars, WfInv, WfTypes, RequestsHold, Raised, Exists
    <2>4. WfRelations'
        BY <1>3 DEF wfVars, WfInv, WfRelations, RunningIsDriven, OneDriver, ResumeComes, DrivenBy, Engaged,
                    Given, SuspendsAt, Approving, Resuming, At
    <2> QED BY <2>1, <2>2, <2>3, <2>4 DEF WfInv
<1> QED BY <1>2, <1>3

\* The joint invariant of the engine: no interleaving of the calls on a run, the
\* decisions on its requests and their expiry leads out of it.
THEOREM WorkflowHolds == WfSpec => []WfInv
BY WfInvInit, WfInvStep, PTL DEF WfSpec

\* Rows hold values of their columns, whatever the calls do.
THEOREM WfTypeCorrect == WfSpec => []WfTypeOK
<1>1. WfInv => WfTypeOK
    BY DEF WfInv, WfTypes, WfTypeOK, ApprovalRow, RunHolds, RunNames
<1> QED BY <1>1, WorkflowHolds, PTL

\* Nothing behind an approval step runs before a request made for it was approved.
THEOREM ApprovalGates == WfSpec => []ApprovedFirst
<1>1. WfInv => ApprovedFirst
    BY DEF WfInv, RunHolds, RunApproved, ApprovedFirst
<1> QED BY <1>1, WorkflowHolds, PTL

\* A run that is RUNNING is being driven by some call.
THEOREM NoRunAbandoned == WfSpec => []RunningIsDriven
<1>1. WfInv => RunningIsDriven
    BY DEF WfInv, WfRelations
<1> QED BY <1>1, WorkflowHolds, PTL

\* Unless two calls set a run going at once, its attempts bound what is begun.
THEOREM StepsWithinAttempts == WfSpec => []NothingRepeated
<1>1. WfInv => NothingRepeated
    BY DEF WfInv, RunHolds, RunBudget, NothingRepeated, Allowed
<1> QED BY <1>1, WorkflowHolds, PTL

\* When no call is under way, no run waits for an approval that was given.
THEOREM ApprovalResumes == WfSpec => []ApprovedIsResumed
<1>1. WfInv => ApprovedIsResumed
    <2> SUFFICES ASSUME WfInv, WfQuiet, NEW w \in WfRuns \ (tooEarly \union overlapped),
                        wfRun[w].status = "AWAITING_APPROVAL", Given(wfRun[w].awaiting)
                 PROVE  FALSE
        BY DEF ApprovedIsResumed, Given
    <2>1. PICK c \in WfCalls : Resuming(c, w)
        BY DEF WfInv, WfRelations, ResumeComes
    <2> QED BY <2>1 DEF WfQuiet, Resuming, Approving, At
<1> QED BY <1>1, WorkflowHolds, PTL
=============================================================================

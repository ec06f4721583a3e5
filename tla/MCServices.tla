----------------------------- MODULE MCServices -----------------------------
(* Small instances of the components that share no state with each other.   *)
(* A behaviour is one of any of them, picked at the start: the components   *)
(* are checked beside each other, and their states add up.                  *)
EXTENDS Workflow, Providers, Federation, NodeKeys, Scheduler, Deployments,
        AppendBuffer, MemorySync, Webhooks, Extensions,
        Backups, Billing, Catalogue, TLC

VARIABLE picked

\* work, an approval, a delay, a decision of a worker, parallel work
MCKind == <<"adapter", "approval", "delay", "decision", "parallel">>
MCOnError == <<"continue", "fail", "fail", "fallback", "fail">>
\* every candidate is of a kind of its own
MCKindOf == [c \in Candidates |-> c]

SvInit ==
    /\ WfInit /\ PmInit /\ FdInit /\ NkInit /\ SsInit /\ DpInit /\ AbInit /\ MsInit /\ WhInit /\ ExInit
    /\ BkInit /\ BlInit /\ CtInit
    /\ picked \in {"workflow", "providers", "federation", "keys", "scheduler",
                   "deployments", "buffer", "memory", "webhooks", "extensions",
                   "backups", "billing", "catalogue"}

\* The variables of the other components.
Unless(name, vars) == IF picked = name THEN TRUE ELSE UNCHANGED vars

SvNext ==
    /\ \/ picked = "workflow" /\ WfNext
       \/ picked = "providers" /\ PmNext
       \/ picked = "federation" /\ FdNext
       \/ picked = "keys" /\ NkNext
       \/ picked = "scheduler" /\ SsNext
       \/ picked = "deployments" /\ DpNext
       \/ picked = "buffer" /\ AbNext
       \/ picked = "memory" /\ MsNext
       \/ picked = "webhooks" /\ WhNext
       \/ picked = "extensions" /\ ExNext
       \/ picked = "backups" /\ BkNext
       \/ picked = "billing" /\ BlNext
       \/ picked = "catalogue" /\ CtNext
    /\ Unless("workflow", wfVars)
    /\ Unless("providers", pmVars)
    /\ Unless("federation", fdVars)
    /\ Unless("keys", nkVars)
    /\ Unless("scheduler", ssVars)
    /\ Unless("deployments", dpVars)
    /\ Unless("buffer", abVars)
    /\ Unless("memory", msVars)
    /\ Unless("webhooks", whVars)
    /\ Unless("extensions", exVars)
    /\ Unless("backups", bkVars)
    /\ Unless("billing", blVars)
    /\ Unless("catalogue", ctVars)
    /\ UNCHANGED picked

SvSpec == SvInit /\ [][SvNext]_<<picked, wfVars, pmVars, fdVars, nkVars, ssVars, dpVars, abVars, msVars, whVars,
                              exVars, bkVars, blVars, ctVars>>

\* Rows, calls and figures are of their types, in the component that moves.
ServicesTypeOK ==
    /\ picked = "workflow"    => WfTypeOK
    /\ picked = "providers"   => PmTypeOK
    /\ picked = "federation"  => FdTypeOK
    /\ picked = "keys"        => NkTypeOK
    /\ picked = "scheduler"   => SsTypeOK
    /\ picked = "deployments" => DpTypeOK
    /\ picked = "buffer"      => AbTypeOK
    /\ picked = "memory"      => MsTypeOK
    /\ picked = "webhooks"    => WhTypeOK
    /\ picked = "extensions"  => ExTypeOK
    /\ picked = "backups"     => BkTypeOK
    /\ picked = "billing"     => BlTypeOK
    /\ picked = "catalogue"   => CtTypeOK

\* Rows of odd and of even number are of two tenants.
MCTenantOf == [r \in AbRows |-> IF r % 2 = 1 THEN "odd" ELSE "even"]

\* A bound: deployment calls overlap, or die, or are undone out of order, not
\* two of these; and while one change only was proposed.  A third call comes
\* after the others, and after one proposal.  The scheduler's claims race, or its
\* ticks overlap, or fail, not two of these.
OneUpset ==
    /\ Cardinality(dpUpset) + Cardinality(proposed) <= 2
    /\ dpBegun = 3 => "overlap" \notin dpUpset /\ Cardinality(proposed) = 1
    /\ Cardinality(disturbed) <= 1

\* A bound: the first call about an extension, which installs it, overlaps no
\* other; of the rest two are going on at once.
CallsAboutExtension ==
    LET busy == {c \in ExCalls : exCall[c].pc \notin {"idle", "done"}} IN
    Cardinality(busy) <= IF 1 \in busy THEN 1 ELSE 2

\* Hosts, instances, tenancies, completions, providers, ticks and changes are
\* alike: of two behaviours that differ in their names, the one whose first call,
\* tick, completion or proposal has these names stands for both.
NamedFirst ==
    LET first == CHOOSE k \in Ticks : TRUE
        early == CHOOSE c \in Completions : TRUE
        change == CHOOSE x \in Changes : TRUE IN
    /\ exCall[1].on = NoExCall.on
    /\ bkCall[1].on = NoBkCall.on
    /\ blCall[1].org = NoBlCall.org
    /\ tick[first].inst = TickRow("idle").inst
    /\ tick[first].pc = "idle" => \A k \in Ticks : tick[k].pc = "idle"
    /\ cmpl[early].over \/ cmpl[early].prov = CHOOSE p \in Provs : TRUE
    /\ cmpl[early].pc = "idle" => \A c \in Completions : cmpl[c].pc = "idle"
    /\ proposed # {} => \E p \in proposed : p[2] = change

\* The states of a behaviour differ only in the component that moves.  What was
\* measured concerns the other run of Deployments.
Moving ==
    CASE picked = "workflow" -> <<picked, wfVars>>
      [] picked = "providers" -> <<picked, pmVars>>
      [] picked = "federation" -> <<picked, fdVars>>
      [] picked = "keys" -> <<picked, nkVars>>
      [] picked = "scheduler" -> <<picked, ssVars>>
      [] picked = "deployments" -> <<picked, prod, active, cand, exper, dep, dpCall, dpBegun, consented, proposed, dpUpset>>
      [] picked = "buffer" -> <<picked, abVars>>
      [] picked = "memory" -> <<picked, msVars>>
      [] picked = "webhooks" -> <<picked, whVars>>
      [] picked = "extensions" -> <<picked, exVars>>
      [] picked = "backups" -> <<picked, bkVars>>
      [] picked = "billing" -> <<picked, blVars>>
      [] picked = "catalogue" -> <<picked, ctVars>>
=============================================================================

------------------------------ MODULE Billing ------------------------------
(***************************************************************************)
(* Subscriptions and their invoices (BillingService).  People subscribe,  *)
(* cancel and ask for invoices; an hourly sweep, which the leader runs,    *)
(* renews what has ended: it lists the rows, and for each in turn issues   *)
(* an invoice and begins a new period, or ends a cancelled subscription.   *)
(*                                                                         *)
(* A step is one statement.  The sweep judges by the rows of its list.     *)
(* What one organization's renewal throws ends the sweep.  Periods are     *)
(* numbered; amounts, seats, plans and payment are not represented.        *)
(***************************************************************************)
EXTENDS Naturals, FiniteSets

CONSTANTS
    Tenancies,       \* the organizations
    MaxPeriods,      \* bound: periods of a subscription
    MaxBlCalls,      \* bound: calls, numbered as they begin
    MaxSweeps        \* bound: of these, renewals

Periods == 1 .. MaxPeriods
BlCalls == 1 .. MaxBlCalls

ASSUME BillingAssumption ==
    Tenancies # {} /\ MaxPeriods \in Nat \ {0} /\ MaxBlCalls \in Nat /\ MaxSweeps \in Nat

VARIABLES
    sub,       \* the rows; `ended`: currentPeriodEnd has passed
    invoice,   \* the rows; with histories: issued by a renewal, and while a cancellation was pending
    blCall,
    muddled,   \* history: organizations whose renewal overlapped another or died half way
    crossed    \* history: organizations whose subscription was changed while a sweep had it in hand

blVars == <<sub, invoice, blCall, muddled, crossed>>

NoSub    == [status |-> "none", period |-> 1, ended |-> FALSE, cancel |-> FALSE]
NoBlCall == [pc |-> "idle", op |-> "renew", due |-> {}, org |-> CHOOSE g \in Tenancies : TRUE,
             row |-> NoSub, number |-> 0]

BlInit ==
    /\ sub = [g \in Tenancies |-> NoSub]
    /\ invoice = {}
    /\ blCall = [c \in BlCalls |-> NoBlCall]
    /\ muddled = {} /\ crossed = {}

BlAt(c, step) == blCall[c].pc = step
BlSet(c, r)   == blCall' = [blCall EXCEPT ![c] = r]
BlGo(c, step) == BlSet(c, IF step = "done" THEN [NoBlCall EXCEPT !.pc = "done", !.op = blCall[c].op]
                          ELSE [blCall[c] EXCEPT !.pc = step])
BlBegins(c)   == BlAt(c, "idle") /\ \A x \in 1 .. c - 1 : ~BlAt(x, "idle")
Sweeping(c)   == blCall[c].op = "renew" /\ blCall[c].pc \notin {"idle", "done"}
\* The organizations a sweep is at, or will come to.
SweptBy(c)    == {p[1] : p \in blCall[c].due} \union {g \in {blCall[c].org} : ~BlAt(c, "next")}
Swept         == UNION {SweptBy(c) : c \in {x \in BlCalls : Sweeping(x)}}
InvoicesOf(g) == {x \in invoice : x.org = g}
-----------------------------------------------------------------------------
(* Requests                                                                 *)

\* What a person asks for is read first, and written from what was read.
AskBilling(c, g, op) ==
    /\ BlBegins(c)
    /\ op # "subscribe" => sub[g].status # "none"
    /\ BlSet(c, [NoBlCall EXCEPT !.pc = IF op = "invoice" THEN "count" ELSE "write",
                 !.op = op, !.org = g, !.row = sub[g]])
    /\ UNCHANGED <<sub, invoice, muddled, crossed>>

\* The period begins now, and nothing is pending.
Fresh(status, period) == [status |-> status, period |-> period, ended |-> FALSE, cancel |-> FALSE]

\* subscribe(): the first may be a trial; an organization has one row.
Subscribe(c) ==
    LET g == blCall[c].org IN
    /\ BlAt(c, "write") /\ blCall[c].op = "subscribe"
    /\ \/ /\ blCall[c].row.status = "none" /\ sub[g].status = "none"
          /\ \E s \in {"TRIALING", "ACTIVE"} : sub' = [sub EXCEPT ![g] = Fresh(s, 1)]
       \/ /\ blCall[c].row.status = "none" /\ sub[g].status # "none" /\ UNCHANGED sub
       \/ /\ blCall[c].row.status # "none" /\ sub[g].period < MaxPeriods
          /\ sub' = [sub EXCEPT ![g] = Fresh("ACTIVE", @.period + 1)]
    /\ crossed' = crossed \union ({g} \intersect Swept)
    /\ BlGo(c, "done")
    /\ UNCHANGED <<invoice, muddled>>

\* cancel(): always at the end of the period.
Cancel(c) ==
    LET g == blCall[c].org IN
    /\ BlAt(c, "write") /\ blCall[c].op = "cancel"
    /\ sub' = [sub EXCEPT ![g].cancel = TRUE]
    /\ crossed' = crossed \union ({g} \intersect Swept)
    /\ BlGo(c, "done")
    /\ UNCHANGED <<invoice, muddled>>
-----------------------------------------------------------------------------
(* issueInvoice(), for a request or a renewal                               *)

\* nextNumber()
CountInvoices(c) ==
    /\ BlAt(c, "count")
    /\ BlSet(c, [blCall[c] EXCEPT !.pc = "create", !.number = Cardinality(InvoicesOf(blCall[c].org)) + 1])
    /\ UNCHANGED <<sub, invoice, muddled, crossed>>

\* Numbers are unique in an organization: if the number is taken this throws.
CreateInvoice(c) ==
    LET m == blCall[c] IN
    /\ BlAt(c, "create")
    /\ \/ /\ \E x \in InvoicesOf(m.org) : x.number = m.number
          /\ BlGo(c, "done") /\ UNCHANGED invoice
       \/ /\ \A x \in InvoicesOf(m.org) : x.number # m.number
          /\ invoice' = invoice \union {[org |-> m.org, number |-> m.number, period |-> m.row.period,
                                         renewal |-> m.op = "renew", cancelled |-> sub[m.org].cancel]}
          /\ BlGo(c, IF m.op = "renew" THEN "advance" ELSE "done")
    /\ UNCHANGED <<sub, muddled, crossed>>
-----------------------------------------------------------------------------
(* renewDue()                                                               *)

DueForRenewal == {g \in Tenancies : sub[g].status \in {"TRIALING", "ACTIVE"} /\ sub[g].ended}

RenewDue(c) ==
    /\ BlBegins(c) /\ Cardinality({x \in BlCalls : blCall[x].op = "renew" /\ ~BlAt(x, "idle")}) < MaxSweeps
    /\ DueForRenewal # {}
    /\ BlSet(c, [NoBlCall EXCEPT !.pc = "next", !.due = {<<g, sub[g]>> : g \in DueForRenewal}])
    /\ muddled' = muddled \union (DueForRenewal \intersect Swept)
    /\ UNCHANGED <<sub, invoice, crossed>>

\* (mutant) a trial that ends is invoiced although it was cancelled
EndsActive(row) == row.cancel /\ row.status # "TRIALING"
Ends(row)       == row.cancel

RenewNext(c) ==
    /\ BlAt(c, "next")
    /\ \/ blCall[c].due = {} /\ BlGo(c, "done")
       \/ \E p \in blCall[c].due :
             BlSet(c, [blCall[c] EXCEPT !.pc = IF Ends(p[2]) THEN "end" ELSE "count",
                       !.due = @ \ {p}, !.org = p[1], !.row = p[2]])
    /\ UNCHANGED <<sub, invoice, muddled, crossed>>

EndSubscription(c) ==
    /\ BlAt(c, "end")
    /\ sub' = [sub EXCEPT ![blCall[c].org].status = "CANCELLED"]
    /\ BlGo(c, "next")
    /\ UNCHANGED <<invoice, muddled, crossed>>

\* The cancellation is not written: one that came meanwhile stays.
BeginPeriod(c) ==
    LET g == blCall[c].org IN
    /\ BlAt(c, "advance") /\ sub[g].period < MaxPeriods
    /\ sub' = [sub EXCEPT ![g] = [@ EXCEPT !.status = "ACTIVE", !.period = sub[g].period + 1, !.ended = FALSE]]
    /\ BlGo(c, "next")
    /\ UNCHANGED <<invoice, muddled, crossed>>
-----------------------------------------------------------------------------
PeriodEnds(g) ==
    /\ sub[g].status # "none" /\ ~sub[g].ended
    /\ sub' = [sub EXCEPT ![g].ended = TRUE]
    /\ UNCHANGED <<invoice, blCall, muddled, crossed>>

\* The process that runs a call stops.
BlCallDies(c) ==
    /\ blCall[c].pc \notin {"idle", "done"}
    /\ muddled' = muddled \union {g \in {blCall[c].org} : BlAt(c, "advance")}
    /\ BlGo(c, "done")
    /\ UNCHANGED <<sub, invoice, crossed>>

BlNext ==
    \/ \E c \in BlCalls :
          \/ \E g \in Tenancies, op \in {"subscribe", "cancel", "invoice"} : AskBilling(c, g, op)
          \/ Subscribe(c) \/ Cancel(c) \/ CountInvoices(c) \/ CreateInvoice(c)
          \/ RenewDue(c) \/ RenewNext(c) \/ EndSubscription(c) \/ BeginPeriod(c) \/ BlCallDies(c)
    \/ \E g \in Tenancies : PeriodEnds(g)

BlSpec == BlInit /\ [][BlNext]_blVars
-----------------------------------------------------------------------------
\* Subscriptions, invoices and calls are of their types.
BlTypeOK ==
    LET Row == [status : {"none", "TRIALING", "ACTIVE", "CANCELLED"}, period : Periods,
                ended : BOOLEAN, cancel : BOOLEAN]
    IN
    /\ sub \in [Tenancies -> Row]
    /\ \A x \in invoice : x.org \in Tenancies /\ x.period \in Periods /\ x.number \in Nat
    /\ \A c \in BlCalls :
          /\ blCall[c].pc \in {"idle", "write", "count", "create", "next", "end", "advance", "done"}
          /\ blCall[c].op \in {"renew", "subscribe", "cancel", "invoice"}
          /\ blCall[c].due \subseteq Tenancies \X Row /\ blCall[c].row \in Row
    /\ muddled \subseteq Tenancies /\ crossed \subseteq Tenancies

\* Organizations are billed as agreed, whatever sweeps die, abort or overlap
\* with requests: the sweep invoices a period once unless two sweeps had it in
\* hand or one died between the invoice and the new period; and unless a
\* request crossed a sweep, no period whose cancellation is pending is renewed,
\* and nothing is ended that was not cancelled, or was subscribed to again.
BilledAsAgreed ==
    /\ \A x, y \in invoice :
          x.renewal /\ y.renewal /\ x.org = y.org /\ x.period = y.period => x = y \/ x.org \in muddled
    /\ \A x \in invoice : x.renewal /\ x.cancelled => x.org \in crossed
    /\ \A g \in Tenancies : sub[g].status = "CANCELLED" => sub[g].cancel \/ g \in crossed
=============================================================================

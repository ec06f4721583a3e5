------------------------------ MODULE Webhooks ------------------------------
(***************************************************************************)
(* Outbound webhooks (WebhookDispatcher).  A domain event is enqueued for *)
(* every subscribed endpoint and attempted at once; what failed is tried  *)
(* again by a sweep, which a client has to call; what failed too often    *)
(* becomes a dead letter.  An endpoint that fails too often in a row is   *)
(* disabled, and an endpoint can be deleted at any time.                  *)
(*                                                                        *)
(* A step is one statement.  An attempt reads the delivery and the        *)
(* endpoint once and writes from what it read, whatever other attempts    *)
(* have written meanwhile.  Updating or reading a deleted endpoint        *)
(* throws.  The receiver is external: it answers or it does not.          *)
(***************************************************************************)
EXTENDS Naturals, FiniteSets

CONSTANTS
    Endpoints,
    MaxDeliveries,   \* bound: rows, numbered as they are created
    MaxWhCalls,      \* bound: fan-outs and sweeps, numbered as they begin
    MaxRetries,      \* WebhookEndpoint.maxRetries
    MAX_STREAK

Deliveries == 1 .. MaxDeliveries
WhCalls    == 1 .. MaxWhCalls

ASSUME WebhooksAssumption ==
    /\ Endpoints # {} /\ MaxDeliveries \in Nat /\ MaxWhCalls \in Nat
    /\ MaxRetries \in Nat \ {0} /\ MAX_STREAK \in Nat \ {0}

VARIABLES
    endpoint,    \* the rows, with the failures in a row
    delivery,    \* the rows; `once`, a history: it was DELIVERED before
    letters,     \* the deliveries with a dead letter
    whCall,      \* the calls in progress
    abandoned,   \* history: deliveries whose call died at them
    contended    \* history: deliveries that two calls had in hand at once

whVars == <<endpoint, delivery, letters, whCall, abandoned, contended>>

NoCall == [pc |-> "idle", sweep |-> FALSE, targets |-> {}, due |-> {}, d |-> 0, attempts |-> 0,
           streak |-> 0, inTry |-> FALSE]

WhInit ==
    /\ endpoint = [e \in Endpoints |-> [removed |-> FALSE, enabled |-> TRUE, streak |-> 0]]
    /\ delivery = [d \in Deliveries |-> [status |-> "none", to |-> CHOOSE e \in Endpoints : TRUE,
                                         attempts |-> 0, due |-> FALSE, once |-> FALSE]]
    /\ letters = {}
    /\ whCall = [c \in WhCalls |-> NoCall]
    /\ abandoned = {} /\ contended = {}

WhAt(c, step) == whCall[c].pc = step
Starts(c)     == WhAt(c, "idle") /\ \A x \in 1 .. c - 1 : ~WhAt(x, "idle")
WhSet(c, r)   == whCall' = [whCall EXCEPT ![c] = r]
WhGo(c, step) == WhSet(c, [whCall[c] EXCEPT !.pc = step])
To(c)         == delivery[whCall[c].d].to
Attempting(c) == whCall[c].pc \notin {"idle", "next", "done", "aborted", "dead"}
\* What a call is at, or will come to.
InHand(c)     == whCall[c].due \union {d \in {whCall[c].d} : Attempting(c)}
-----------------------------------------------------------------------------
(* The callers                                                              *)

\* onDomainEvent: the subscribers are read, then served one after the other.
FanOut(c) ==
    /\ Starts(c)
    /\ WhSet(c, [NoCall EXCEPT !.pc = "next",
                 !.targets = {e \in Endpoints : ~endpoint[e].removed /\ endpoint[e].enabled}])
    /\ UNCHANGED <<endpoint, delivery, letters, abandoned, contended>>

\* enqueue
Enqueue(c) ==
    /\ WhAt(c, "next") /\ ~whCall[c].sweep
    /\ \E e \in whCall[c].targets, d \in Deliveries :
          /\ delivery[d].status = "none" /\ \A x \in 1 .. d - 1 : delivery[x].status # "none"
          /\ delivery' = [delivery EXCEPT ![d] = [@ EXCEPT !.status = "PENDING", !.to = e]]
          /\ WhSet(c, [whCall[c] EXCEPT !.pc = "read", !.targets = @ \ {e}, !.d = d])
    /\ UNCHANGED <<endpoint, letters, abandoned, contended>>

Retryable == {d \in Deliveries : delivery[d].status = "FAILED" /\ delivery[d].due}

\* retryPending: what is due is read, then tried one after the other.
Sweep(c) ==
    /\ Starts(c)
    /\ WhSet(c, [NoCall EXCEPT !.pc = "next", !.sweep = TRUE, !.due = Retryable])
    /\ contended' = contended \union UNION {InHand(x) \intersect Retryable : x \in WhCalls}
    /\ UNCHANGED <<endpoint, delivery, letters, abandoned>>

SweepNext(c) ==
    /\ WhAt(c, "next") /\ whCall[c].sweep
    /\ \E d \in whCall[c].due :
          WhSet(c, [whCall[c] EXCEPT !.pc = "read", !.due = @ \ {d}, !.d = d])
    /\ UNCHANGED <<endpoint, delivery, letters, abandoned, contended>>

WhFinish(c) ==
    /\ WhAt(c, "next") /\ whCall[c].targets = {} /\ whCall[c].due = {}
    /\ WhGo(c, "done")
    /\ UNCHANGED <<endpoint, delivery, letters, abandoned, contended>>

\* What an attempt throws is caught by enqueue, and ends the sweep.
Thrown(c) == WhGo(c, IF whCall[c].sweep THEN "aborted" ELSE "next")
-----------------------------------------------------------------------------
(* attempt()                                                                *)

ReadDelivery(c) ==
    /\ WhAt(c, "read")
    /\ WhSet(c, [whCall[c] EXCEPT !.pc = "readEndpoint", !.attempts = delivery[whCall[c].d].attempts + 1])
    /\ UNCHANGED <<endpoint, delivery, letters, abandoned, contended>>

\* (mutant) a deleted endpoint is found too
UnfoundNever(c) == FALSE
Unfound(c)      == endpoint[To(c)].removed

ReadEndpoint(c) ==
    /\ WhAt(c, "readEndpoint")
    /\ \/ Unfound(c) /\ Thrown(c)
       \/ /\ ~Unfound(c)
          /\ WhSet(c, [whCall[c] EXCEPT !.pc = "request", !.streak = endpoint[To(c)].streak])
    /\ UNCHANGED <<endpoint, delivery, letters, abandoned, contended>>

\* The receiver answers 2xx, answers something else, or does not answer; only
\* the failure after an answer is recorded inside the try.
Post(c) ==
    /\ WhAt(c, "request")
    /\ \/ WhGo(c, "delivered")
       \/ \E answered \in BOOLEAN : WhSet(c, [whCall[c] EXCEPT !.pc = "failed", !.inTry = answered])
    /\ UNCHANGED <<endpoint, delivery, letters, abandoned, contended>>

RecordDelivered(c) ==
    /\ WhAt(c, "delivered")
    /\ delivery' = [delivery EXCEPT ![whCall[c].d] =
                      [@ EXCEPT !.status = "DELIVERED", !.attempts = whCall[c].attempts, !.due = FALSE,
                                !.once = TRUE]]
    /\ WhGo(c, "healthy")
    /\ UNCHANGED <<endpoint, letters, abandoned, contended>>

\* If the endpoint is gone the update throws, and the catch records a failure.
RecordHealthy(c) ==
    /\ WhAt(c, "healthy")
    /\ \/ /\ endpoint[To(c)].removed
          /\ WhSet(c, [whCall[c] EXCEPT !.pc = "failed", !.inTry = FALSE])
          /\ UNCHANGED endpoint
       \/ /\ ~endpoint[To(c)].removed
          /\ endpoint' = [endpoint EXCEPT ![To(c)].streak = 0]
          /\ WhGo(c, "next")
    /\ UNCHANGED <<delivery, letters, abandoned, contended>>
-----------------------------------------------------------------------------
(* recordFailure()                                                          *)

OutOfRetries(c) == whCall[c].attempts >= MaxRetries

RecordFailed(c) ==
    /\ WhAt(c, "failed")
    /\ delivery' = [delivery EXCEPT ![whCall[c].d] =
                      [@ EXCEPT !.status = IF OutOfRetries(c) THEN "EXHAUSTED" ELSE "FAILED",
                                !.attempts = whCall[c].attempts, !.due = FALSE]]
    /\ WhGo(c, "unhealthy")
    /\ UNCHANGED <<endpoint, letters, abandoned, contended>>

\* (mutant) the dead letter is left to the attempt that disables the endpoint
AfterUnhealthyDisabled(c) ==
    IF OutOfRetries(c) /\ whCall[c].streak + 1 >= MAX_STREAK THEN "letter" ELSE "next"
AfterUnhealthy(c) == IF OutOfRetries(c) THEN "letter" ELSE "next"

\* The streak continues the one that was read; if the endpoint is gone this
\* throws, inside the try to record the failure once more.
RecordUnhealthy(c) ==
    LET streak == whCall[c].streak + 1 IN
    /\ WhAt(c, "unhealthy")
    /\ \/ /\ ~endpoint[To(c)].removed
          /\ endpoint' = [endpoint EXCEPT ![To(c)] =
                [@ EXCEPT !.streak = streak, !.enabled = endpoint[To(c)].enabled /\ streak < MAX_STREAK]]
          /\ WhGo(c, AfterUnhealthy(c))
       \/ /\ endpoint[To(c)].removed /\ UNCHANGED endpoint
          /\ \/ whCall[c].inTry /\ WhSet(c, [whCall[c] EXCEPT !.pc = "failed", !.inTry = FALSE])
             \/ ~whCall[c].inTry /\ Thrown(c)
    /\ UNCHANGED <<delivery, letters, abandoned, contended>>

RecordLetter(c) ==
    /\ WhAt(c, "letter")
    /\ letters' = letters \union {whCall[c].d}
    /\ WhGo(c, "next")
    /\ UNCHANGED <<endpoint, delivery, abandoned, contended>>
-----------------------------------------------------------------------------
(* Time, deletion, restarts                                                 *)

BackoffElapses(d) ==
    /\ delivery[d].status = "FAILED" /\ ~delivery[d].due
    /\ delivery' = [delivery EXCEPT ![d].due = TRUE]
    /\ UNCHANGED <<endpoint, letters, whCall, abandoned, contended>>

RemoveEndpoint(e) ==
    /\ ~endpoint[e].removed
    /\ endpoint' = [endpoint EXCEPT ![e].removed = TRUE]
    /\ UNCHANGED <<delivery, letters, whCall, abandoned, contended>>

\* The process that runs a call stops.
CallDies(c) ==
    /\ Attempting(c) \/ WhAt(c, "next")
    /\ WhGo(c, "dead")
    /\ abandoned' = abandoned \union {d \in {whCall[c].d} : Attempting(c)}
    /\ UNCHANGED <<endpoint, delivery, letters, contended>>

WhNext ==
    \/ \E c \in WhCalls :
          \/ FanOut(c) \/ Enqueue(c) \/ Sweep(c) \/ SweepNext(c) \/ WhFinish(c)
          \/ ReadDelivery(c) \/ ReadEndpoint(c) \/ Post(c)
          \/ RecordDelivered(c) \/ RecordHealthy(c)
          \/ RecordFailed(c) \/ RecordUnhealthy(c) \/ RecordLetter(c)
          \/ CallDies(c)
    \/ \E d \in Deliveries : BackoffElapses(d)
    \/ \E e \in Endpoints : RemoveEndpoint(e)

WhSpec == WhInit /\ [][WhNext]_whVars
-----------------------------------------------------------------------------
\* Endpoints, deliveries and calls are of their types.
WhTypeOK ==
    /\ endpoint \in [Endpoints -> [removed : BOOLEAN, enabled : BOOLEAN, streak : Nat]]
    /\ delivery \in [Deliveries -> [status : {"none", "PENDING", "FAILED", "DELIVERED", "EXHAUSTED"},
                                    to : Endpoints, attempts : Nat, due : BOOLEAN, once : BOOLEAN]]
    /\ letters \subseteq Deliveries
    /\ whCall \in [WhCalls -> [pc : {"idle", "next", "read", "readEndpoint", "request", "delivered",
                                     "healthy", "failed", "unhealthy", "letter", "done", "aborted", "dead"},
                               sweep : BOOLEAN, targets : SUBSET Endpoints, due : SUBSET Deliveries,
                               d : Deliveries \union {0}, attempts : Nat, streak : Nat, inTry : BOOLEAN]]
    /\ abandoned \subseteq Deliveries /\ contended \subseteq Deliveries

\* Nothing is dropped: what was enqueued is delivered, waits for a sweep, has a
\* dead letter or is being attempted, unless its endpoint was deleted or its
\* process stopped at it ("dead-lettered rather than dropped", the header of
\* WebhookDispatcher).
NothingDropped ==
    \A d \in Deliveries \ abandoned :
        delivery[d].status # "none" =>
            \/ delivery[d].status \in {"DELIVERED", "FAILED"}
            \/ delivery[d].status = "EXHAUSTED" /\ d \in letters
            \/ \E c \in WhCalls : Attempting(c) /\ whCall[c].d = d
            \/ endpoint[delivery[d].to].removed

\* What was delivered is not sent again, unless two calls had it in hand at
\* once; also when deleting the endpoint turned the delivery into a failed one.
DeliveredIsOver ==
    \A c \in WhCalls :
        WhAt(c, "request") /\ delivery[whCall[c].d].once => whCall[c].d \in contended
=============================================================================

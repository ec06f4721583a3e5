----------------------------- MODULE TaskGraph -----------------------------
(***************************************************************************)
(* What mission execution promises about a task graph, whatever the number *)
(* of orchestrators walking it and of requests racing them: work begins on *)
(* a task only once everything it depends on has produced a result (or was *)
(* declared complete by an operator), and a result appears only for work   *)
(* that was begun.  Mission.tla implements this specification.             *)
(***************************************************************************)
EXTENDS FiniteSets

CONSTANTS Tasks,  \* the tasks of one mission
          Deps    \* Deps[t]: the siblings task t depends on

VARIABLES begun,      \* tasks a worker was ever set to work on
          produced,   \* tasks for which a worker ever succeeded
          overridden  \* tasks an operator ever marked COMPLETED by hand

vars == <<begun, produced, overridden>>

Settled == produced \union overridden

Init == begun = {} /\ produced = {} /\ overridden = {}

Begin(t) ==
    /\ Deps[t] \subseteq Settled
    /\ begun' = begun \union {t}
    /\ UNCHANGED <<produced, overridden>>

Produce(t) ==
    /\ t \in begun
    /\ produced' = produced \union {t}
    /\ UNCHANGED <<begun, overridden>>

Override(t) ==
    /\ overridden' = overridden \union {t}
    /\ UNCHANGED <<begun, produced>>

Next == \E t \in Tasks : Begin(t) \/ Produce(t) \/ Override(t)

Spec == Init /\ [][Next]_vars
=============================================================================

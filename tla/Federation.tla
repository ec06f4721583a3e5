----------------------------- MODULE Federation -----------------------------
(***************************************************************************)
(* FederationService: one organization lends resources to another under a  *)
(* grant that its peer has to accept and that either side may revoke.  A   *)
(* call reads the grant, then writes it; accepting and revoking race.  The *)
(* counter of borrowed tasks is not modelled: beginBorrowed and            *)
(* endBorrowed have no caller, so it stays zero and check() never finds    *)
(* the grant at its limit.                                                 *)
(***************************************************************************)
EXTENDS Naturals

CONSTANTS
    Orgs,       \* the organizations
    Resources,  \* what can be lent
    FdCalls     \* concurrent calls

ASSUME FederationAssumption == Orgs # {}

VARIABLES
    grant,      \* grant[o][p], the row for resources of o lent to p
    fdCall,     \* where each call is
    accepted,   \* history: <<o, p>>: p accepted the grant of o
    withdrawn,  \* history: <<o, p>>: one side revoked it
    borrowed    \* history: what was let through, with whether the grant was withdrawn when read

fdVars == <<grant, fdCall, accepted, withdrawn, borrowed>>

FdStatus == {"none", "PENDING", "ACTIVE", "REVOKED"}
NoGrant == [status |-> "none", resources |-> {}, expired |-> FALSE]

FdInit ==
    /\ grant = [o \in Orgs |-> [p \in Orgs |-> NoGrant]]
    /\ fdCall = [c \in FdCalls |-> [pc |-> "idle", op |-> "none", owner |-> CHOOSE o \in Orgs : TRUE,
                                    peer |-> CHOOSE o \in Orgs : TRUE]]
    /\ accepted = {} /\ withdrawn = {} /\ borrowed = {}

FdGo(c, step)  == fdCall' = [fdCall EXCEPT ![c].pc = step]
Row(c)         == grant[fdCall[c].owner][fdCall[c].peer]
Parties(c)     == <<fdCall[c].owner, fdCall[c].peer>>
FdWrite(c, r)  == grant' = [grant EXCEPT ![fdCall[c].owner][fdCall[c].peer] = r]
FdIs(c, op, step) == fdCall[c].op = op /\ fdCall[c].pc = step
-----------------------------------------------------------------------------
\* A request about the grant of one organization to another.
FdBegin(c) ==
    /\ fdCall[c].pc = "idle"
    /\ \E o, p \in Orgs, op \in {"issue", "accept", "revoke"} :
          /\ o # p
          /\ fdCall' = [fdCall EXCEPT ![c] = [pc |-> "read", op |-> op, owner |-> o, peer |-> p]]
    /\ UNCHANGED <<grant, accepted, withdrawn, borrowed>>

\* issue(): an existing row of any status refuses it, a revoked one too.
IssueRead(c) ==
    /\ FdIs(c, "issue", "read")
    /\ FdGo(c, IF Row(c).status = "none" THEN "write" ELSE "done")
    /\ UNCHANGED <<grant, accepted, withdrawn, borrowed>>

\* @@unique([organizationId, peerOrganizationId]).
IssueWrite(c) ==
    /\ FdIs(c, "issue", "write")
    /\ \/ /\ Row(c).status = "none"
          /\ \E R \in (SUBSET Resources) \ {{}} :
                FdWrite(c, [status |-> "PENDING", resources |-> R, expired |-> FALSE])
       \/ Row(c).status # "none" /\ UNCHANGED grant
    /\ FdGo(c, "done")
    /\ UNCHANGED <<accepted, withdrawn, borrowed>>

\* accept(), by the peer.
AcceptRead(c) ==
    /\ FdIs(c, "accept", "read")
    /\ FdGo(c, IF Row(c).status = "PENDING" THEN "write" ELSE "done")
    /\ UNCHANGED <<grant, accepted, withdrawn, borrowed>>

Acceptable(status) == status = "PENDING"

AcceptWrite(c) ==
    /\ FdIs(c, "accept", "write")
    /\ \/ /\ Acceptable(Row(c).status)
          /\ FdWrite(c, [Row(c) EXCEPT !.status = "ACTIVE"])
          /\ accepted' = accepted \union {Parties(c)}
       \/ ~Acceptable(Row(c).status) /\ UNCHANGED <<grant, accepted>>
    /\ FdGo(c, "done")
    /\ UNCHANGED <<withdrawn, borrowed>>

\* revoke(), by either side, of a grant of any status.
RevokeRead(c) ==
    /\ FdIs(c, "revoke", "read")
    /\ FdGo(c, IF Row(c).status # "none" THEN "write" ELSE "done")
    /\ UNCHANGED <<grant, accepted, withdrawn, borrowed>>

RevokeWrite(c) ==
    /\ FdIs(c, "revoke", "write")
    /\ FdWrite(c, [Row(c) EXCEPT !.status = "REVOKED"])
    /\ withdrawn' = withdrawn \union {Parties(c)}
    /\ FdGo(c, "done")
    /\ UNCHANGED <<accepted, borrowed>>

\* (mutant) a grant is usable from the moment it is issued
UsableWhenIssued(g) == g.status \in {"PENDING", "ACTIVE"} /\ ~g.expired
\* findUsableUnscoped
Usable(g) == g.status = "ACTIVE" /\ ~g.expired

\* check() by the peer: the owner's own resources need no grant.
Check(o, p, r) ==
    /\ o # p
    /\ Usable(grant[o][p]) /\ r \in grant[o][p].resources
    /\ borrowed' = borrowed \union {[parties |-> <<o, p>>, withdrawn |-> <<o, p>> \in withdrawn,
                                     accepted |-> <<o, p>> \in accepted]}
    /\ UNCHANGED <<grant, fdCall, accepted, withdrawn>>

\* expiresAt passes.
GrantExpires(o, p) ==
    /\ grant[o][p].status # "none" /\ ~grant[o][p].expired
    /\ grant' = [grant EXCEPT ![o][p].expired = TRUE]
    /\ UNCHANGED <<fdCall, accepted, withdrawn, borrowed>>

FdNext ==
    \/ \E c \in FdCalls :
          FdBegin(c) \/ IssueRead(c) \/ IssueWrite(c) \/ AcceptRead(c) \/ AcceptWrite(c)
          \/ RevokeRead(c) \/ RevokeWrite(c)
    \/ \E o, p \in Orgs : GrantExpires(o, p) \/ \E r \in Resources : Check(o, p, r)

FdSpec == FdInit /\ [][FdNext]_fdVars
-----------------------------------------------------------------------------
(* Properties.                                                              *)

\* Types of the grants and the calls.
FdTypeOK ==
    /\ grant \in [Orgs -> [Orgs -> [status : FdStatus, resources : SUBSET Resources, expired : BOOLEAN]]]
    /\ fdCall \in [FdCalls -> [pc : {"idle", "read", "write", "done"}, owner : Orgs, peer : Orgs,
                               op : {"none", "issue", "accept", "revoke"}]]
    /\ accepted \subseteq Orgs \X Orgs /\ withdrawn \subseteq Orgs \X Orgs

\* Nothing is lent under a grant the peer had not accepted or one side had
\* withdrawn, whichever way accept() and revoke(), each a read and a write,
\* interleave (the update of acceptAsPeer repeats the condition on PENDING).
OnlyGrantedIsLent == \A b \in borrowed : b.accepted /\ ~b.withdrawn

\* A revoked grant is never anything else again.
RevocationIsFinal == \A e \in withdrawn : grant[e[1]][e[2]].status = "REVOKED"
=============================================================================

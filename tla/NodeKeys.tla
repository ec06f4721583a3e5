------------------------------ MODULE NodeKeys ------------------------------
(***************************************************************************)
(* NodeSecurityService: the versioned keys of one node.  A rotation        *)
(* creates the next version, then retires the versions that were ACTIVE    *)
(* when it listed them, one statement each; a revocation writes the        *)
(* versions it listed.  Rotations and revocations interleave, and any of   *)
(* them may fail between two statements.                                   *)
(***************************************************************************)
EXTENDS Naturals, FiniteSets

CONSTANTS
    MaxVersion,  \* bound: versions of the key
    NkCalls      \* calls of rotateKey, and of trust(false) or decommission

ASSUME NodeKeysAssumption == MaxVersion \in Nat \ {0}

VARIABLES
    key,        \* the key rows, by version (unique per node)
    nkCall,     \* where each call is and what it listed
    nkRevoked,  \* history: the versions that were ever revoked
    nkFailed    \* history: a rotation or revocation failed half way

nkVars == <<key, nkCall, nkRevoked, nkFailed>>

Versions == 1 .. MaxVersion
NoKeyRow == [status |-> "none", over |-> FALSE, revokedAt |-> FALSE]

\* issueInitialKey, during registration.
NkInit ==
    /\ key = [v \in Versions |-> IF v = 1 THEN [NoKeyRow EXCEPT !.status = "ACTIVE"] ELSE NoKeyRow]
    /\ nkCall = [c \in NkCalls |-> [pc |-> "idle", version |-> 0, left |-> {}]]
    /\ nkRevoked = {}
    /\ nkFailed = FALSE

Listed == {v \in Versions : key[v].status # "none"}
Actives == {v \in Listed : key[v].status = "ACTIVE"}
NkAt(c, step) == nkCall[c].pc = step
NkSet(c, r) == nkCall' = [nkCall EXCEPT ![c] = r]
-----------------------------------------------------------------------------
Others == <<nkRevoked, nkFailed>>

\* rotate() lists the keys: the next version, and the ACTIVE ones to retire.
RotateList(c) ==
    /\ NkAt(c, "idle")
    /\ Cardinality(Listed) < MaxVersion
    /\ NkSet(c, [pc |-> "create", version |-> Cardinality(Listed) + 1, left |-> Actives])
    /\ UNCHANGED <<key, Others>>

\* The version that followed the highest listed.
CreatedVersion(c) == nkCall[c].version

\* (mutant) the new version is among those to retire
ToRetireAll(c) == nkCall[c].left \union {nkCall[c].version}
ToRetire(c) == nkCall[c].left

\* @@unique([nodeId, version]) refuses the second of two equal versions.
RotateCreate(c) ==
    /\ NkAt(c, "create")
    /\ LET v == CreatedVersion(c) IN
       \/ /\ v \in Versions \ Listed
          /\ key' = [key EXCEPT ![v] = [NoKeyRow EXCEPT !.status = "ACTIVE"]]
          /\ NkSet(c, [nkCall[c] EXCEPT !.pc = "retire", !.left = ToRetire(c)])
       \/ /\ v \in Listed
          /\ NkSet(c, [nkCall[c] EXCEPT !.pc = "done"])
          /\ UNCHANGED key
    /\ UNCHANGED Others

\* The update names the key only: one revoked meanwhile becomes RETIRING and
\* keeps its revokedAt.
RotateRetire(c) ==
    /\ NkAt(c, "retire")
    /\ \/ \E v \in nkCall[c].left :
             /\ key' = [key EXCEPT ![v].status = "RETIRING", ![v].over = FALSE]
             /\ NkSet(c, [nkCall[c] EXCEPT !.left = @ \ {v}])
       \/ /\ nkCall[c].left = {}
          /\ NkSet(c, [nkCall[c] EXCEPT !.pc = "done"])
          /\ UNCHANGED key
    /\ UNCHANGED Others

\* revokeAll(): the listed keys that are not REVOKED.
RevokeList(c) ==
    /\ NkAt(c, "idle")
    /\ NkSet(c, [nkCall[c] EXCEPT !.pc = "revoke", !.left = {v \in Listed : key[v].status # "REVOKED"}])
    /\ UNCHANGED <<key, Others>>

RevokeOne(c) ==
    /\ NkAt(c, "revoke")
    /\ \/ \E v \in nkCall[c].left :
             /\ key' = [key EXCEPT ![v].status = "REVOKED", ![v].revokedAt = TRUE]
             /\ nkRevoked' = nkRevoked \union {v}
             /\ NkSet(c, [nkCall[c] EXCEPT !.left = @ \ {v}])
       \/ /\ nkCall[c].left = {}
          /\ NkSet(c, [nkCall[c] EXCEPT !.pc = "done"])
          /\ UNCHANGED <<key, nkRevoked>>
    /\ UNCHANGED nkFailed

\* A statement fails, or the process dies: what was written stays.
CallFails(c) ==
    /\ nkCall[c].pc \in {"create", "retire", "revoke"}
    /\ NkSet(c, [nkCall[c] EXCEPT !.pc = "done"])
    /\ nkFailed' = TRUE
    /\ UNCHANGED <<key, nkRevoked>>

\* The overlap of a retiring key ends.
OverlapEnds(v) ==
    /\ key[v].status = "RETIRING" /\ ~key[v].over
    /\ key' = [key EXCEPT ![v].over = TRUE]
    /\ UNCHANGED <<nkCall, Others>>

\* (mutant) the status alone tells whether a key verifies
VerifiesByStatus(v) == key[v].status = "ACTIVE" \/ (key[v].status = "RETIRING" /\ ~key[v].over)
\* verifiableUnscoped
Verifies(v) ==
    /\ ~key[v].revokedAt
    /\ key[v].status = "ACTIVE" \/ (key[v].status = "RETIRING" /\ ~key[v].over)

NkNext ==
    \/ \E c \in NkCalls :
          RotateList(c) \/ RotateCreate(c) \/ RotateRetire(c) \/ RevokeList(c) \/ RevokeOne(c) \/ CallFails(c)
    \/ \E v \in Versions : OverlapEnds(v)

NkSpec == NkInit /\ [][NkNext]_nkVars
-----------------------------------------------------------------------------
(* Properties.                                                              *)

\* Types of the keys and the calls.
NkTypeOK ==
    /\ key \in [Versions -> [status : {"none", "ACTIVE", "RETIRING", "REVOKED"}, over : BOOLEAN,
                             revokedAt : BOOLEAN]]
    /\ nkCall \in [NkCalls -> [pc : {"idle", "create", "retire", "revoke", "done"},
                               version : 0 .. MaxVersion, left : SUBSET Versions]]

\* A key that was revoked never verifies a request again, although a rotation
\* that listed it before may still write it RETIRING.
RevokedNeverVerifies == \A v \in nkRevoked : ~Verifies(v)

\* A rotation locks nobody out: the newest key, the one last handed to the node,
\* verifies unless it was revoked, wherever a rotation stands or failed.
NewestVerifies == \A v \in Listed \ nkRevoked : (\A u \in Listed : u <= v) => Verifies(v)

\* When no call is under way and none failed half way, one key at most is ACTIVE:
\* overlapping rotations never each leave one (@@unique([nodeId, version])).
OneActive ==
    ~nkFailed /\ (\A c \in NkCalls : nkCall[c].pc \in {"idle", "done"}) => Cardinality(Actives) <= 1
=============================================================================

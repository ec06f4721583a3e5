---------------------------- MODULE TrustProofs -----------------------------
(***************************************************************************)
(* What other organizations and nodes are trusted with. Federation: what   *)
(* accept(), revoke() and check() promise for any number of organizations  *)
(* and of concurrent calls: the types, that a revocation is final, and     *)
(* that only what is granted is lent.                                      *)
(*                                                                         *)
(* NodeKeys: what rotations and revocations of a node's keys guarantee     *)
(* together, for any number of versions and of concurrent calls that may   *)
(* fail anywhere: a revoked key never verifies again, the newest key       *)
(* verifies, and completed rotations leave one key ACTIVE.                 *)
(***************************************************************************)
EXTENDS Federation, NodeKeys, FiniteSetTheorems, TLAPS

-----------------------------------------------------------------------------
(* Federation.                                                             *)

Grants == [status : FdStatus, resources : SUBSET Resources, expired : BOOLEAN]
FdOps == {"none", "issue", "accept", "revoke"}
FdSteps == {"idle", "read", "write", "done"}

\* An ACTIVE grant was accepted and not withdrawn.
ActiveIsGranted ==
    \A o, p \in Orgs : grant[o][p].status = "ACTIVE" =>
        <<o, p>> \in accepted /\ <<o, p>> \notin withdrawn

FdInv == FdTypeOK /\ RevocationIsFinal /\ ActiveIsGranted /\ OnlyGrantedIsLent

\* The invariant holds before anything is granted.
LEMMA FdInvInit == FdInit => FdInv
<1> SUFFICES ASSUME FdInit PROVE FdInv OBVIOUS
<1>1. NoGrant \in Grants BY DEF NoGrant, Grants, FdStatus
<1>2. grant \in [Orgs -> [Orgs -> Grants]] BY <1>1 DEF FdInit
<1>3. (CHOOSE o \in Orgs : TRUE) \in Orgs BY FederationAssumption
<1>4. FdTypeOK BY <1>2, <1>3 DEF FdInit, FdTypeOK, Grants
<1>5. \A o, p \in Orgs : grant[o][p].status # "ACTIVE" BY DEF FdInit, NoGrant
<1> QED BY <1>4, <1>5 DEF FdInit, FdInv, RevocationIsFinal, ActiveIsGranted, OnlyGrantedIsLent

\* A call names two organizations, and its row is a grant.
LEMMA CallTypes ==
    ASSUME FdTypeOK, NEW c \in FdCalls
    PROVE  /\ fdCall[c].owner \in Orgs /\ fdCall[c].peer \in Orgs
           /\ Row(c) \in Grants
           /\ Parties(c) \in Orgs \X Orgs
<1>1. fdCall[c] \in [pc : FdSteps, owner : Orgs, peer : Orgs, op : FdOps]
    BY DEF FdTypeOK, FdSteps, FdOps
<1>2. fdCall[c].owner \in Orgs /\ fdCall[c].peer \in Orgs BY <1>1
<1> QED BY <1>2 DEF FdTypeOK, Row, Parties, Grants

\* A call goes on: the calls keep their type.
LEMMA GoTypes ==
    ASSUME FdTypeOK, NEW c \in FdCalls, NEW step \in FdSteps, FdGo(c, step)
    PROVE  fdCall' \in [FdCalls -> [pc : FdSteps, owner : Orgs, peer : Orgs, op : FdOps]]
BY DEF FdTypeOK, FdGo, FdSteps, FdOps

\* What a written grant leaves alone.
LEMMA WriteOne ==
    ASSUME FdTypeOK, NEW c \in FdCalls, NEW r \in Grants, FdWrite(c, r)
    PROVE  /\ grant' \in [Orgs -> [Orgs -> Grants]]
           /\ \A o, p \in Orgs :
                 grant'[o][p] = IF <<o, p>> = Parties(c) THEN r ELSE grant[o][p]
<1>1. grant \in [Orgs -> [Orgs -> Grants]] BY DEF FdTypeOK, Grants
<1>2. fdCall[c].owner \in Orgs /\ fdCall[c].peer \in Orgs BY CallTypes
<1>3. grant' = [grant EXCEPT ![fdCall[c].owner] =
                    [grant[fdCall[c].owner] EXCEPT ![fdCall[c].peer] = r]]
    BY DEF FdWrite
<1>4. [grant[fdCall[c].owner] EXCEPT ![fdCall[c].peer] = r] \in [Orgs -> Grants]
    BY <1>1, <1>2
<1>5. grant' \in [Orgs -> [Orgs -> Grants]] BY <1>1, <1>3, <1>4
<1>6. ASSUME NEW o \in Orgs, NEW p \in Orgs
      PROVE  grant'[o][p] = IF <<o, p>> = Parties(c) THEN r ELSE grant[o][p]
  <2>1. CASE o = fdCall[c].owner
    <3>1. grant'[o] = [grant[o] EXCEPT ![fdCall[c].peer] = r] BY <1>1, <1>3, <2>1
    <3>2. grant[o] \in [Orgs -> Grants] BY <1>1
    <3> QED BY <3>1, <3>2, <2>1 DEF Parties
  <2>2. CASE o # fdCall[c].owner
    <3>1. grant'[o] = grant[o] BY <1>1, <1>3, <2>2
    <3> QED BY <3>1, <2>2 DEF Parties
  <2> QED BY <2>1, <2>2
<1> QED BY <1>5, <1>6

\* Statements that only move a call.
LEMMA FdMoves ==
    ASSUME FdInv, NEW c \in FdCalls, NEW step \in FdSteps, FdGo(c, step),
           UNCHANGED <<grant, accepted, withdrawn, borrowed>>
    PROVE  FdInv'
<1>1. FdTypeOK' BY GoTypes DEF FdInv, FdTypeOK, FdSteps, FdOps
<1> QED BY <1>1 DEF FdInv, RevocationIsFinal, ActiveIsGranted, OnlyGrantedIsLent

\* issue() writes a row only where there is none.
LEMMA FdIssues == ASSUME FdInv, NEW c \in FdCalls, IssueWrite(c) PROVE FdInv'
<1>1. CASE Row(c).status # "none" /\ UNCHANGED grant
    BY <1>1, FdMoves DEF IssueWrite, FdSteps
<1>2. ASSUME Row(c).status = "none", NEW R \in SUBSET Resources,
             FdWrite(c, [status |-> "PENDING", resources |-> R, expired |-> FALSE])
      PROVE  FdInv'
  <2> DEFINE r == [status |-> "PENDING", resources |-> R, expired |-> FALSE]
  <2>1. r \in Grants /\ r.status = "PENDING" BY DEF Grants, FdStatus
  <2>2. FdTypeOK BY DEF FdInv
  <2> HIDE DEF r
  <2>3. FdWrite(c, r) BY <1>2 DEF r
  <2>4. FdGo(c, "done") /\ UNCHANGED <<accepted, withdrawn, borrowed>> BY DEF IssueWrite
  <2>5. FdTypeOK' BY <2>1, <2>2, <2>3, <2>4, WriteOne, GoTypes DEF FdTypeOK, FdSteps, FdOps, Grants
  <2>6. \A o, p \in Orgs : grant'[o][p] = IF <<o, p>> = Parties(c) THEN r ELSE grant[o][p]
      BY <2>1, <2>2, <2>3, WriteOne
  <2>7. Row(c) = grant[Parties(c)[1]][Parties(c)[2]] BY DEF Row, Parties
  <2>8. Parties(c) \notin withdrawn BY <1>2, <2>7 DEF FdInv, RevocationIsFinal
  <2>9. RevocationIsFinal'
    <3>1. ASSUME NEW e \in withdrawn PROVE grant'[e[1]][e[2]].status = "REVOKED"
      <4>1. e \in Orgs \X Orgs BY <2>2 DEF FdTypeOK
      <4>2. e = <<e[1], e[2]>> /\ e[1] \in Orgs /\ e[2] \in Orgs BY <4>1
      <4>3. e # Parties(c) BY <2>8
      <4> QED BY <2>6, <4>2, <4>3 DEF FdInv, RevocationIsFinal
    <3> QED BY <3>1, <2>4 DEF RevocationIsFinal
  <2>10. ActiveIsGranted' BY <2>1, <2>4, <2>6 DEF FdInv, ActiveIsGranted
  <2> QED BY <2>4, <2>5, <2>9, <2>10 DEF FdInv, OnlyGrantedIsLent
<1> QED BY <1>1, <1>2 DEF IssueWrite

\* acceptAsPeer writes a PENDING row only, which nobody has revoked.
LEMMA FdAccepts == ASSUME FdInv, NEW c \in FdCalls, AcceptWrite(c) PROVE FdInv'
<1>1. CASE ~Acceptable(Row(c).status) /\ UNCHANGED <<grant, accepted>>
    BY <1>1, FdMoves DEF AcceptWrite, FdSteps
<1>2. CASE /\ Acceptable(Row(c).status)
           /\ FdWrite(c, [Row(c) EXCEPT !.status = "ACTIVE"])
           /\ accepted' = accepted \union {Parties(c)}
  <2> DEFINE r == [Row(c) EXCEPT !.status = "ACTIVE"]
  <2>1. FdTypeOK BY DEF FdInv
  <2>2. Row(c) \in Grants /\ Parties(c) \in Orgs \X Orgs BY <2>1, CallTypes
  <2>3. r \in Grants /\ r.status = "ACTIVE" BY <2>2 DEF Grants, FdStatus
  <2> HIDE DEF r
  <2>4. FdWrite(c, r) BY <1>2 DEF r
  <2>5. FdGo(c, "done") /\ UNCHANGED <<withdrawn, borrowed>> BY DEF AcceptWrite
  <2>6. FdTypeOK'
      BY <1>2, <2>1, <2>2, <2>3, <2>4, <2>5, WriteOne, GoTypes DEF FdTypeOK, FdSteps, FdOps, Grants
  <2>7. \A o, p \in Orgs : grant'[o][p] = IF <<o, p>> = Parties(c) THEN r ELSE grant[o][p]
      BY <2>1, <2>3, <2>4, WriteOne
  <2>8. Row(c) = grant[Parties(c)[1]][Parties(c)[2]] BY DEF Row, Parties
  <2>9. Parties(c) \notin withdrawn BY <1>2, <2>8 DEF FdInv, RevocationIsFinal, Acceptable
  <2>10. RevocationIsFinal'
    <3>1. ASSUME NEW e \in withdrawn PROVE grant'[e[1]][e[2]].status = "REVOKED"
      <4>1. e \in Orgs \X Orgs BY <2>1 DEF FdTypeOK
      <4>2. e = <<e[1], e[2]>> /\ e[1] \in Orgs /\ e[2] \in Orgs BY <4>1
      <4>3. e # Parties(c) BY <2>9
      <4> QED BY <2>7, <4>2, <4>3 DEF FdInv, RevocationIsFinal
    <3> QED BY <3>1, <2>5 DEF RevocationIsFinal
  <2>11. ActiveIsGranted' BY <1>2, <2>5, <2>7, <2>9 DEF FdInv, ActiveIsGranted
  <2> QED BY <2>5, <2>6, <2>10, <2>11 DEF FdInv, OnlyGrantedIsLent
<1> QED BY <1>1, <1>2 DEF AcceptWrite

\* revoke() writes the row whatever its status.
LEMMA FdRevokes == ASSUME FdInv, NEW c \in FdCalls, RevokeWrite(c) PROVE FdInv'
<1> DEFINE r == [Row(c) EXCEPT !.status = "REVOKED"]
<1>1. FdTypeOK BY DEF FdInv
<1>2. Row(c) \in Grants /\ Parties(c) \in Orgs \X Orgs BY <1>1, CallTypes
<1>3. r \in Grants /\ r.status = "REVOKED" BY <1>2 DEF Grants, FdStatus
<1> HIDE DEF r
<1>4. FdWrite(c, r) BY DEF r, RevokeWrite
<1>5. /\ FdGo(c, "done") /\ UNCHANGED <<accepted, borrowed>>
      /\ withdrawn' = withdrawn \union {Parties(c)}
    BY DEF RevokeWrite
<1>6. FdTypeOK'
    BY <1>1, <1>2, <1>3, <1>4, <1>5, WriteOne, GoTypes DEF FdTypeOK, FdSteps, FdOps, Grants
<1>7. \A o, p \in Orgs : grant'[o][p] = IF <<o, p>> = Parties(c) THEN r ELSE grant[o][p]
    BY <1>1, <1>3, <1>4, WriteOne
<1>8. RevocationIsFinal'
  <2>1. ASSUME NEW e \in withdrawn' PROVE grant'[e[1]][e[2]].status = "REVOKED"
    <3>1. e \in Orgs \X Orgs BY <1>6 DEF FdTypeOK
    <3>2. e = <<e[1], e[2]>> /\ e[1] \in Orgs /\ e[2] \in Orgs BY <3>1
    <3> QED BY <1>3, <1>5, <1>7, <3>2 DEF FdInv, RevocationIsFinal
  <2> QED BY <2>1 DEF RevocationIsFinal
<1>9. ActiveIsGranted' BY <1>3, <1>5, <1>7 DEF FdInv, ActiveIsGranted
<1> QED BY <1>5, <1>6, <1>8, <1>9 DEF FdInv, OnlyGrantedIsLent

\* check() lends under an ACTIVE grant only.
LEMMA FdLends ==
    ASSUME FdInv, NEW o \in Orgs, NEW p \in Orgs, NEW x \in Resources, Check(o, p, x) PROVE FdInv'
<1>1. <<o, p>> \in accepted /\ <<o, p>> \notin withdrawn
    BY DEF FdInv, ActiveIsGranted, Check, Usable
<1> DEFINE b == [parties |-> <<o, p>>, withdrawn |-> <<o, p>> \in withdrawn,
                 accepted |-> <<o, p>> \in accepted]
<1>2. b.accepted /\ ~b.withdrawn BY <1>1
<1>3. borrowed' = borrowed \union {b} BY DEF Check
<1> HIDE DEF b
<1>4. OnlyGrantedIsLent' BY <1>2, <1>3 DEF FdInv, OnlyGrantedIsLent
<1> QED BY <1>4 DEF FdInv, Check, FdTypeOK, RevocationIsFinal, ActiveIsGranted

\* The end of a grant keeps its status.
LEMMA FdExpires ==
    ASSUME FdInv, NEW o \in Orgs, NEW p \in Orgs, GrantExpires(o, p) PROVE FdInv'
<1>1. grant \in [Orgs -> [Orgs -> Grants]] BY DEF FdInv, FdTypeOK, Grants
<1> DEFINE r == [grant[o][p] EXCEPT !.expired = TRUE]
           row == [grant[o] EXCEPT ![p] = r]
<1>2. grant[o] \in [Orgs -> Grants] /\ grant[o][p] \in Grants BY <1>1
<1>3. r \in Grants /\ r.status = grant[o][p].status BY <1>2 DEF Grants
<1>4. grant' = [grant EXCEPT ![o] = row] BY DEF GrantExpires
<1> HIDE DEF r
<1>5. row \in [Orgs -> Grants] BY <1>2, <1>3
<1>6. \A q \in Orgs : row[q].status = grant[o][q].status BY <1>2, <1>3
<1> HIDE DEF row
<1>7. grant' \in [Orgs -> [Orgs -> Grants]] BY <1>1, <1>4, <1>5
<1>8. \A u, v \in Orgs : grant'[u][v].status = grant[u][v].status BY <1>1, <1>4, <1>6
<1>9. UNCHANGED <<fdCall, accepted, withdrawn, borrowed>> BY DEF GrantExpires
<1>10. FdTypeOK' BY <1>7, <1>9 DEF FdInv, FdTypeOK, Grants
<1>11. RevocationIsFinal' BY <1>8, <1>9 DEF FdInv, FdTypeOK, RevocationIsFinal
<1>12. ActiveIsGranted' BY <1>8, <1>9 DEF FdInv, ActiveIsGranted
<1> QED BY <1>9, <1>10, <1>11, <1>12 DEF FdInv, OnlyGrantedIsLent

\* Every step preserves the invariant.
LEMMA FdInvStep == FdInv /\ [FdNext]_fdVars => FdInv'
<1> SUFFICES ASSUME FdInv, [FdNext]_fdVars PROVE FdInv' OBVIOUS
<1>1. ASSUME NEW c \in FdCalls, FdBegin(c) PROVE FdInv'
  <2>1. PICK o \in Orgs, p \in Orgs, op \in {"issue", "accept", "revoke"} :
            fdCall' = [fdCall EXCEPT ![c] = [pc |-> "read", op |-> op, owner |-> o, peer |-> p]]
      BY <1>1 DEF FdBegin
  <2>2. FdTypeOK' BY <1>1, <2>1 DEF FdBegin, FdInv, FdTypeOK
  <2> QED BY <1>1, <2>2 DEF FdBegin, FdInv, RevocationIsFinal, ActiveIsGranted, OnlyGrantedIsLent
<1>2. ASSUME NEW c \in FdCalls, IssueRead(c) \/ AcceptRead(c) \/ RevokeRead(c) PROVE FdInv'
  <2>1. FdGo(c, "write") \/ FdGo(c, "done") BY <1>2 DEF IssueRead, AcceptRead, RevokeRead
  <2>2. UNCHANGED <<grant, accepted, withdrawn, borrowed>> BY <1>2 DEF IssueRead, AcceptRead, RevokeRead
  <2> QED BY <2>1, <2>2, FdMoves DEF FdSteps
<1>3. CASE UNCHANGED fdVars
    BY <1>3 DEF fdVars, FdInv, FdTypeOK, RevocationIsFinal, ActiveIsGranted, OnlyGrantedIsLent
<1> QED BY <1>1, <1>2, <1>3, FdIssues, FdAccepts, FdRevokes, FdLends, FdExpires DEF FdNext

LEMMA FdInvAlways == FdSpec => []FdInv
BY FdInvInit, FdInvStep, PTL DEF FdSpec

\* Grants and calls keep their types, for any organizations and calls.
THEOREM FederationTypeCorrect == FdSpec => []FdTypeOK
BY FdInvAlways, PTL DEF FdInv

\* revoke() is final however it races issue() and accept(), for any number of
\* organizations and calls.
THEOREM RevocationStays == FdSpec => []RevocationIsFinal
BY FdInvAlways, PTL DEF FdInv

\* check() lets nothing through that was not accepted or was withdrawn, for any
\* number of organizations and calls.
THEOREM OnlyGrantedLent == FdSpec => []OnlyGrantedIsLent
BY FdInvAlways, PTL DEF FdInv

-----------------------------------------------------------------------------
(* The keys of a node.                                                     *)

KeyRows == [status : {"none", "ACTIVE", "RETIRING", "REVOKED"}, over : BOOLEAN, revokedAt : BOOLEAN]
NkCallRows == [pc : {"idle", "create", "retire", "revoke", "done"}, version : 0 .. MaxVersion,
               left : SUBSET Versions]

\* The versions follow each other without a gap.
Dense == \E n \in 0 .. MaxVersion : Listed = 1 .. n

\* What a call listed exists; the key it creates follows what it listed.
ListsStand ==
    \A c \in NkCalls :
        /\ nkCall[c].pc \in {"create", "retire", "revoke"} => nkCall[c].left \subseteq Listed
        /\ NkAt(c, "create") => nkCall[c].version \in Versions /\ 1 .. nkCall[c].version - 1 \subseteq Listed
        /\ NkAt(c, "retire") => nkCall[c].version \in Listed
        /\ nkCall[c].pc \in {"create", "retire"} => \A v \in nkCall[c].left : v < nkCall[c].version

\* A rotation that has not created its key has on its list every older ACTIVE one.
ListsActives ==
    \A c \in NkCalls : NkAt(c, "create") =>
        \A v \in Versions : v < nkCall[c].version /\ key[v].status = "ACTIVE" => v \in nkCall[c].left

RevokedMarked == \A v \in nkRevoked : v \in Listed /\ key[v].revokedAt

Newest(v) == v \in Listed /\ \A u \in Listed : u <= v
NewestActive == \A v \in Versions \ nkRevoked : Newest(v) => key[v].status = "ACTIVE" /\ ~key[v].revokedAt

\* An ACTIVE key that is not the newest will be retired by some call.
OldWillRetire ==
    ~nkFailed => \A v \in Actives : Newest(v) \/ \E c \in NkCalls : NkAt(c, "retire") /\ v \in nkCall[c].left

NkInv == NkTypeOK /\ Dense /\ ListsStand /\ ListsActives /\ RevokedMarked /\ NewestActive /\ OldWillRetire

\* As many keys as the version of the newest.
LEMMA CountListed ==
    ASSUME NEW n \in 0 .. MaxVersion, Listed = 1 .. n PROVE Cardinality(Listed) = n
<1>1. MaxVersion \in Nat BY NodeKeysAssumption
<1>2. n \in Nat BY <1>1
<1> QED BY <1>2, FS_Interval

\* The first key, and nothing under way.
LEMMA NkInvInit == NkInit => NkInv
<1> SUFFICES ASSUME NkInit PROVE NkInv OBVIOUS
<1>1. MaxVersion \in Nat /\ 1 <= MaxVersion BY NodeKeysAssumption
<1>2. NkTypeOK
  <2>1. [NoKeyRow EXCEPT !.status = "ACTIVE"] \in KeyRows /\ NoKeyRow \in KeyRows
      BY DEF NoKeyRow, KeyRows
  <2> QED BY <1>1, <2>1 DEF NkInit, NkTypeOK, KeyRows
<1>3. \A v \in Versions : key[v].status = IF v = 1 THEN "ACTIVE" ELSE "none"
    BY DEF NkInit, NoKeyRow
<1>4. \A v \in Versions : ~key[v].revokedAt BY DEF NkInit, NoKeyRow
<1>5. Listed = {1} BY <1>1, <1>3 DEF Listed, Versions
<1>6. Dense
  <2>1. {1} = 1 .. 1 /\ 1 \in 0 .. MaxVersion BY <1>1
  <2> QED BY <1>5, <2>1 DEF Dense
<1>7. \A c \in NkCalls : nkCall[c].pc = "idle" BY DEF NkInit
<1>8. ListsStand /\ ListsActives BY <1>7 DEF ListsStand, ListsActives, NkAt
<1>9. RevokedMarked BY DEF RevokedMarked, NkInit
<1>10. NewestActive BY <1>3, <1>4, <1>5 DEF NewestActive, Newest
<1>11. OldWillRetire BY <1>1, <1>5 DEF OldWillRetire, Newest, Actives
<1> QED BY <1>2, <1>6, <1>8, <1>9, <1>10, <1>11 DEF NkInv

\* rotate() lists the keys.
LEMMA NkRotateList == ASSUME NkInv, NEW c \in NkCalls, RotateList(c) PROVE NkInv'
<1> USE DEF NkInv
<1>1. MaxVersion \in Nat BY NodeKeysAssumption
<1>2. PICK n \in 0 .. MaxVersion : Listed = 1 .. n BY DEF Dense
<1>3. Cardinality(Listed) = n BY <1>2, CountListed
<1> DEFINE r == [pc |-> "create", version |-> Cardinality(Listed) + 1, left |-> Actives]
<1>4. n < MaxVersion BY <1>3 DEF RotateList
<1>5. r.pc = "create" /\ r.version = n + 1 /\ r.left = Actives BY <1>3
<1>6. n + 1 \in Versions /\ n + 1 \in 0 .. MaxVersion BY <1>1, <1>4 DEF Versions
<1>7. r \in NkCallRows
  <2>1. Actives \subseteq Versions BY DEF Actives, Listed
  <2> QED BY <1>3, <1>6, <2>1 DEF NkCallRows
<1>8. nkCall' = [nkCall EXCEPT ![c] = r] BY DEF RotateList, NkSet
<1> HIDE DEF r
<1>9. UNCHANGED <<key, nkRevoked, nkFailed>> BY DEF RotateList, Others
<1>10. UNCHANGED <<Listed, Actives>> BY <1>9 DEF Listed, Actives
<1>11. nkCall \in [NkCalls -> NkCallRows] BY DEF NkTypeOK, NkCallRows
<1>12. \A d \in NkCalls : nkCall'[d] = IF d = c THEN r ELSE nkCall[d] BY <1>8, <1>11
<1>13. NkTypeOK' BY <1>7, <1>8, <1>9 DEF NkTypeOK, NkCallRows
<1>14. ListsStand'
  <2>1. Actives \subseteq Listed BY DEF Actives
  <2>2. \A v \in Actives : v < n + 1 BY <1>2, <2>1
  <2>3. 1 .. (n + 1) - 1 \subseteq Listed BY <1>2
  <2> QED BY <1>5, <1>6, <1>10, <1>12, <2>1, <2>2, <2>3 DEF ListsStand, NkAt
<1>15. ListsActives'
  <2>1. \A v \in Versions : v < n + 1 /\ key[v].status = "ACTIVE" => v \in Actives
      BY <1>1, <1>2 DEF Actives, Versions
  <2> QED BY <1>5, <1>9, <1>12, <2>1 DEF ListsActives, NkAt
<1>16. OldWillRetire'
  <2>1. ~NkAt(c, "retire") BY DEF RotateList, NkAt
  <2> QED BY <1>9, <1>10, <1>12, <2>1 DEF OldWillRetire, NkAt, Newest
<1>17. Dense' /\ RevokedMarked' /\ NewestActive'
    BY <1>9, <1>10 DEF Dense, RevokedMarked, NewestActive, Newest
<1> QED BY <1>13, <1>14, <1>15, <1>16, <1>17

\* rotate() creates its key, the next one or none.
LEMMA NkRotateCreate == ASSUME NkInv, NEW c \in NkCalls, RotateCreate(c) PROVE NkInv'
<1> USE DEF NkInv
<1>1. MaxVersion \in Nat BY NodeKeysAssumption
<1>2. PICK n \in 0 .. MaxVersion : Listed = 1 .. n BY DEF Dense
<1>3. nkCall \in [NkCalls -> NkCallRows] /\ key \in [Versions -> KeyRows]
    BY DEF NkTypeOK, NkCallRows, KeyRows
<1> PICK v : v = nkCall[c].version OBVIOUS
<1>4. NkAt(c, "create") /\ nkCall[c].pc = "create" BY DEF RotateCreate, NkAt
<1>5. v \in Versions /\ 1 .. v - 1 \subseteq Listed BY <1>4 DEF ListsStand
<1>6. UNCHANGED <<nkRevoked, nkFailed>> BY DEF RotateCreate, Others
<1>7. CASE v \in Listed /\ UNCHANGED key /\ NkSet(c, [nkCall[c] EXCEPT !.pc = "done"])
  <2> DEFINE r == [nkCall[c] EXCEPT !.pc = "done"]
  <2>1. r \in NkCallRows /\ r.pc = "done" BY <1>3 DEF NkCallRows
  <2>2. nkCall' = [nkCall EXCEPT ![c] = r] BY <1>7 DEF NkSet
  <2> HIDE DEF r
  <2>3. \A d \in NkCalls : nkCall'[d] = IF d = c THEN r ELSE nkCall[d] BY <1>3, <2>2
  <2>4. UNCHANGED <<Listed, Actives>> BY <1>7 DEF Listed, Actives
  <2>5. NkTypeOK' BY <1>7, <2>1, <2>2 DEF NkTypeOK, NkCallRows
  <2>6. ListsStand' /\ ListsActives' BY <1>7, <2>1, <2>3, <2>4 DEF ListsStand, ListsActives, NkAt
  <2>7. OldWillRetire' BY <1>4, <1>6, <2>3, <2>4 DEF OldWillRetire, NkAt, Newest
  <2> QED BY <1>6, <1>7, <2>4, <2>5, <2>6, <2>7 DEF Dense, RevokedMarked, NewestActive, Newest
<1>8. CASE /\ v \in Versions \ Listed
           /\ key' = [key EXCEPT ![v] = [NoKeyRow EXCEPT !.status = "ACTIVE"]]
           /\ NkSet(c, [nkCall[c] EXCEPT !.pc = "retire", !.left = nkCall[c].left])
  <2> DEFINE r == [nkCall[c] EXCEPT !.pc = "retire", !.left = nkCall[c].left]
             k == [NoKeyRow EXCEPT !.status = "ACTIVE"]
  <2>1. r \in NkCallRows /\ r.pc = "retire" /\ r.version = v /\ r.left = nkCall[c].left
      BY <1>3 DEF NkCallRows
  <2>2. k \in KeyRows /\ k.status = "ACTIVE" /\ ~k.revokedAt BY DEF KeyRows, NoKeyRow
  <2>3. nkCall' = [nkCall EXCEPT ![c] = r] /\ key' = [key EXCEPT ![v] = k] BY <1>8 DEF NkSet
  <2> HIDE DEF r, k
  <2>4. \A d \in NkCalls : nkCall'[d] = IF d = c THEN r ELSE nkCall[d] BY <1>3, <2>3
  <2>5. \A u \in Versions : key'[u] = IF u = v THEN k ELSE key[u] BY <1>3, <2>3
  <2>6. Listed' = Listed \union {v}
      BY <1>5, <2>2, <2>5 DEF Listed
  <2>7. v = n + 1
    <3>1. v \in Nat /\ 1 <= v /\ v <= MaxVersion BY <1>1, <1>5 DEF Versions
    <3>2. v > n BY <1>1, <1>2, <1>8, <3>1
    <3>3. n + 1 \notin Listed BY <1>1, <1>2
    <3>4. n + 1 \notin 1 .. v - 1 BY <1>5, <3>3
    <3> QED BY <1>1, <3>1, <3>2, <3>4
  <2>8. Listed' = 1 .. n + 1 /\ n + 1 \in 0 .. MaxVersion
      BY <1>1, <1>2, <1>5, <2>6, <2>7 DEF Versions
  <2>9. NkTypeOK' BY <1>5, <2>1, <2>2, <2>3 DEF NkTypeOK, NkCallRows, KeyRows
  <2>10. Dense' BY <2>8 DEF Dense
  <2>11. nkCall[c].left \subseteq Listed /\ \A u \in nkCall[c].left : u < v
      BY <1>4 DEF ListsStand
  <2>12. ListsStand' BY <1>5, <2>1, <2>4, <2>6, <2>11 DEF ListsStand, NkAt
  <2>13. ListsActives'
    <3>1. ASSUME NEW d \in NkCalls, d # c, NkAt(d, "create"),
                 NEW u \in Versions, u < nkCall[d].version, key'[u].status = "ACTIVE"
          PROVE  u \in nkCall[d].left
      <4>1. 1 .. nkCall[d].version - 1 \subseteq Listed /\ nkCall[d].version \in Versions
          BY <3>1 DEF ListsStand
      <4>2. u \in Listed BY <1>1, <3>1, <4>1 DEF Versions
      <4>3. u # v BY <1>8, <4>2
      <4> QED BY <2>5, <3>1, <4>3 DEF ListsActives
    <3> QED BY <2>1, <2>4, <3>1 DEF ListsActives, NkAt
  <2>14. v \notin nkRevoked BY <1>8 DEF RevokedMarked
  <2>15. RevokedMarked' BY <1>6, <2>5, <2>6, <2>14 DEF RevokedMarked, Listed
  <2>16. \A u \in Versions : Newest(u)' => u = v
      BY <1>1, <2>7, <2>8 DEF Newest, Versions
  <2>17. NewestActive' BY <1>5, <2>2, <2>5, <2>16 DEF NewestActive
  <2>18. Newest(v)' BY <1>1, <2>7, <2>8 DEF Newest
  <2>19. \A u \in Actives' : u = v \/ u \in nkCall[c].left
    <3>1. ASSUME NEW u \in Versions, u # v, u \in Listed', key'[u].status = "ACTIVE"
          PROVE  u \in nkCall[c].left
      <4>1. key[u].status = "ACTIVE" /\ u \in Listed BY <2>5, <2>6, <3>1
      <4>2. u < v BY <1>1, <1>2, <2>7, <4>1
      <4> QED BY <1>4, <4>1, <4>2 DEF ListsActives
    <3> QED BY <3>1 DEF Actives, Listed
  <2>20. OldWillRetire' BY <2>1, <2>4, <2>18, <2>19 DEF OldWillRetire, NkAt
  <2> QED BY <2>9, <2>10, <2>12, <2>13, <2>15, <2>17, <2>20
<1> QED BY <1>7, <1>8 DEF RotateCreate, CreatedVersion, ToRetire

\* What one written row leaves alone, when it exists before and after.
LEMMA NkWriteRow ==
    ASSUME NkTypeOK, NEW v \in Listed, NEW k \in KeyRows, k.status # "none",
           key' = [key EXCEPT ![v] = k]
    PROVE  /\ key' \in [Versions -> KeyRows]
           /\ \A u \in Versions : key'[u] = IF u = v THEN k ELSE key[u]
           /\ Listed' = Listed
           /\ Actives' = IF k.status = "ACTIVE" THEN Actives \union {v} ELSE Actives \ {v}
<1>1. key \in [Versions -> KeyRows] /\ v \in Versions BY DEF NkTypeOK, KeyRows, Listed
<1>2. \A u \in Versions : key'[u] = IF u = v THEN k ELSE key[u] BY <1>1
<1>3. Listed' = Listed BY <1>1, <1>2 DEF Listed
<1>4. Actives' = IF k.status = "ACTIVE" THEN Actives \union {v} ELSE Actives \ {v}
    BY <1>1, <1>2, <1>3 DEF Actives
<1> QED BY <1>1, <1>2, <1>3, <1>4

\* A call that drops a version from its list, or everything, keeps its type.
LEMMA NkCallEdits ==
    ASSUME NkTypeOK, NEW c \in NkCalls, NEW v
    PROVE  LET drop == [nkCall[c] EXCEPT !.left = @ \ {v}]
               done == [nkCall[c] EXCEPT !.pc = "done"]
           IN  /\ drop \in NkCallRows /\ done \in NkCallRows /\ done.pc = "done"
               /\ drop.pc = nkCall[c].pc /\ drop.version = nkCall[c].version
               /\ drop.left = nkCall[c].left \ {v}
BY DEF NkTypeOK, NkCallRows

\* A call that is over has nothing on a list that counts.
LEMMA NkEnds ==
    ASSUME NkInv, NEW c \in NkCalls, NkSet(c, [nkCall[c] EXCEPT !.pc = "done"]),
           UNCHANGED <<key, nkRevoked>>, nkFailed' \/ (nkFailed' = nkFailed /\ (NkAt(c, "retire") => nkCall[c].left = {}))
    PROVE  NkInv'
<1> USE DEF NkInv
<1> DEFINE r == [nkCall[c] EXCEPT !.pc = "done"]
<1>1. r \in NkCallRows /\ r.pc = "done" BY NkCallEdits
<1>2. nkCall' = [nkCall EXCEPT ![c] = r] BY DEF NkSet
<1> HIDE DEF r
<1>3. nkCall \in [NkCalls -> NkCallRows] BY DEF NkTypeOK, NkCallRows
<1>4. \A d \in NkCalls : nkCall'[d] = IF d = c THEN r ELSE nkCall[d] BY <1>2, <1>3
<1>5. UNCHANGED <<Listed, Actives>> BY DEF Listed, Actives
<1>6. NkTypeOK' BY <1>1, <1>2 DEF NkTypeOK, NkCallRows
<1>7. ListsStand' /\ ListsActives' BY <1>1, <1>4, <1>5 DEF ListsStand, ListsActives, NkAt
<1>8. OldWillRetire' BY <1>4, <1>5 DEF OldWillRetire, NkAt, Newest
<1> QED BY <1>5, <1>6, <1>7, <1>8 DEF Dense, RevokedMarked, NewestActive, Newest

\* rotate() retires a key of its list, never the newest.
LEMMA NkRetires ==
    ASSUME NkInv, NEW c \in NkCalls, NkAt(c, "retire"), NEW v \in nkCall[c].left,
           key' = [key EXCEPT ![v].status = "RETIRING", ![v].over = FALSE],
           NkSet(c, [nkCall[c] EXCEPT !.left = @ \ {v}]), UNCHANGED <<nkRevoked, nkFailed>>
    PROVE  NkInv'
<1> USE DEF NkInv
<1> DEFINE r == [nkCall[c] EXCEPT !.left = @ \ {v}]
           k == [key[v] EXCEPT !.status = "RETIRING", !.over = FALSE]
<1>1. nkCall \in [NkCalls -> NkCallRows] /\ key \in [Versions -> KeyRows]
    BY DEF NkTypeOK, NkCallRows, KeyRows
<1>2. v \in Listed /\ v \in Versions /\ nkCall[c].version \in Listed /\ v < nkCall[c].version
  <2>1. nkCall[c].pc = "retire" BY DEF NkAt
  <2> QED BY <2>1 DEF ListsStand, NkAt, Listed
<1>3. r \in NkCallRows /\ r.pc = nkCall[c].pc /\ r.version = nkCall[c].version
      /\ r.left = nkCall[c].left \ {v}
    BY NkCallEdits
<1>4. k \in KeyRows /\ k.status = "RETIRING" /\ k.revokedAt = key[v].revokedAt
    BY <1>1, <1>2 DEF KeyRows
<1>5. key' = [key EXCEPT ![v] = k] BY <1>1, <1>2
<1>6. nkCall' = [nkCall EXCEPT ![c] = r] BY DEF NkSet
<1> HIDE DEF r, k
<1>7. /\ key' \in [Versions -> KeyRows]
      /\ \A u \in Versions : key'[u] = IF u = v THEN k ELSE key[u]
      /\ Listed' = Listed /\ Actives' = Actives \ {v}
    BY <1>2, <1>4, <1>5, NkWriteRow
<1>8. \A d \in NkCalls : nkCall'[d] = IF d = c THEN r ELSE nkCall[d] BY <1>1, <1>6
<1>9. NkTypeOK' BY <1>3, <1>6, <1>7 DEF NkTypeOK, NkCallRows, KeyRows
<1>10. ListsStand' BY <1>3, <1>7, <1>8 DEF ListsStand, NkAt
<1>11. ListsActives' BY <1>3, <1>4, <1>7, <1>8 DEF ListsActives, NkAt
<1>12. RevokedMarked' BY <1>2, <1>4, <1>7 DEF RevokedMarked, Listed
<1>13. ~Newest(v)
  <2>1. v \in Int /\ nkCall[c].version \in Int BY <1>2, NodeKeysAssumption DEF Listed, Versions
  <2> QED BY <1>2, <2>1 DEF Newest
<1>14. NewestActive' BY <1>7, <1>13 DEF NewestActive, Newest
<1>15. OldWillRetire' BY <1>3, <1>7, <1>8 DEF OldWillRetire, NkAt, Newest
<1> QED BY <1>7, <1>9, <1>10, <1>11, <1>12, <1>14, <1>15 DEF Dense

\* revokeAll() lists what is not revoked.
LEMMA NkRevokeList == ASSUME NkInv, NEW c \in NkCalls, RevokeList(c) PROVE NkInv'
<1> USE DEF NkInv
<1> DEFINE L == {v \in Listed : key[v].status # "REVOKED"}
           r == [nkCall[c] EXCEPT !.pc = "revoke", !.left = L]
<1>1. nkCall \in [NkCalls -> NkCallRows] BY DEF NkTypeOK, NkCallRows
<1>2. L \subseteq Listed /\ L \subseteq Versions BY DEF Listed
<1>3. nkCall' = [nkCall EXCEPT ![c] = r] BY DEF RevokeList, NkSet
<1> HIDE DEF L
<1>4. r \in NkCallRows /\ r.pc = "revoke" /\ r.left = L BY <1>1, <1>2 DEF NkCallRows
<1> HIDE DEF r
<1>5. UNCHANGED <<key, nkRevoked, nkFailed>> /\ ~NkAt(c, "retire") BY DEF RevokeList, Others, NkAt
<1>6. UNCHANGED <<Listed, Actives>> BY <1>5 DEF Listed, Actives
<1>7. \A d \in NkCalls : nkCall'[d] = IF d = c THEN r ELSE nkCall[d] BY <1>1, <1>3
<1>8. NkTypeOK' BY <1>3, <1>4, <1>5 DEF NkTypeOK, NkCallRows
<1>9. ListsStand' /\ ListsActives'
    BY <1>2, <1>4, <1>5, <1>6, <1>7 DEF ListsStand, ListsActives, NkAt
<1>10. OldWillRetire' BY <1>5, <1>6, <1>7 DEF OldWillRetire, NkAt, Newest
<1> QED BY <1>5, <1>6, <1>8, <1>9, <1>10 DEF Dense, RevokedMarked, NewestActive, Newest

\* revokeAll() revokes a key of its list.
LEMMA NkRevokes ==
    ASSUME NkInv, NEW c \in NkCalls, NkAt(c, "revoke"), NEW v \in nkCall[c].left,
           key' = [key EXCEPT ![v].status = "REVOKED", ![v].revokedAt = TRUE],
           nkRevoked' = nkRevoked \union {v},
           NkSet(c, [nkCall[c] EXCEPT !.left = @ \ {v}]), UNCHANGED nkFailed
    PROVE  NkInv'
<1> USE DEF NkInv
<1> DEFINE r == [nkCall[c] EXCEPT !.left = @ \ {v}]
           k == [key[v] EXCEPT !.status = "REVOKED", !.revokedAt = TRUE]
<1>1. nkCall \in [NkCalls -> NkCallRows] /\ key \in [Versions -> KeyRows]
    BY DEF NkTypeOK, NkCallRows, KeyRows
<1>2. v \in Listed /\ v \in Versions
  <2>1. nkCall[c].pc = "revoke" BY DEF NkAt
  <2> QED BY <2>1 DEF ListsStand, Listed
<1>3. r \in NkCallRows /\ r.pc = nkCall[c].pc /\ r.version = nkCall[c].version
      /\ r.left = nkCall[c].left \ {v}
    BY NkCallEdits
<1>4. k \in KeyRows /\ k.status = "REVOKED" /\ k.revokedAt BY <1>1, <1>2 DEF KeyRows
<1>5. key' = [key EXCEPT ![v] = k] BY <1>1, <1>2
<1>6. nkCall' = [nkCall EXCEPT ![c] = r] BY DEF NkSet
<1> HIDE DEF r, k
<1>7. /\ key' \in [Versions -> KeyRows]
      /\ \A u \in Versions : key'[u] = IF u = v THEN k ELSE key[u]
      /\ Listed' = Listed /\ Actives' = Actives \ {v}
    BY ZenonT(60), <1>2, <1>4, <1>5, NkWriteRow
<1>8. \A d \in NkCalls : nkCall'[d] = IF d = c THEN r ELSE nkCall[d] BY <1>1, <1>6
<1>9. NkTypeOK' BY <1>3, <1>6, <1>7 DEF NkTypeOK, NkCallRows, KeyRows
<1>10. ListsStand' BY <1>3, <1>7, <1>8 DEF ListsStand, NkAt
<1>11. ListsActives' BY <1>3, <1>4, <1>7, <1>8 DEF ListsActives, NkAt
<1>12. RevokedMarked' BY <1>2, <1>4, <1>7 DEF RevokedMarked, Listed
<1>13. NewestActive' BY <1>7 DEF NewestActive, Newest
<1>14. OldWillRetire'
  <2>1. ~NkAt(c, "retire") BY DEF NkAt
  <2> QED BY <1>7, <1>8, <2>1 DEF OldWillRetire, NkAt, Newest
<1> QED BY <1>7, <1>9, <1>10, <1>11, <1>12, <1>13, <1>14 DEF Dense

\* The end of an overlap changes no status.
LEMMA NkOverlap == ASSUME NkInv, NEW v \in Versions, OverlapEnds(v) PROVE NkInv'
<1> USE DEF NkInv
<1> DEFINE k == [key[v] EXCEPT !.over = TRUE]
<1>1. key \in [Versions -> KeyRows] BY DEF NkTypeOK, KeyRows
<1>2. v \in Listed BY DEF OverlapEnds, Listed
<1>3. k \in KeyRows /\ k.status = key[v].status /\ k.revokedAt = key[v].revokedAt
      /\ k.status = "RETIRING"
    BY <1>1 DEF KeyRows, OverlapEnds
<1>4. key' = [key EXCEPT ![v] = k] BY <1>1 DEF OverlapEnds
<1> HIDE DEF k
<1>5. /\ key' \in [Versions -> KeyRows]
      /\ \A u \in Versions : key'[u] = IF u = v THEN k ELSE key[u]
      /\ Listed' = Listed /\ Actives' = Actives \ {v}
    BY <1>2, <1>3, <1>4, NkWriteRow
<1>6. UNCHANGED <<nkCall, nkRevoked, nkFailed>> BY DEF OverlapEnds, Others
<1>7. NkTypeOK' /\ Dense' /\ ListsStand' /\ ListsActives'
    BY <1>3, <1>5, <1>6 DEF NkTypeOK, KeyRows, Dense, ListsStand, ListsActives, NkAt
<1>8. RevokedMarked' /\ NewestActive' BY <1>3, <1>5, <1>6 DEF RevokedMarked, NewestActive, Newest, Listed
<1>9. OldWillRetire' BY <1>5, <1>6 DEF OldWillRetire, NkAt, Newest
<1> QED BY <1>7, <1>8, <1>9

\* Every step preserves the invariant.
LEMMA NkInvStep == NkInv /\ [NkNext]_nkVars => NkInv'
<1> SUFFICES ASSUME NkInv, [NkNext]_nkVars PROVE NkInv' OBVIOUS
<1>1. ASSUME NEW c \in NkCalls, RotateRetire(c) PROVE NkInv'
  <2>1. CASE \E v \in nkCall[c].left :
                 /\ key' = [key EXCEPT ![v].status = "RETIRING", ![v].over = FALSE]
                 /\ NkSet(c, [nkCall[c] EXCEPT !.left = @ \ {v}])
      BY <1>1, <2>1, NkRetires DEF RotateRetire, Others
  <2>2. CASE nkCall[c].left = {} /\ NkSet(c, [nkCall[c] EXCEPT !.pc = "done"]) /\ UNCHANGED key
      BY <1>1, <2>2, NkEnds DEF RotateRetire, Others
  <2> QED BY <1>1, <2>1, <2>2 DEF RotateRetire
<1>2. ASSUME NEW c \in NkCalls, RevokeOne(c) PROVE NkInv'
  <2>1. CASE \E v \in nkCall[c].left :
                 /\ key' = [key EXCEPT ![v].status = "REVOKED", ![v].revokedAt = TRUE]
                 /\ nkRevoked' = nkRevoked \union {v}
                 /\ NkSet(c, [nkCall[c] EXCEPT !.left = @ \ {v}])
      BY <1>2, <2>1, NkRevokes DEF RevokeOne
  <2>2. CASE nkCall[c].left = {} /\ NkSet(c, [nkCall[c] EXCEPT !.pc = "done"]) /\ UNCHANGED <<key, nkRevoked>>
      BY <1>2, <2>2, NkEnds DEF RevokeOne
  <2> QED BY <1>2, <2>1, <2>2 DEF RevokeOne
<1>3. ASSUME NEW c \in NkCalls, CallFails(c) PROVE NkInv' BY <1>3, NkEnds DEF CallFails
<1>4. CASE UNCHANGED nkVars
  <2>1. UNCHANGED <<Listed, Actives>> BY <1>4 DEF nkVars, Listed, Actives
  <2> QED BY <1>4, <2>1 DEF nkVars, NkInv, NkTypeOK, Dense, ListsStand, ListsActives, NkAt,
              RevokedMarked, NewestActive, Newest, OldWillRetire
<1> QED BY <1>1, <1>2, <1>3, <1>4, NkRotateList, NkRotateCreate, NkRevokeList, NkOverlap DEF NkNext

LEMMA NkInvAlways == NkSpec => []NkInv
BY NkInvInit, NkInvStep, PTL DEF NkSpec

\* Keys and calls keep their types.
THEOREM NodeKeysTypeCorrect == NkSpec => []NkTypeOK
BY NkInvAlways, PTL DEF NkInv

\* A revoked key never verifies again, whatever rotation wrote it afterwards
\* (verifiableUnscoped asks for revokedAt as well as for the status).
THEOREM RevokedStaysOut == NkSpec => []RevokedNeverVerifies
<1>1. NkInv => RevokedNeverVerifies BY DEF NkInv, RevokedMarked, RevokedNeverVerifies, Verifies
<1> QED BY <1>1, NkInvAlways, PTL

\* The newest key verifies unless it was revoked, wherever rotate() stands or
\* failed.
THEOREM NewestAlwaysVerifies == NkSpec => []NewestVerifies
<1>1. NkInv => NewestVerifies
  <2> SUFFICES ASSUME NkInv, NEW v \in Listed \ nkRevoked, \A u \in Listed : u <= v PROVE Verifies(v)
      BY DEF NewestVerifies
  <2>1. Newest(v) /\ v \in Versions BY DEF Newest, Listed
  <2> QED BY <2>1 DEF NkInv, NewestActive, Verifies
<1> QED BY <1>1, NkInvAlways, PTL

\* Completed rotations leave one key ACTIVE, however they overlapped
\* (@@unique([nodeId, version])).
THEOREM OneActiveKey == NkSpec => []OneActive
<1>1. NkInv => OneActive
  <2> SUFFICES ASSUME NkInv, ~nkFailed, \A c \in NkCalls : nkCall[c].pc \in {"idle", "done"}
               PROVE  Cardinality(Actives) <= 1
      BY DEF OneActive
  <2>1. \A v \in Actives : Newest(v) BY DEF NkInv, OldWillRetire, NkAt
  <2>2. \A u, v \in Actives : u = v
    <3>1. \A v \in Actives : v \in Int BY NodeKeysAssumption DEF Actives, Listed, Versions
    <3>2. \A v \in Actives : v \in Listed BY DEF Actives
    <3> QED BY <2>1, <3>1, <3>2 DEF Newest
  <2>3. CASE Actives = {}
    <3>1. Cardinality({}) = 0 BY FS_EmptySet
    <3> QED BY <2>3, <3>1
  <2>4. CASE Actives # {}
    <3>1. PICK v : v \in Actives BY <2>4
    <3>2. Actives = {v} BY <2>2, <3>1
    <3>3. Cardinality({v}) = 1 BY FS_Singleton
    <3> QED BY <3>2, <3>3
  <2> QED BY <2>3, <2>4
<1> QED BY <1>1, NkInvAlways, PTL
=============================================================================

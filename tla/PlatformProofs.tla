--------------------------- MODULE PlatformProofs ---------------------------
(***************************************************************************)
(* What the platform promises its tenants, for any number of instances,    *)
(* organizations, endpoints and calls.                                     *)
(*                                                                         *)
(* Extensions: the types, that the module an instance keeps follows the    *)
(* row, and that the row, the contributions and the upgrades tell of one   *)
(* version. The invariant ExInv says which call still has to bring them    *)
(* into step, and that nobody changes the version while it does, unless    *)
(* calls overlapped. Billing: organizations are billed as agreed; BlInv    *)
(* relates what a sweep read before it died to the invoices that exist.    *)
(* Webhooks: nothing is dropped, and what was delivered is not sent again; *)
(* WhInv says for each delivery which call has it in hand. Catalogue:      *)
(* between moves a listing names its highest installable release, whatever *)
(* publications and withdrawals overlapped, unless one was judged by a row *)
(* already changed.                                                        *)
(***************************************************************************)
EXTENDS Extensions, Billing, Webhooks, Catalogue, FiniteSetTheorems, WellFoundedInduction, TLAPS

-----------------------------------------------------------------------------
(* The life of an extension.                                               *)

ExPcs == {"idle", "register", "status", "load", "loading", "hook", "propose", "unregister", "row", "reread",
          "applied", "failed", "rolledBack", "flags", "unload", "remove", "done"}
ExAllOps == {"install", "approve", "initialize", "enable", "disable", "quarantine", "uninstall", "invoke",
             "upgrade", "rollback"}
ExStatus == {"none", "PENDING_REVIEW", "INSTALLED", "ENABLED", "DISABLED", "QUARANTINED", "FAILED", "removed"}
SomeVersion == ExVersions \union {NoVersion}
ExtRow == [status : ExStatus, version : SomeVersion]
ExRow == [pc : ExPcs, op : ExAllOps, on : Hosts, status : ExStatus, version : SomeVersion,
          u : Upgrades \union {NoUpgrade}, to : SomeVersion]
UpgradeRow == [outcome : {"none", "BLOCKED", "AWAITING_CONSENT", "PENDING", "APPLIED", "FAILED", "ROLLED_BACK"},
               from : SomeVersion, to : SomeVersion, applied : Nat]

\* Where a call of each operation can be; one that is over is an invocation.
AtHook == {"load", "loading", "hook"}
Places(op) ==
    IF op = "install" THEN {"register"}
    ELSE IF op = "approve" THEN {"status"}
    ELSE IF op = "invoke" THEN {"idle", "done"} \union AtHook
    ELSE IF op = "initialize" THEN {"status"} \union AtHook
    ELSE IF op \in {"enable", "disable", "quarantine"} THEN {"status", "flags"} \union AtHook
    ELSE IF op = "uninstall" THEN {"unregister", "unload", "remove"} \union AtHook
    ELSE IF op = "upgrade" THEN {"propose", "unregister", "row", "reread", "register", "applied", "failed", "status"}
                                \union AtHook
    ELSE {"unregister", "row", "reread", "register", "rolledBack"}
InPlace ==
    \A c \in ExCalls :
        /\ exCall[c].pc \in Places(exCall[c].op)
        /\ exCall[c].op \in {"upgrade", "rollback"} /\ exCall[c].pc # "propose" => exCall[c].u \in Upgrades

\* Before the installation there is nothing.
NothingBefore ==
    ext.status = "none" =>
        /\ \A i \in Hosts : loaded[i] = NoModule
        /\ \A c \in ExCalls : ExAt(c, "idle")
        /\ \A u \in Upgrades : upgrade[u].outcome # "APPLIED"

\* What was applied and not undone, in the order in which it was applied.
AppliedOnes == {u \in Upgrades : upgrade[u].outcome = "APPLIED"}
Later(u, x) == upgrade[x].applied <= upgrade[u].applied
Latest(u)   == u \in AppliedOnes /\ \A x \in AppliedOnes : Later(u, x)
InOrder ==
    /\ \A u \in Upgrades : /\ upgrade[u].applied <= LastApplied
                           /\ upgrade[u].outcome \notin {"APPLIED", "ROLLED_BACK"} => upgrade[u].applied = 0
    /\ \A u, x \in AppliedOnes : upgrade[u].applied = upgrade[x].applied => u = x
\* Each was applied to the version where the one before it led.
Chained ==
    \A u, x \in AppliedOnes :
        u # x /\ Later(u, x) /\ (\A y \in AppliedOnes : Later(x, y) \/ Later(y, u)) => upgrade[u].from = upgrade[x].to

Tells(v) == \A u \in Upgrades : Latest(u) => upgrade[u].to = v
Agreed   == contrib.version = ext.version /\ Tells(ext.version)

\* Half way through a replacement.
RowWritten == {"reread", "register", "applied", "rolledBack"} \union AtHook
Registered == {"applied", "rolledBack"} \union AtHook
InstallUnderway(c) == exCall[c].to = ext.version /\ Tells(ext.version)
UpgradeUnderway(c) ==
    LET m == exCall[c] IN
    /\ m.pc # "status"
    /\ m.pc \in {"propose", "unregister"} => contrib.version = ext.version
    /\ m.pc \in {"propose", "unregister", "row"} => Tells(ext.version)
    /\ m.pc # "propose" => upgrade[m.u].outcome \in {"PENDING", "AWAITING_CONSENT"} /\ m.to = upgrade[m.u].to
    /\ m.pc \in RowWritten => ext.version = m.to /\ Tells(upgrade[m.u].from)
    /\ m.pc \in Registered => contrib.version = ext.version
RollbackUnderway(c) ==
    LET m == exCall[c] IN
    /\ Latest(m.u) /\ m.to = upgrade[m.u].from
    /\ m.pc \in RowWritten => ext.version = m.to
    /\ m.pc \in Registered => contrib.version = ext.version
Underway(c) ==
    /\ Present
    /\ exCall[c].op = "install" => InstallUnderway(c)
    /\ exCall[c].op = "upgrade" => UpgradeUnderway(c)
    /\ exCall[c].op = "rollback" => RollbackUnderway(c)

Tidy ==
    /\ \A c, x \in ExCalls : Replacing(c) /\ Replacing(x) => c = x
    /\ InOrder /\ Chained
    /\ \A c \in ExCalls : Replacing(c) => Underway(c)
    /\ Present /\ (\A c \in ExCalls : ~Replacing(c)) => Agreed

ExInv ==
    /\ ExTypeOK /\ exCall \in [ExCalls -> ExRow]
    /\ InPlace /\ NothingBefore /\ ModuleFollowsRow
    /\ ~untidy => Tidy
-----------------------------------------------------------------------------
(* Calls and their frames                                                   *)

LEMMA ExTypes ==
    ASSUME ExInv
    PROVE  /\ ext \in ExtRow /\ ext.status \in ExStatus /\ ext.version \in SomeVersion
           /\ contrib \in [version : SomeVersion, enabled : BOOLEAN]
           /\ upgrade \in [Upgrades -> UpgradeRow]
           /\ loaded \in [Hosts -> [version : SomeVersion, alive : BOOLEAN]]
           /\ behind \subseteq Hosts /\ untidy \in BOOLEAN
           /\ exCall \in [ExCalls -> ExRow]
           /\ \A c \in ExCalls : exCall[c] \in ExRow
BY DEF ExInv, ExTypeOK, ExStatus, SomeVersion, ExtRow, UpgradeRow

LEMMA ExOneCall ==
    ASSUME ExInv, NEW c \in ExCalls, NEW r \in ExRow, ExSet(c, r)
    PROVE  /\ exCall' \in [ExCalls -> ExRow] /\ exCall'[c] = r
           /\ \A x \in ExCalls \ {c} : exCall'[x] = exCall[x]
BY ExTypes DEF ExSet

LEMMA ExGoesOn ==
    ASSUME ExInv, NEW c \in ExCalls, NEW p \in ExPcs \ {"done"}, ExGo(c, p)
    PROVE  LET m == exCall[c]  n == exCall'[c] IN
           /\ n \in ExRow /\ ExSet(c, n) /\ n.pc = p
           /\ n.op = m.op /\ n.on = m.on /\ n.u = m.u /\ n.to = m.to /\ n.version = m.version
<1>1. exCall[c] \in ExRow
    BY ExTypes
<1>2. PICK r \in ExRow : r = [exCall[c] EXCEPT !.pc = p]
    BY <1>1 DEF ExRow
<1>3. ExSet(c, r)
    BY <1>2 DEF ExGo
<1>4. exCall'[c] = r
    BY <1>3, ExOneCall
<1> QED BY <1>1, <1>2, <1>3, <1>4 DEF ExRow

LEMMA ExIsOver ==
    ASSUME ExInv, NEW c \in ExCalls, ExGo(c, "done")
    PROVE  LET n == exCall'[c] IN n \in ExRow /\ ExSet(c, n) /\ n.pc = "done" /\ n.op = "invoke"
<1>1. (CHOOSE i \in Hosts : TRUE) \in Hosts
    BY ExtensionsAssumption
<1>2. NoExCall \in ExRow
    BY <1>1 DEF NoExCall, ExRow, ExPcs, ExAllOps, ExStatus, SomeVersion
<1>3. PICK r \in ExRow : r = [NoExCall EXCEPT !.pc = "done"]
    BY <1>2 DEF ExRow, ExPcs
<1>4. r.pc = "done" /\ r.op = "invoke"
    BY <1>3 DEF NoExCall
<1>5. ExSet(c, r)
    BY <1>3 DEF ExGo
<1>6. exCall'[c] = r
    BY <1>5, ExOneCall
<1> QED BY <1>4, <1>5, <1>6

LEMMA ReplacersArePlaced ==
    ASSUME ExInv, NEW c \in ExCalls, exCall[c].op \in Replacers
    PROVE  Replacing(c)
BY DEF ExInv, InPlace, Replacing, Replacers, Places, ExAt, AtHook

LEMMA GoingMeansInstalled ==
    ASSUME ExInv, NEW c \in ExCalls, ~ExAt(c, "idle")
    PROVE  ext.status # "none"
BY DEF ExInv, NothingBefore

\* The parts of the invariant after a step of one call.
LEMMA ExAssembled ==
    ASSUME ExInv, NEW c \in ExCalls, NEW r \in ExRow, ExSet(c, r), ExTypeOK', r.pc \in Places(r.op),
           r.op \in {"upgrade", "rollback"} /\ r.pc # "propose" => r.u \in Upgrades,
           ext'.status # "none", ModuleFollowsRow', ~untidy' => Tidy'
    PROVE  ExInv'
<1>1. /\ exCall' \in [ExCalls -> ExRow] /\ exCall'[c] = r
      /\ \A x \in ExCalls \ {c} : exCall'[x] = exCall[x]
    BY ExOneCall
<1>2. InPlace'
    BY <1>1 DEF ExInv, InPlace
<1>3. NothingBefore'
    BY DEF NothingBefore
<1> QED BY <1>1, <1>2, <1>3 DEF ExInv

\* Only a call that has written the version lets modules fall behind.
LEMMA RowAndModulesKept ==
    ASSUME ExInv, NEW c \in ExCalls, NEW r \in ExRow, ExSet(c, r), ~ExAt(c, "reread"),
           ext'.version = ext.version, UNCHANGED <<loaded, behind>>, Present' => Present
    PROVE  ModuleFollowsRow'
<1>1. \A x \in ExCalls \ {c} : exCall'[x] = exCall[x]
    BY ExOneCall
<1>2. ASSUME NEW i \in Hosts, NEW x \in ExCalls, ExAt(x, "reread"), exCall[x].on = i
      PROVE  ExAt(x, "reread")' /\ exCall'[x].on = i
    <2>1. x # c
        BY <1>2
    <2> QED BY <1>1, <1>2, <2>1 DEF ExAt
<1>3. ASSUME NEW i \in Hosts, Present', loaded'[i] # NoModule, loaded'[i].version # ext'.version
      PROVE  i \in behind' \/ \E x \in ExCalls : ExAt(x, "reread")' /\ exCall'[x].on = i
    <2>1. i \in behind \/ \E x \in ExCalls : ExAt(x, "reread") /\ exCall[x].on = i
        BY <1>3 DEF ExInv, ModuleFollowsRow, NoModule
    <2> QED BY <1>2, <2>1
<1> QED BY <1>3 DEF ModuleFollowsRow, NoModule

\* A call that replaces nothing leaves what the others are replacing.
LEMMA Aside ==
    ASSUME ExInv, NEW c \in ExCalls, NEW r \in ExRow, ExSet(c, r),
           exCall[c].op \notin Replacers, r.op \notin Replacers,
           ext'.version = ext.version, contrib'.version = contrib.version, UNCHANGED <<upgrade, untidy>>,
           Present' <=> Present
    PROVE  ~untidy' => Tidy'
<1> SUFFICES ASSUME ~untidy PROVE Tidy'
    OBVIOUS
<1>1. exCall'[c] = r /\ \A x \in ExCalls \ {c} : exCall'[x] = exCall[x]
    BY ExOneCall
<1>2. Tidy
    BY DEF ExInv
<1>3. ~Replacing(c) /\ ~Replacing(c)' /\ \A x \in ExCalls : (Replacing(x)' <=> Replacing(x))
    BY <1>1 DEF Replacing, ExAt
<1>4. InOrder' /\ Chained'
    BY <1>2 DEF Tidy, InOrder, Chained, AppliedOnes, Later, LastApplied
<1>5. \A v : (Tells(v)' <=> Tells(v)) /\ \A u : (Latest(u)' <=> Latest(u))
    BY DEF Tells, Latest, AppliedOnes, Later
<1>6. ASSUME NEW x \in ExCalls, Replacing(x)' PROVE Underway(x)'
    <2>1. x # c /\ exCall'[x] = exCall[x] /\ Underway(x)
        BY <1>1, <1>2, <1>3, <1>6 DEF Tidy
    <2>2. InstallUnderway(x) => InstallUnderway(x)'
        BY <1>5, <2>1 DEF InstallUnderway
    <2>3. UpgradeUnderway(x) => UpgradeUnderway(x)'
        BY <1>5, <2>1 DEF UpgradeUnderway
    <2>4. RollbackUnderway(x) => RollbackUnderway(x)'
        BY <1>5, <2>1 DEF RollbackUnderway
    <2> QED BY <2>1, <2>2, <2>3, <2>4 DEF Underway
<1>7. Present' /\ (\A x \in ExCalls : ~Replacing(x)') => Agreed'
    BY <1>2, <1>3, <1>5 DEF Tidy, Agreed
<1> QED BY <1>2, <1>3, <1>4, <1>6, <1>7 DEF Tidy

\* The one call that replaces goes on.
LEMMA Continues ==
    ASSUME ExInv, NEW c \in ExCalls, NEW r \in ExRow, ExSet(c, r),
           ~untidy, \A x \in ExCalls : Replacing(x) => x = c, r.op \in Replacers, r.pc \notin {"idle", "done"},
           InOrder', Chained', Underway(c)'
    PROVE  Tidy'
<1>1. exCall'[c] = r /\ \A x \in ExCalls \ {c} : exCall'[x] = exCall[x]
    BY ExOneCall
<1>2. \A x \in ExCalls : Replacing(x)' <=> x = c
    BY <1>1 DEF Replacing, ExAt
<1> QED BY <1>2 DEF Tidy

\* The one call that replaces is over.
LEMMA Concludes ==
    ASSUME ExInv, NEW c \in ExCalls, NEW r \in ExRow, ExSet(c, r),
           ~untidy, exCall[c].op \in Replacers, r.op \notin Replacers,
           InOrder', Chained', Present' => Agreed'
    PROVE  Tidy'
<1>1. exCall'[c] = r /\ \A x \in ExCalls \ {c} : exCall'[x] = exCall[x]
    BY ExOneCall
<1>2. \A x \in ExCalls : Replacing(x) => x = c
    BY ReplacersArePlaced DEF ExInv, Tidy
<1>3. \A x \in ExCalls : ~Replacing(x)'
    BY <1>1, <1>2 DEF Replacing, ExAt
<1> QED BY <1>3 DEF Tidy

LEMMA UpgradesKept ==
    ASSUME Tidy, UNCHANGED upgrade
    PROVE  InOrder' /\ Chained' /\ \A v : (Tells(v)' <=> Tells(v)) /\ \A u : (Latest(u)' <=> Latest(u))
BY DEF Tidy, InOrder, Chained, AppliedOnes, Later, LastApplied, Tells, Latest

LEMMA OneReplaces ==
    ASSUME ExInv, ~untidy, NEW c \in ExCalls, exCall[c].op \in Replacers
    PROVE  Tidy /\ Replacing(c) /\ Underway(c) /\ \A x \in ExCalls : Replacing(x) => x = c
BY ReplacersArePlaced DEF ExInv, Tidy

LEMMA TidyKept ==
    ASSUME Tidy, UNCHANGED <<ext, contrib, upgrade, exCall>>
    PROVE  Tidy'
<1>1. InOrder' /\ Chained'
    BY UpgradesKept
<1>2. \A u : Latest(u)' <=> Latest(u)
    BY DEF Latest, AppliedOnes, Later
<1>3. \A v : Tells(v)' <=> Tells(v)
    BY DEF Tells, Latest, AppliedOnes, Later
<1>4. \A x \in ExCalls : (Replacing(x)' <=> Replacing(x)) /\ (Underway(x)' <=> Underway(x))
    BY <1>2, <1>3 DEF Replacing, ExAt, Underway, InstallUnderway, UpgradeUnderway, RollbackUnderway, Present
<1> QED BY <1>1, <1>3, <1>4 DEF Tidy, Agreed, Present
-----------------------------------------------------------------------------
(* Calls begin                                                              *)

LEMMA BeginsWith ==
    ASSUME ExInv, NEW c \in ExCalls, NEW op \in ExAllOps, NEW step \in ExPcs, NEW u \in Upgrades \union {NoUpgrade},
           NEW to \in SomeVersion, Begin(c, op, step, u, to)
    PROVE  /\ \E r \in ExRow : /\ r = exCall'[c] /\ ExSet(c, r) /\ ExAt(c, "idle")
                             /\ r.pc = step /\ r.op = op /\ r.u = u /\ r.to = to /\ r.version = ext.version
           /\ untidy' = (untidy \/ (op \in Replacers /\ \E x \in ExCalls : Replacing(x)))
<1>1. PICK i \in Hosts : ExSet(c, [pc |-> step, op |-> op, on |-> i, status |-> ext.status,
                                   version |-> ext.version, u |-> u, to |-> to])
    BY DEF Begin
<1>2. PICK r \in ExRow : r = [pc |-> step, op |-> op, on |-> i, status |-> ext.status,
                              version |-> ext.version, u |-> u, to |-> to]
    BY ExTypes DEF ExRow
<1>3. ExSet(c, r)
    BY <1>1, <1>2
<1>4. exCall'[c] = r
    BY <1>3, ExOneCall
<1>5. r.pc = step /\ r.op = op /\ r.u = u /\ r.to = to /\ r.version = ext.version
    BY <1>2
<1> QED BY <1>3, <1>4, <1>5 DEF Begin

LEMMA IdleReplacesNothing ==
    ASSUME ExInv, NEW c \in ExCalls, ExAt(c, "idle")
    PROVE  exCall[c].op \notin Replacers /\ ~ExAt(c, "reread")
BY ReplacersArePlaced DEF Replacing, ExAt

LEMMA TypesUnchanged ==
    ASSUME ExInv, Unchanged, untidy' \in BOOLEAN
    PROVE  ExTypeOK' /\ (Present' <=> Present)
BY DEF ExInv, ExTypeOK, Unchanged, Present

LEMMA BeginsAside ==
    ASSUME ExInv, NEW c \in ExCalls, NEW op \in ExAllOps \ Replacers,
           NEW step \in ExPcs, step \in Places(op), Begin(c, op, step, NoUpgrade, NoVersion), Present, Unchanged
    PROVE  ExInv'
<1>1. NoUpgrade \in Upgrades \union {NoUpgrade} /\ NoVersion \in SomeVersion
    BY DEF SomeVersion
<1>2. PICK r \in ExRow : /\ r = exCall'[c] /\ ExSet(c, r) /\ ExAt(c, "idle")
                         /\ r.pc = step /\ r.op = op /\ r.u = NoUpgrade /\ r.to = NoVersion /\ r.version = ext.version
    BY <1>1, BeginsWith
<1>3. untidy' = untidy
    BY <1>1, BeginsWith, ExTypes
<1>4. ExTypeOK' /\ (Present' <=> Present) /\ ext'.status # "none"
    BY <1>3, TypesUnchanged, ExTypes DEF Present, Unchanged
<1>5. exCall[c].op \notin Replacers /\ ~ExAt(c, "reread")
    BY <1>2, IdleReplacesNothing
<1>6. ModuleFollowsRow'
    BY <1>2, <1>4, <1>5, RowAndModulesKept DEF Unchanged
<1>7. ~untidy' => Tidy'
    BY <1>2, <1>3, <1>4, <1>5, Aside DEF Unchanged
<1> QED BY <1>2, <1>4, <1>6, <1>7, ExAssembled DEF Replacers

LEMMA BeginsReplacing ==
    ASSUME ExInv, NEW c \in ExCalls, NEW op \in {"uninstall", "upgrade", "rollback"}, NEW step \in ExPcs,
           NEW u \in Upgrades \union {NoUpgrade}, NEW to \in SomeVersion, Begin(c, op, step, u, to),
           step \in Places(op), op \in {"upgrade", "rollback"} /\ step # "propose" => u \in Upgrades,
           Present, Unchanged, ~untidy' /\ Tidy /\ Agreed => Underway(c)'
    PROVE  ExInv'
<1>0. op \in ExAllOps /\ op \in Replacers
    BY DEF ExAllOps, Replacers
<1>a. PICK r \in ExRow : /\ r = exCall'[c] /\ ExSet(c, r) /\ ExAt(c, "idle")
                         /\ r.pc = step /\ r.op = op /\ r.u = u /\ r.to = to /\ r.version = ext.version
    BY <1>0, BeginsWith
<1>b. untidy' = (untidy \/ (op \in Replacers /\ \E x \in ExCalls : Replacing(x)))
    BY <1>0, BeginsWith
<1>1. untidy' = (untidy \/ \E x \in ExCalls : Replacing(x))
    BY <1>0, <1>b
<1>2. untidy' \in BOOLEAN
    BY <1>a, <1>1, ExTypes
<1>3. ExTypeOK' /\ (Present' <=> Present) /\ ext'.status # "none"
    BY <1>2, TypesUnchanged DEF Present, Unchanged
<1>4. ~ExAt(c, "reread")
    BY <1>a, <1>1, IdleReplacesNothing
<1>5. ModuleFollowsRow'
    BY <1>a, <1>1, <1>3, <1>4, RowAndModulesKept DEF Unchanged
<1>6. ASSUME ~untidy' PROVE Tidy'
    <2>1. Tidy /\ ~untidy /\ \A x \in ExCalls : ~Replacing(x)
        BY <1>a, <1>1, <1>6 DEF ExInv
    <2>2. Underway(c)'
        BY <1>6, <2>1 DEF Tidy
    <2>3. InOrder' /\ Chained'
        BY <2>1, UpgradesKept DEF Unchanged
    <2>4. step \notin {"idle", "done"}
        BY DEF Places, AtHook
    <2> QED BY <1>0, <1>a, <1>1, <2>1, <2>2, <2>3, <2>4, Continues
<1> QED BY <1>a, <1>1, <1>3, <1>5, <1>6, ExAssembled

LEMMA InstallKeeps ==
    ASSUME ExInv, NEW c \in ExCalls, Install(c) PROVE ExInv'
<1>1. ext.status = "none" /\ UNCHANGED <<contrib, upgrade, loaded, behind, untidy>>
    BY DEF Install
<1>2. PICK v \in ExVersions, s \in {"PENDING_REVIEW", "INSTALLED"}, i \in Hosts :
          /\ ext' = [status |-> s, version |-> v]
          /\ ExSet(c, [pc |-> "register", op |-> "install", on |-> i, status |-> s,
                       version |-> v, u |-> NoUpgrade, to |-> v])
    BY DEF Install
<1>3. PICK r \in ExRow : r = [pc |-> "register", op |-> "install", on |-> i, status |-> s,
                              version |-> v, u |-> NoUpgrade, to |-> v]
    BY DEF ExRow, ExPcs, ExAllOps, ExStatus, SomeVersion
<1>4. ExSet(c, r) /\ r.pc = "register" /\ r.op = "install" /\ r.to = v
    BY <1>2, <1>3
<1>5. ext'.status = s /\ ext'.version = v /\ ext' \in ExtRow
    BY <1>2 DEF ExtRow, ExStatus, SomeVersion
<1>6. ExTypeOK'
    BY <1>1, <1>5 DEF ExInv, ExTypeOK, ExtRow, ExStatus, SomeVersion
<1>7. /\ \A h \in Hosts : loaded'[h] = NoModule
      /\ \A x \in ExCalls : ExAt(x, "idle")
      /\ \A u \in Upgrades : upgrade[u].outcome # "APPLIED"
    BY <1>1 DEF ExInv, NothingBefore
<1>8. ModuleFollowsRow'
    BY <1>7 DEF ModuleFollowsRow, NoModule
<1>9. ASSUME ~untidy' PROVE Tidy'
    <2>1. Tidy /\ ~untidy
        BY <1>1, <1>9 DEF ExInv
    <2>2. \A x \in ExCalls : ~Replacing(x)
        BY <1>7 DEF Replacing
    <2>3. exCall'[c] = r
        BY <1>4, ExOneCall
    <2>4. Underway(c)'
        BY <1>1, <1>4, <1>5, <1>7, <2>3 DEF Underway, InstallUnderway, Present, Tells, Latest, AppliedOnes
    <2>5. InOrder' /\ Chained'
        BY <1>1, <2>1, UpgradesKept
    <2> QED BY <1>4, <2>1, <2>2, <2>4, <2>5, Continues DEF Replacers
<1>10. r.pc \in Places(r.op) /\ ext'.status # "none"
    BY <1>4, <1>5 DEF Places
<1> QED BY <1>4, <1>6, <1>8, <1>9, <1>10, ExAssembled

LEMMA RequestsKeep ==
    ASSUME ExInv, NEW c \in ExCalls, ApproveCapabilities(c) \/ Enable(c) \/ Invoke(c) PROVE ExInv'
<1>1. CASE ApproveCapabilities(c)
    <2>1. "approve" \in ExAllOps \ Replacers /\ "status" \in ExPcs /\ "status" \in Places("approve")
        BY DEF ExAllOps, Replacers, ExPcs, Places
    <2>2. Present /\ Begin(c, "approve", "status", NoUpgrade, NoVersion) /\ Unchanged
        BY <1>1 DEF ApproveCapabilities, Present
    <2> QED BY <2>1, <2>2, BeginsAside
<1>2. CASE Enable(c)
    <2>1. "enable" \in ExAllOps \ Replacers /\ "load" \in ExPcs /\ "load" \in Places("enable")
        BY DEF ExAllOps, Replacers, ExPcs, Places, AtHook
    <2>2. Present /\ Begin(c, "enable", "load", NoUpgrade, NoVersion) /\ Unchanged
        BY <1>2 DEF Enable
    <2> QED BY <2>1, <2>2, BeginsAside
<1>3. CASE Invoke(c)
    <2>1. "invoke" \in ExAllOps \ Replacers /\ "load" \in ExPcs /\ "load" \in Places("invoke")
        BY DEF ExAllOps, Replacers, ExPcs, Places, AtHook
    <2>2. Present /\ Begin(c, "invoke", "load", NoUpgrade, NoVersion) /\ Unchanged
        BY <1>3 DEF Invoke, Present
    <2> QED BY <2>1, <2>2, BeginsAside
<1> QED BY <1>1, <1>2, <1>3

LEMMA StopExtensionKeeps ==
    ASSUME ExInv, NEW c \in ExCalls, StopExtension(c) PROVE ExInv'
<1>1. PICK op \in {"disable", "quarantine", "uninstall"} : Begin(c, op, "load", NoUpgrade, NoVersion)
    BY DEF StopExtension
<1>2. Present /\ Unchanged /\ "load" \in ExPcs /\ "load" \in Places(op)
    BY DEF StopExtension, ExPcs, Places, AtHook
<1>3. CASE op \in {"disable", "quarantine"}
    <2>1. op \in ExAllOps \ Replacers
        BY <1>3 DEF ExAllOps, Replacers
    <2> QED BY <1>1, <1>2, <2>1, BeginsAside
<1>4. CASE op = "uninstall"
    <2>1. NoUpgrade \in Upgrades \union {NoUpgrade} /\ NoVersion \in SomeVersion /\ op \in ExAllOps
        BY DEF SomeVersion, ExAllOps
    <2>2. exCall'[c].op = "uninstall"
        BY <1>1, <1>2, <1>4, <2>1, BeginsWith
    <2>3. Underway(c)'
        BY <1>2, <2>2 DEF Underway, Present, Unchanged
    <2> QED BY <1>1, <1>2, <1>4, <2>1, <2>3, BeginsReplacing
<1> QED BY <1>3, <1>4

LEMMA ProposeUpgradeKeeps ==
    ASSUME ExInv, NEW c \in ExCalls, ProposeUpgrade(c) PROVE ExInv'
<1>1. PICK v \in ExVersions : Begin(c, "upgrade", "propose", NoUpgrade, v)
    BY DEF ProposeUpgrade
<1>2. Present /\ Unchanged /\ "propose" \in ExPcs /\ "propose" \in Places("upgrade") /\ "upgrade" \in ExAllOps
    BY DEF ProposeUpgrade, ExPcs, Places, ExAllOps
<1>3. NoUpgrade \in Upgrades \union {NoUpgrade} /\ v \in SomeVersion
    BY DEF SomeVersion
<1>4. exCall'[c].op = "upgrade" /\ exCall'[c].pc = "propose"
    BY <1>1, <1>2, <1>3, BeginsWith
<1>5. Tidy /\ Agreed => Underway(c)'
    <2>1. Tells(ext.version) => Tells(ext.version)'
        BY <1>2 DEF Unchanged, Tells, Latest, AppliedOnes, Later
    <2> QED BY <1>2, <1>4, <2>1 DEF Underway, UpgradeUnderway, Present, Unchanged, Agreed, RowWritten, Registered, AtHook
<1> QED BY <1>1, <1>2, <1>3, <1>5, BeginsReplacing

LEMMA ConsentToUpgradeKeeps ==
    ASSUME ExInv, NEW c \in ExCalls, ConsentToUpgrade(c) PROVE ExInv'
<1>1. PICK u \in Upgrades : upgrade[u].outcome = "AWAITING_CONSENT" /\ Begin(c, "upgrade", "unregister", u, upgrade[u].to)
    BY DEF ConsentToUpgrade
<1>2. Present /\ Unchanged /\ "unregister" \in ExPcs /\ "unregister" \in Places("upgrade") /\ "upgrade" \in ExAllOps
    BY DEF ConsentToUpgrade, ExPcs, Places, ExAllOps
<1>3. PICK to \in SomeVersion : to = upgrade[u].to
    BY ExTypes DEF UpgradeRow
<1>4. exCall'[c].op = "upgrade" /\ exCall'[c].pc = "unregister" /\ exCall'[c].u = u /\ exCall'[c].to = to
    BY <1>1, <1>2, <1>3, BeginsWith
<1>5. Tidy /\ Agreed => Underway(c)'
    <2>1. Tells(ext.version) => Tells(ext.version)'
        BY <1>2 DEF Unchanged, Tells, Latest, AppliedOnes, Later
    <2> QED BY <1>1, <1>2, <1>3, <1>4, <2>1
            DEF Underway, UpgradeUnderway, Present, Unchanged, Agreed, RowWritten, Registered, AtHook
<1> QED BY <1>1, <1>2, <1>3, <1>5, BeginsReplacing

LEMMA RollbackKeeps ==
    ASSUME ExInv, NEW c \in ExCalls, Rollback(c) PROVE ExInv'
<1>1. PICK u \in Upgrades :
          /\ upgrade[u].outcome = "APPLIED"
          /\ \A x \in Upgrades : upgrade[x].outcome = "APPLIED" => upgrade[x].applied <= upgrade[u].applied
          /\ Begin(c, "rollback", "unregister", u, upgrade[u].from)
    BY DEF Rollback
<1>2. Present /\ Unchanged /\ "unregister" \in ExPcs /\ "unregister" \in Places("rollback") /\ "rollback" \in ExAllOps
    BY DEF Rollback, ExPcs, Places, ExAllOps
<1>3. PICK to \in SomeVersion : to = upgrade[u].from
    BY ExTypes DEF UpgradeRow
<1>4. exCall'[c].op = "rollback" /\ exCall'[c].pc = "unregister" /\ exCall'[c].u = u /\ exCall'[c].to = to
    BY <1>1, <1>2, <1>3, BeginsWith
<1>5. Latest(u)
    BY <1>1 DEF Latest, AppliedOnes, Later
<1>6. Latest(u)'
    BY <1>2, <1>5 DEF Unchanged, Latest, AppliedOnes, Later
<1>7. Underway(c)'
    BY <1>2, <1>3, <1>4, <1>6 DEF Underway, RollbackUnderway, Present, Unchanged, RowWritten, Registered, AtHook
<1> QED BY <1>1, <1>2, <1>3, <1>7, BeginsReplacing
-----------------------------------------------------------------------------
(* Modules and their hooks                                                  *)

Hooked == {"invoke", "initialize", "enable", "disable", "quarantine", "uninstall", "upgrade"}

LEMMA AfterHookPlaces ==
    ASSUME NEW op \in Hooked, NEW ok \in BOOLEAN
    PROVE  LET p == AfterHook(op, ok) IN
           /\ p \in ExPcs /\ p \in {"done", "status", "unregister", "applied", "failed"}
           /\ p = "done" => op \in {"invoke", "initialize", "enable"}
           /\ p # "done" => p \in Places(op)
           /\ op = "upgrade" => p \in {"applied", "failed"}
BY DEF Hooked, AfterHook, ExPcs, Places

\* A call that loads a module or runs a hook goes on, whatever came of it.
LEMMA HookMoves ==
    ASSUME ExInv, NEW c \in ExCalls, exCall[c].pc \in AtHook, NEW p,
           \/ p \in AtHook
           \/ \E ok \in BOOLEAN : p = AfterHook(exCall[c].op, ok),
           ExGo(c, p), UNCHANGED <<ext, contrib, upgrade, untidy>>,
           loaded' \in [Hosts -> [version : SomeVersion, alive : BOOLEAN]], behind' \subseteq Hosts, ModuleFollowsRow'
    PROVE  ExInv'
<1>1. exCall[c].op \in Hooked /\ exCall[c].pc \in Places(exCall[c].op)
    <2>1. exCall[c].op \in ExAllOps /\ exCall[c].pc \in Places(exCall[c].op)
        BY ExTypes DEF ExRow, ExInv, InPlace
    <2> QED BY <2>1 DEF Hooked, ExAllOps, Places, AtHook
<1>2. /\ p \in ExPcs /\ p # "idle" /\ p # "propose"
      /\ p = "done" => exCall[c].op \in {"invoke", "initialize", "enable"}
      /\ p # "done" => p \in Places(exCall[c].op)
      /\ exCall[c].op = "upgrade" => p \in AtHook \union {"applied", "failed"}
    <2>1. CASE p \in AtHook
        BY <1>1, <2>1 DEF Hooked, AtHook, ExPcs, Places
    <2>2. CASE \E ok \in BOOLEAN : p = AfterHook(exCall[c].op, ok)
        BY <1>1, <2>2, AfterHookPlaces
    <2> QED BY <2>1, <2>2
<1>3. PICK r \in ExRow : r = exCall'[c] /\ ExSet(c, r) /\ r.pc = p
                         /\ IF p = "done" THEN r.op = "invoke"
                            ELSE r.op = exCall[c].op /\ r.u = exCall[c].u /\ r.to = exCall[c].to
    BY <1>2, ExGoesOn, ExIsOver
<1>4. ExTypeOK' /\ (Present' <=> Present)
    BY DEF ExInv, ExTypeOK, Present, SomeVersion
<1>5. ext'.status # "none"
    <2>1. ~ExAt(c, "idle")
        BY DEF ExAt, AtHook
    <2> QED BY <2>1, GoingMeansInstalled
<1>6. ASSUME ~untidy' PROVE Tidy'
    <2>1. CASE exCall[c].op \notin Replacers
        <3>1. r.op \notin Replacers
            BY <1>3, <2>1 DEF Replacers
        <3> QED BY <1>3, <1>4, <1>6, <2>1, <3>1, Aside
    <2>2. CASE exCall[c].op \in Replacers
        <3>1. Tidy /\ Replacing(c) /\ Underway(c) /\ \A x \in ExCalls : Replacing(x) => x = c
            BY <1>6, <2>2, OneReplaces
        <3>2. p # "done" /\ exCall[c].op \in {"uninstall", "upgrade"}
            BY <1>1, <1>2, <2>2 DEF Replacers, Hooked
        <3>3. InOrder' /\ Chained'
            BY <3>1, UpgradesKept
        <3>4. Underway(c)'
            <4>1. CASE exCall[c].op = "uninstall"
                BY <1>3, <1>4, <3>1, <3>2, <4>1 DEF Underway
            <4>2. CASE exCall[c].op = "upgrade"
                <5>1. UpgradeUnderway(c) /\ Present
                    BY <3>1, <4>2 DEF Underway
                <5>2. Tells(upgrade[exCall[c].u].from) => Tells(upgrade[exCall[c].u].from)'
                    BY <1>3, <3>2 DEF Tells, Latest, AppliedOnes, Later
                <5>3. UpgradeUnderway(c)'
                    BY <1>2, <1>3, <3>2, <4>2, <5>1, <5>2 DEF UpgradeUnderway, RowWritten, Registered, AtHook
                <5> QED BY <1>3, <1>4, <3>2, <4>2, <5>1, <5>3 DEF Underway
            <4> QED BY <3>2, <4>1, <4>2
        <3> QED BY <1>2, <1>3, <1>6, <2>2, <3>1, <3>2, <3>3, <3>4, Continues
    <2> QED BY <2>1, <2>2
<1>7. r.op \in {"upgrade", "rollback"} /\ r.pc # "propose" => r.u \in Upgrades
    BY <1>1, <1>3 DEF ExInv, InPlace, Hooked, AtHook
<1>8. r.pc \in Places(r.op)
    BY <1>2, <1>3 DEF Places
<1> QED BY <1>3, <1>4, <1>5, <1>6, <1>7, <1>8, ExAssembled

\* Who waits for the row to be read back, while another call moves.
LEMMA RereadersStay ==
    ASSUME ExInv, NEW c \in ExCalls, NEW r \in ExRow, ExSet(c, r), ~ExAt(c, "reread"), NEW i \in Hosts,
           \E x \in ExCalls : ExAt(x, "reread") /\ exCall[x].on = i
    PROVE  \E x \in ExCalls : ExAt(x, "reread")' /\ exCall'[x].on = i
<1>1. \A x \in ExCalls \ {c} : exCall'[x] = exCall[x]
    BY ExOneCall
<1> QED BY <1>1 DEF ExAt

LEMMA ModuleForKeeps ==
    ASSUME ExInv, NEW c \in ExCalls, ModuleFor(c) PROVE ExInv'
<1>1. exCall[c].pc = "load" /\ UNCHANGED <<ext, contrib, upgrade, loaded, behind, untidy>>
    BY DEF ModuleFor, ExAt
<1>2. PICK p \in {"hook", "loading"} : ExGo(c, p)
    BY DEF ModuleFor
<1>3. p \in AtHook /\ p \in ExPcs \ {"done"} /\ exCall[c].pc \in AtHook
    BY <1>1 DEF AtHook, ExPcs
<1>4. exCall'[c] \in ExRow /\ ExSet(c, exCall'[c])
    BY <1>2, <1>3, ExGoesOn
<1>5. Present' <=> Present
    BY <1>1 DEF Present
<1>6. ModuleFollowsRow'
    BY <1>1, <1>4, <1>5, RowAndModulesKept DEF ExAt
<1> QED BY <1>1, <1>2, <1>3, <1>6, HookMoves, ExTypes

LEMMA LoadEndsKeeps ==
    ASSUME ExInv, NEW c \in ExCalls, LoadEnds(c) PROVE ExInv'
<1>1. exCall[c].pc = "loading" /\ UNCHANGED <<ext, contrib, upgrade, untidy>> /\ exCall[c].pc \in AtHook
    BY DEF LoadEnds, ExAt, AtHook
<1>2. Present' <=> Present
    BY <1>1 DEF Present
<1>3. CASE /\ loaded' = [loaded EXCEPT ![exCall[c].on] = [version |-> exCall[c].version, alive |-> TRUE]]
           /\ behind' = (behind \ {exCall[c].on}) \union {i \in {exCall[c].on} : exCall[c].version # ext.version}
           /\ ExGo(c, "hook")
    <2>1. exCall[c].on \in Hosts /\ exCall[c].version \in SomeVersion
        BY ExTypes DEF ExRow
    <2>2. "hook" \in AtHook /\ "hook" \in ExPcs \ {"done"}
        BY DEF AtHook, ExPcs
    <2>3. PICK r \in ExRow : ExSet(c, r)
        BY <1>3, <2>2, ExGoesOn
    <2>4. PICK md \in [version : SomeVersion, alive : BOOLEAN] : md = [version |-> exCall[c].version, alive |-> TRUE]
        BY <2>1
    <2>5. /\ loaded' \in [Hosts -> [version : SomeVersion, alive : BOOLEAN]]
          /\ loaded'[exCall[c].on] = md /\ \A i \in Hosts \ {exCall[c].on} : loaded'[i] = loaded[i]
        BY <1>3, <2>1, <2>4, ExTypes
    <2>6. behind' \subseteq Hosts /\ \A i \in Hosts \ {exCall[c].on} : i \in behind => i \in behind'
        BY <1>3, <2>1, ExTypes
    <2>7. ASSUME NEW i \in Hosts, Present', loaded'[i] # NoModule, loaded'[i].version # ext'.version
          PROVE  i \in behind' \/ \E x \in ExCalls : ExAt(x, "reread")' /\ exCall'[x].on = i
        <3>1. CASE i = exCall[c].on
            <4>1. md.version = exCall[c].version
                BY <2>4
            <4> QED BY <1>1, <1>3, <2>5, <2>7, <3>1, <4>1
        <3>2. CASE i # exCall[c].on
            <4>1. i \in behind \/ \E x \in ExCalls : ExAt(x, "reread") /\ exCall[x].on = i
                BY <1>1, <1>2, <2>5, <2>7, <3>2 DEF ExInv, ModuleFollowsRow, NoModule
            <4> QED BY <1>1, <2>3, <2>6, <3>2, <4>1, RereadersStay DEF ExAt
        <3> QED BY <3>1, <3>2
    <2>8. ModuleFollowsRow'
        BY <2>7 DEF ModuleFollowsRow, NoModule
    <2> QED BY <1>1, <1>3, <2>2, <2>5, <2>6, <2>8, HookMoves
<1>4. CASE ExGo(c, AfterHook(exCall[c].op, FALSE)) /\ UNCHANGED <<loaded, behind>>
    <2>1. exCall[c].op \in Hooked
        <3>1. exCall[c].op \in ExAllOps /\ exCall[c].pc \in Places(exCall[c].op)
            BY ExTypes DEF ExRow, ExInv, InPlace
        <3> QED BY <1>1, <3>1 DEF Hooked, ExAllOps, Places, AtHook
    <2>2. PICK p \in ExPcs : p = AfterHook(exCall[c].op, FALSE)
        BY <2>1, AfterHookPlaces
    <2>3. PICK r \in ExRow : ExSet(c, r)
        BY <1>4, <2>2, ExGoesOn, ExIsOver
    <2>4. ModuleFollowsRow'
        BY <1>1, <1>2, <1>4, <2>3, RowAndModulesKept DEF ExAt
    <2> QED BY <1>1, <1>4, <2>2, <2>4, HookMoves, ExTypes
<1> QED BY <1>3, <1>4 DEF LoadEnds

\* A thread that ends, or not, leaves the version of the module.
LEMMA ThreadsOnly ==
    ASSUME ExInv, NEW i \in Hosts, NEW b \in BOOLEAN, loaded' = [loaded EXCEPT ![i].alive = b], b => loaded[i].alive
    PROVE  /\ loaded' \in [Hosts -> [version : SomeVersion, alive : BOOLEAN]]
           /\ \A h \in Hosts : loaded'[h].version = loaded[h].version /\ (loaded[h] = NoModule => loaded'[h] = NoModule)
<1>1. loaded \in [Hosts -> [version : SomeVersion, alive : BOOLEAN]]
    BY ExTypes
<1>2. PICK md \in [version : SomeVersion, alive : BOOLEAN] : md = [loaded[i] EXCEPT !.alive = b]
    BY <1>1
<1>3. md.version = loaded[i].version /\ md.alive = b
    BY <1>1, <1>2
<1>4. loaded' = [loaded EXCEPT ![i] = md]
    BY <1>2
<1>5. loaded[i] = NoModule => md = NoModule
    <2> SUFFICES ASSUME loaded[i] = NoModule PROVE md = NoModule
        OBVIOUS
    <2>1. loaded[i].alive = FALSE
        BY DEF NoModule
    <2>2. b = FALSE
        BY <2>1
    <2>3. md = [NoModule EXCEPT !.alive = FALSE]
        BY <1>2, <2>2
    <2> QED BY <2>3 DEF NoModule
<1> QED BY <1>1, <1>3, <1>4, <1>5

LEMMA HookKeeps ==
    ASSUME ExInv, NEW c \in ExCalls, Hook(c) PROVE ExInv'
<1>1. exCall[c].pc = "hook" /\ UNCHANGED <<ext, contrib, upgrade, behind, untidy>> /\ exCall[c].pc \in AtHook
    BY DEF Hook, ExAt, AtHook
<1>2. Present' <=> Present
    BY <1>1 DEF Present
<1>3. exCall[c].op \in Hooked
    <2>1. exCall[c].op \in ExAllOps /\ exCall[c].pc \in Places(exCall[c].op)
        BY ExTypes DEF ExRow, ExInv, InPlace
    <2> QED BY <1>1, <2>1 DEF Hooked, ExAllOps, Places, AtHook
<1>4. CASE ExGo(c, AfterHook(exCall[c].op, TRUE)) /\ UNCHANGED loaded
    <2>1. PICK p \in ExPcs : p = AfterHook(exCall[c].op, TRUE)
        BY <1>3, AfterHookPlaces
    <2>2. PICK r \in ExRow : ExSet(c, r)
        BY <1>4, <2>1, ExGoesOn, ExIsOver
    <2>3. ModuleFollowsRow'
        BY <1>1, <1>2, <1>4, <2>2, RowAndModulesKept DEF ExAt
    <2> QED BY <1>1, <1>4, <2>1, <2>3, HookMoves, ExTypes
<1>5. ASSUME NEW overrun \in BOOLEAN, ExGo(c, AfterHook(exCall[c].op, FALSE)),
             loaded' = [loaded EXCEPT ![exCall[c].on].alive = loaded[exCall[c].on].alive /\ ~overrun]
      PROVE  ExInv'
    <2>1. PICK p \in ExPcs : p = AfterHook(exCall[c].op, FALSE)
        BY <1>3, AfterHookPlaces
    <2>2. PICK r \in ExRow : ExSet(c, r)
        BY <1>5, <2>1, ExGoesOn, ExIsOver
    <2>3. exCall[c].on \in Hosts
        BY ExTypes DEF ExRow
    <2>4. loaded[exCall[c].on].alive \in BOOLEAN
        BY <2>3, ExTypes
    <2>5. PICK b \in BOOLEAN : b = (loaded[exCall[c].on].alive /\ ~overrun)
        BY <2>4
    <2>6. /\ loaded' \in [Hosts -> [version : SomeVersion, alive : BOOLEAN]]
          /\ \A h \in Hosts : loaded'[h].version = loaded[h].version /\ (loaded[h] = NoModule => loaded'[h] = NoModule)
        BY <1>5, <2>3, <2>5, ThreadsOnly
    <2>7. ASSUME NEW i \in Hosts, Present', loaded'[i] # NoModule, loaded'[i].version # ext'.version
          PROVE  i \in behind' \/ \E x \in ExCalls : ExAt(x, "reread")' /\ exCall'[x].on = i
        <3>1. i \in behind \/ \E x \in ExCalls : ExAt(x, "reread") /\ exCall[x].on = i
            BY <1>1, <1>2, <2>6, <2>7 DEF ExInv, ModuleFollowsRow
        <3> QED BY <1>1, <2>2, <3>1, RereadersStay DEF ExAt
    <2>8. ModuleFollowsRow'
        BY <2>7 DEF ModuleFollowsRow, NoModule
    <2> QED BY <1>1, <1>5, <2>1, <2>6, <2>8, HookMoves, ExTypes
<1> QED BY <1>4, <1>5 DEF Hook

LEMMA ThreadEndsKeeps ==
    ASSUME ExInv, NEW i \in Hosts, ThreadEnds(i) PROVE ExInv'
<1>1. UNCHANGED <<ext, contrib, upgrade, exCall, behind, untidy>> /\ loaded' = [loaded EXCEPT ![i].alive = FALSE]
    BY DEF ThreadEnds
<1>2. /\ loaded' \in [Hosts -> [version : SomeVersion, alive : BOOLEAN]]
      /\ \A h \in Hosts : loaded'[h].version = loaded[h].version /\ (loaded[h] = NoModule => loaded'[h] = NoModule)
    BY <1>1, ThreadsOnly
<1>3. ExTypeOK'
    BY <1>1, <1>2 DEF ExInv, ExTypeOK, SomeVersion
<1>4. NothingBefore'
    BY <1>1, <1>2 DEF ExInv, NothingBefore, ExAt, NoModule
<1>5. ModuleFollowsRow'
    <2>1. ASSUME NEW h \in Hosts, Present', loaded'[h] # NoModule, loaded'[h].version # ext'.version
          PROVE  h \in behind \/ \E x \in ExCalls : ExAt(x, "reread") /\ exCall[x].on = h
        BY <1>1, <1>2, <2>1 DEF ExInv, ModuleFollowsRow, Present
    <2> QED BY <1>1, <2>1 DEF ModuleFollowsRow, ExAt, NoModule
<1>6. ~untidy' => Tidy'
    BY <1>1, TidyKept DEF ExInv
<1>7. InPlace'
    BY <1>1 DEF ExInv, InPlace
<1> QED BY <1>1, <1>3, <1>4, <1>5, <1>6, <1>7, ExTypes DEF ExInv
-----------------------------------------------------------------------------
(* Status                                                                   *)

LEMMA PlacedAt ==
    ASSUME ExInv, NEW c \in ExCalls
    PROVE  /\ exCall[c] \in ExRow /\ exCall[c].op \in ExAllOps /\ exCall[c].on \in Hosts
           /\ exCall[c].pc \in Places(exCall[c].op)
           /\ exCall[c].op \in {"upgrade", "rollback"} /\ exCall[c].pc # "propose" => exCall[c].u \in Upgrades
           /\ exCall[c].pc \notin {"idle", "done"} => ext.status # "none"
<1>1. exCall[c].pc # "idle" => ext.status # "none"
    BY GoingMeansInstalled DEF ExAt
<1> QED BY <1>1, ExTypes DEF ExInv, InPlace, ExRow

LEMMA WriteStatusKeeps ==
    ASSUME ExInv, NEW c \in ExCalls, WriteStatus(c) PROVE ExInv'
<1>1. exCall[c].pc = "status" /\ UNCHANGED <<contrib, upgrade, loaded, behind, untidy>> /\ ~ExAt(c, "reread")
    BY DEF WriteStatus, ExAt
<1>2. exCall[c].op \in {"approve", "initialize", "enable", "disable", "quarantine", "upgrade"} /\ ext.status # "none"
    BY <1>1, PlacedAt DEF ExAllOps, Places, AtHook
\* Whatever is written, the row stays present or absent as it was.
<1>3. /\ ext' \in ExtRow /\ ext'.version = ext.version
      /\ (Present' <=> Present) /\ ext'.status # "none"
    <2>1. CASE Present /\ ext' = [ext EXCEPT !.status = StatusAfter(exCall[c].op)]
        <3>1. PICK s \in ExStatus \ {"none", "removed"} : s = StatusAfter(exCall[c].op)
            BY <1>2 DEF StatusAfter, ExStatus
        <3>2. ext' = [ext EXCEPT !.status = s]
            BY <2>1, <3>1
        <3> QED BY <2>1, <3>2, ExTypes DEF ExtRow, Present
    <2>2. CASE UNCHANGED ext
        BY <1>2, <2>2, ExTypes DEF Present
    <2> QED BY <2>1, <2>2 DEF WriteStatus
<1>4. ExTypeOK'
    BY <1>1, <1>3 DEF ExInv, ExTypeOK, ExtRow, ExStatus, SomeVersion
<1>5. \E r \in ExRow : /\ ExSet(c, r) /\ r.op \notin {"upgrade", "rollback"} /\ r.op \notin Replacers
                       /\ r.pc \in Places(r.op)
    <2>1. CASE Present /\ exCall[c].op = "approve"
        <3>1. ExSet(c, [exCall[c] EXCEPT !.op = "initialize", !.pc = "load", !.version = ext.version])
            BY <2>1 DEF WriteStatus
        <3>2. PICK r \in ExRow : r = [exCall[c] EXCEPT !.op = "initialize", !.pc = "load", !.version = ext.version]
            BY PlacedAt, ExTypes DEF ExRow, ExPcs, ExAllOps
        <3>3. r.op = "initialize" /\ r.pc = "load"
            BY <3>2, PlacedAt DEF ExRow
        <3>4. ExSet(c, r)
            BY <3>1, <3>2
        <3>5. r.op \notin Replacers /\ r.pc \in Places(r.op)
            BY <3>3 DEF Replacers, Places, AtHook
        <3> QED BY <3>3, <3>4, <3>5
    <2>2. CASE ~Present \/ exCall[c].op \in {"initialize", "upgrade"}
        <3>1. ExGo(c, "done")
            BY <2>2 DEF WriteStatus
        <3> QED BY <3>1, ExIsOver DEF Replacers, Places
    <2>3. CASE Present /\ exCall[c].op \in {"enable", "disable", "quarantine"}
        <3>1. ExGo(c, "flags") /\ "flags" \in ExPcs \ {"done"}
            BY <2>3 DEF WriteStatus, ExPcs
        <3>2. PICK r \in ExRow : ExSet(c, r) /\ r.pc = "flags" /\ r.op = exCall[c].op
            BY <3>1, ExGoesOn
        <3> QED BY <2>3, <3>2 DEF Replacers, Places
    <2> QED BY <1>2, <2>1, <2>2, <2>3
<1>6. PICK r \in ExRow : /\ ExSet(c, r) /\ r.op \notin {"upgrade", "rollback"} /\ r.op \notin Replacers
                         /\ r.pc \in Places(r.op)
    BY <1>5
<1>7. ModuleFollowsRow'
    BY <1>1, <1>3, <1>6, RowAndModulesKept
<1>8. ASSUME ~untidy' PROVE Tidy'
    <2>1. exCall[c].op # "upgrade"
        BY <1>1, <1>8, OneReplaces DEF Replacers, Underway, UpgradeUnderway
    <2>2. exCall[c].op \notin Replacers
        BY <1>2, <2>1 DEF Replacers
    <2> QED BY <1>1, <1>3, <1>6, <1>8, <2>2, Aside
<1> QED BY <1>3, <1>4, <1>6, <1>7, <1>8, ExAssembled

\* A module that is let go of follows the row.
LEMMA LetGo ==
    ASSUME ExInv, NEW c \in ExCalls, NEW r \in ExRow, ExSet(c, r), UNCHANGED ext,
           loaded' = [loaded EXCEPT ![exCall[c].on] = NoModule], behind' = behind \ {exCall[c].on}
    PROVE  /\ loaded' \in [Hosts -> [version : SomeVersion, alive : BOOLEAN]]
           /\ behind' \subseteq Hosts /\ ModuleFollowsRow'
<1>1. exCall[c].on \in Hosts
    BY ExTypes DEF ExRow
<1>2. NoModule \in [version : SomeVersion, alive : BOOLEAN]
    BY DEF NoModule, SomeVersion
<1>3. /\ loaded' \in [Hosts -> [version : SomeVersion, alive : BOOLEAN]] /\ loaded'[exCall[c].on] = NoModule
      /\ \A i \in Hosts \ {exCall[c].on} : loaded'[i] = loaded[i] /\ (i \in behind => i \in behind')
    BY <1>1, <1>2, ExTypes
<1>4. \A x \in ExCalls \ {c} : exCall'[x] = exCall[x]
    BY ExOneCall
<1>5. ASSUME NEW i \in Hosts, Present', loaded'[i] # NoModule, loaded'[i].version # ext'.version
      PROVE  i \in behind' \/ \E x \in ExCalls : ExAt(x, "reread")' /\ exCall'[x].on = i
    <2>1. i # exCall[c].on
        BY <1>3, <1>5
    <2>2. i \in behind \/ \E x \in ExCalls : ExAt(x, "reread") /\ exCall[x].on = i
        BY <1>3, <1>5, <2>1 DEF ExInv, ModuleFollowsRow, NoModule, Present
    <2>3. ASSUME NEW x \in ExCalls, ExAt(x, "reread"), exCall[x].on = i
          PROVE  ExAt(x, "reread")' /\ exCall'[x].on = i
        BY <1>4, <2>1, <2>3 DEF ExAt
    <2> QED BY <1>3, <2>1, <2>2, <2>3
<1>6. ModuleFollowsRow'
    BY <1>5 DEF ModuleFollowsRow, NoModule
<1> QED BY <1>3, <1>6, ExTypes

LEMMA WriteFlagsKeeps ==
    ASSUME ExInv, NEW c \in ExCalls, WriteFlags(c) PROVE ExInv'
<1>1. exCall[c].pc = "flags" /\ UNCHANGED <<ext, upgrade, untidy>> /\ ~ExAt(c, "reread") /\ ExGo(c, "done")
    BY DEF WriteFlags, ExAt
<1>2. exCall[c].op \in {"enable", "disable", "quarantine"} /\ ext.status # "none"
    BY <1>1, PlacedAt DEF ExAllOps, Places, AtHook
<1>3. PICK b \in BOOLEAN : b = (contrib.version # NoVersion /\ exCall[c].op = "enable")
    OBVIOUS
<1>4. contrib' = [contrib EXCEPT !.enabled = b]
    BY <1>3 DEF WriteFlags
<1>5. contrib' \in [version : SomeVersion, enabled : BOOLEAN] /\ contrib'.version = contrib.version
    BY <1>4, ExTypes
<1>6. PICK r \in ExRow : ExSet(c, r) /\ r.pc = "done" /\ r.op = "invoke"
    BY <1>1, ExIsOver
<1>7. /\ loaded' \in [Hosts -> [version : SomeVersion, alive : BOOLEAN]]
      /\ behind' \subseteq Hosts /\ ModuleFollowsRow'
    <2>1. CASE UNCHANGED <<loaded, behind>>
        BY <1>1, <1>6, <2>1, RowAndModulesKept, ExTypes DEF Present
    <2>2. CASE loaded' = [loaded EXCEPT ![exCall[c].on] = NoModule] /\ behind' = behind \ {exCall[c].on}
        BY <1>1, <1>6, <2>2, LetGo
    <2> QED BY <2>1, <2>2 DEF WriteFlags
<1>8. ExTypeOK'
    BY <1>1, <1>5, <1>7 DEF ExInv, ExTypeOK, SomeVersion
<1>9. ~untidy' => Tidy'
    BY <1>1, <1>2, <1>5, <1>6, Aside DEF Replacers, Present
<1> QED BY <1>1, <1>2, <1>6, <1>7, <1>8, <1>9, ExAssembled DEF Places
-----------------------------------------------------------------------------
(* Replacements                                                             *)

\* The history of applications does not change with the other outcomes.
LEMMA ApplicationsKept ==
    ASSUME Tidy, AppliedOnes' = AppliedOnes,
           \A u \in Upgrades : /\ upgrade'[u].applied = upgrade[u].applied
                               /\ upgrade'[u].outcome \notin {"APPLIED", "ROLLED_BACK"} => upgrade[u].applied = 0
                               /\ u \in AppliedOnes => upgrade'[u].from = upgrade[u].from /\ upgrade'[u].to = upgrade[u].to
    PROVE  InOrder' /\ Chained' /\ \A v : Tells(v)' <=> Tells(v)
<1>0. AppliedOnes \subseteq Upgrades
    BY DEF AppliedOnes
<1>1. LastApplied' = LastApplied
    BY DEF LastApplied
<1>2. \A u, x \in AppliedOnes : Later(u, x)' <=> Later(u, x)
    BY <1>0 DEF Later
<1>3. InOrder'
    BY <1>0, <1>1 DEF Tidy, InOrder
<1>4. Chained'
    BY <1>0, <1>2 DEF Tidy, Chained
<1>5. \A u : Latest(u)' <=> Latest(u)
    BY <1>2 DEF Latest
<1>6. \A v : Tells(v)' <=> Tells(v)
    BY <1>5 DEF Tells, Latest
<1> QED BY <1>3, <1>4, <1>6

LEMMA CreateUpgradeKeeps ==
    ASSUME ExInv, NEW c \in ExCalls, CreateUpgrade(c) PROVE ExInv'
<1>1. exCall[c].pc = "propose" /\ UNCHANGED <<ext, contrib, loaded, behind, untidy>> /\ ~ExAt(c, "reread")
    BY DEF CreateUpgrade, ExAt
<1>2. exCall[c].op = "upgrade" /\ ext.status # "none" /\ exCall[c].version \in SomeVersion /\ exCall[c].to \in SomeVersion
    BY <1>1, PlacedAt DEF ExAllOps, Places, AtHook, ExRow
<1>3. PICK u \in Upgrades, o \in {"BLOCKED", "AWAITING_CONSENT", "PENDING"} :
          /\ upgrade[u].outcome = "none"
          /\ upgrade' = [upgrade EXCEPT ![u] = [outcome |-> o, from |-> exCall[c].version,
                                                to |-> exCall[c].to, applied |-> 0]]
          /\ \/ o = "PENDING" /\ ExSet(c, [exCall[c] EXCEPT !.u = u, !.pc = "unregister"])
             \/ ExGo(c, "done")
    <2> DEFINE Outcome(consent) == IF exCall[c].to <= exCall[c].version THEN "BLOCKED"
                                   ELSE IF exCall[c].to \in Breaking /\ ~consent THEN "AWAITING_CONSENT" ELSE "PENDING"
    <2>1. PICK u \in Upgrades, consent \in BOOLEAN :
              /\ upgrade[u].outcome = "none"
              /\ upgrade' = [upgrade EXCEPT ![u] = [outcome |-> Outcome(consent), from |-> exCall[c].version,
                                                    to |-> exCall[c].to, applied |-> 0]]
              /\ IF Outcome(consent) = "PENDING" THEN ExSet(c, [exCall[c] EXCEPT !.u = u, !.pc = "unregister"])
                 ELSE ExGo(c, "done")
        BY DEF CreateUpgrade
    <2>2. PICK o \in {"BLOCKED", "AWAITING_CONSENT", "PENDING"} : o = Outcome(consent)
        OBVIOUS
    <2> QED BY <2>1, <2>2
<1>4. PICK row \in UpgradeRow : row = [outcome |-> o, from |-> exCall[c].version, to |-> exCall[c].to, applied |-> 0]
    BY <1>2 DEF UpgradeRow
<1>5. row.outcome = o /\ row.applied = 0 /\ row.to = exCall[c].to
    BY <1>4
<1>6. /\ upgrade' \in [Upgrades -> UpgradeRow] /\ upgrade'[u] = row
      /\ \A x \in Upgrades \ {u} : upgrade'[x] = upgrade[x]
    BY <1>3, <1>4, ExTypes
<1>7. ExTypeOK'
    BY <1>1, <1>6 DEF ExInv, ExTypeOK, UpgradeRow, SomeVersion
<1>8. PICK r \in ExRow : /\ r = exCall'[c] /\ ExSet(c, r)
                         /\ \/ o = "PENDING" /\ r.pc = "unregister" /\ r.op = "upgrade" /\ r.u = u /\ r.to = exCall[c].to
                            \/ r.pc = "done" /\ r.op = "invoke"
    <2>1. CASE o = "PENDING" /\ ExSet(c, [exCall[c] EXCEPT !.u = u, !.pc = "unregister"])
        <3>1. PICK r \in ExRow : r = [exCall[c] EXCEPT !.u = u, !.pc = "unregister"]
            BY PlacedAt DEF ExRow, ExPcs
        <3>2. r.pc = "unregister" /\ r.op = "upgrade" /\ r.u = u /\ r.to = exCall[c].to
            BY <1>2, <3>1, PlacedAt DEF ExRow
        <3>3. ExSet(c, r)
            BY <2>1, <3>1
        <3> QED BY <2>1, <3>2, <3>3, ExOneCall
    <2>2. CASE ExGo(c, "done")
        BY <2>2, ExIsOver
    <2> QED BY <1>3, <2>1, <2>2
<1>9. ModuleFollowsRow'
    BY <1>1, <1>8, RowAndModulesKept DEF Present
<1>10. ASSUME ~untidy' PROVE Tidy'
    <2>1. Tidy /\ Underway(c) /\ (\A x \in ExCalls : Replacing(x) => x = c)
        BY <1>1, <1>2, <1>10, OneReplaces DEF Replacers
    <2>2. upgrade[u].applied = 0
        BY <1>3, <2>1 DEF Tidy, InOrder
    <2>3. AppliedOnes' = AppliedOnes
        BY <1>3, <1>5, <1>6 DEF AppliedOnes
    <2>4. u \notin AppliedOnes
        BY <1>3 DEF AppliedOnes
    <2>5. \A x \in Upgrades : /\ upgrade'[x].applied = upgrade[x].applied
                              /\ upgrade'[x].outcome \notin {"APPLIED", "ROLLED_BACK"} => upgrade[x].applied = 0
                              /\ x \in AppliedOnes => upgrade'[x].from = upgrade[x].from /\ upgrade'[x].to = upgrade[x].to
        BY <1>5, <1>6, <2>1, <2>2, <2>4 DEF Tidy, InOrder
    <2>6. InOrder' /\ Chained' /\ \A v : Tells(v)' <=> Tells(v)
        BY <2>1, <2>3, <2>5, ApplicationsKept
    <2>7. Present' /\ Agreed'
        BY <1>1, <1>2, <2>1, <2>6 DEF Underway, UpgradeUnderway, Agreed, Present
    <2>8. CASE o = "PENDING" /\ r.pc = "unregister" /\ r.op = "upgrade" /\ r.u = u /\ r.to = exCall[c].to
        <3>1. UpgradeUnderway(c)'
            BY <1>5, <1>6, <1>8, <2>7, <2>8 DEF UpgradeUnderway, Agreed, RowWritten, Registered, AtHook
        <3>2. Underway(c)'
            BY <1>8, <2>7, <2>8, <3>1 DEF Underway
        <3> QED BY <1>1, <1>8, <1>10, <2>1, <2>6, <2>8, <3>2, Continues DEF Replacers
    <2>9. CASE r.pc = "done" /\ r.op = "invoke"
        BY <1>1, <1>2, <1>8, <1>10, <2>6, <2>7, <2>9, Concludes DEF Replacers
    <2> QED BY <1>8, <2>8, <2>9
<1>11. r.pc \in Places(r.op) /\ (r.op \in {"upgrade", "rollback"} => r.u \in Upgrades) /\ ext'.status # "none"
    BY <1>1, <1>2, <1>8 DEF Places
<1> QED BY <1>7, <1>8, <1>9, <1>10, <1>11, ExAssembled

LEMMA UnregisterKeeps ==
    ASSUME ExInv, NEW c \in ExCalls, Unregister(c) PROVE ExInv'
<1>1. exCall[c].pc = "unregister" /\ UNCHANGED <<ext, upgrade, loaded, behind, untidy>> /\ ~ExAt(c, "reread")
          /\ contrib' = [version |-> NoVersion, enabled |-> FALSE]
    BY DEF Unregister, ExAt
<1>2. exCall[c].op \in {"uninstall", "upgrade", "rollback"} /\ ext.status # "none"
    BY <1>1, PlacedAt DEF ExAllOps, Places, AtHook
<1>3. PICK p \in {"unload", "row"} : ExGo(c, p) /\ p = IF exCall[c].op = "uninstall" THEN "unload" ELSE "row"
    BY DEF Unregister
<1>4. PICK r \in ExRow : /\ r = exCall'[c] /\ ExSet(c, r) /\ r.pc = p /\ r.op = exCall[c].op
                         /\ r.u = exCall[c].u /\ r.to = exCall[c].to
    BY <1>3, ExGoesOn DEF ExPcs
<1>5. ExTypeOK'
    BY <1>1 DEF ExInv, ExTypeOK
<1>6. ModuleFollowsRow'
    BY <1>1, <1>4, RowAndModulesKept DEF Present
<1>7. ASSUME ~untidy' PROVE Tidy'
    <2>1. Tidy /\ Underway(c) /\ \A x \in ExCalls : Replacing(x) => x = c
        BY <1>1, <1>2, <1>7, OneReplaces DEF Replacers
    <2>2. InOrder' /\ Chained'
        BY <1>1, <2>1, UpgradesKept
    <2>3. \A v : Tells(v)' <=> Tells(v)
        BY <1>1 DEF Tells, Latest, AppliedOnes, Later
    <2>4. Latest(exCall[c].u) => Latest(exCall[c].u)'
        BY <1>1, <1>4 DEF Latest, AppliedOnes, Later
    <2>8. Underway(c)'
        <3>1. CASE exCall[c].op = "uninstall"
            BY <1>1, <1>4, <2>1, <3>1 DEF Underway, Present
        <3>2. CASE exCall[c].op = "upgrade"
            <4>1. UpgradeUnderway(c)'
                BY <1>1, <1>3, <1>4, <2>1, <2>3, <3>2 DEF Underway, UpgradeUnderway, RowWritten, Registered, AtHook
            <4> QED BY <1>1, <1>4, <2>1, <3>2, <4>1 DEF Underway, Present
        <3>3. CASE exCall[c].op = "rollback"
            <4>1. RollbackUnderway(c)'
                BY <1>1, <1>3, <1>4, <2>1, <2>4, <3>3 DEF Underway, RollbackUnderway, RowWritten, Registered, AtHook
            <4> QED BY <1>1, <1>4, <2>1, <3>3, <4>1 DEF Underway, Present
        <3> QED BY <1>2, <3>1, <3>2, <3>3
    <2> QED BY <1>1, <1>2, <1>4, <1>7, <2>1, <2>2, <2>8, Continues DEF Replacers
<1>8. r.pc \in Places(r.op) /\ (r.op \in {"upgrade", "rollback"} => r.u \in Upgrades)
    BY <1>1, <1>2, <1>3, <1>4, PlacedAt DEF Places
<1> QED BY <1>1, <1>2, <1>4, <1>5, <1>6, <1>7, <1>8, ExAssembled

\* What the row of the version may look like after a statement that found it gone.
LEMMA FailsOrEnds ==
    ASSUME ExInv, NEW c \in ExCalls, exCall[c].pc \in {"row", "reread"}, ~Present,
           ExGo(c, IF exCall[c].op = "upgrade" THEN "failed" ELSE "done"),
           UNCHANGED <<ext, contrib, upgrade, loaded, behind, untidy>>
    PROVE  ExInv'
<1>1. exCall[c].op \in {"upgrade", "rollback"} /\ ext.status # "none" /\ exCall[c].u \in Upgrades
    BY PlacedAt DEF ExAllOps, Places, AtHook
<1>2. PICK r \in ExRow : /\ ExSet(c, r) /\ r.pc \in Places(r.op)
                         /\ r.op \in {"upgrade", "rollback"} => r.u \in Upgrades
    <2>1. CASE exCall[c].op = "upgrade"
        <3>1. ExGo(c, "failed") /\ "failed" \in ExPcs \ {"done"}
            BY <2>1 DEF ExPcs
        <3> QED BY <1>1, <2>1, <3>1, ExGoesOn DEF Places
    <2>2. CASE exCall[c].op = "rollback"
        <3>1. ExGo(c, "done")
            BY <2>2
        <3> QED BY <3>1, ExIsOver DEF Places
    <2> QED BY <1>1, <2>1, <2>2
<1>3. ExTypeOK' /\ ~Present'
    BY DEF ExInv, ExTypeOK, Present
<1>4. ModuleFollowsRow'
    BY <1>3 DEF ModuleFollowsRow
<1>5. untidy
    BY <1>1, OneReplaces DEF Replacers, Underway
<1> QED BY <1>1, <1>2, <1>3, <1>4, <1>5, ExAssembled

LEMMA WriteVersionKeeps ==
    ASSUME ExInv, NEW c \in ExCalls, WriteVersion(c) PROVE ExInv'
<1>1. exCall[c].pc = "row" /\ UNCHANGED <<contrib, upgrade, loaded>>
    BY DEF WriteVersion, ExAt
<1>2. exCall[c].op \in {"upgrade", "rollback"} /\ ext.status # "none" /\ exCall[c].to \in SomeVersion
      /\ exCall[c].on \in Hosts /\ exCall[c].u \in Upgrades
    BY <1>1, PlacedAt DEF ExAllOps, Places, AtHook, ExRow
<1>3. CASE /\ ~Present /\ UNCHANGED <<ext, behind, untidy>>
           /\ ExGo(c, IF exCall[c].op = "upgrade" THEN "failed" ELSE "done")
    BY <1>1, <1>3, FailsOrEnds
<1>4. CASE /\ Present /\ ext' = [ext EXCEPT !.version = exCall[c].to]
           /\ behind' = behind \union {i \in Hosts \ {exCall[c].on} : loaded[i] # NoModule}
           /\ untidy' = (untidy \/ (exCall[c].op = "upgrade" /\ upgrade[exCall[c].u].from # ext.version))
           /\ ExGo(c, "reread")
    <2>1. ext' \in ExtRow /\ ext'.version = exCall[c].to /\ ext'.status = ext.status
        BY <1>2, <1>4, ExTypes DEF ExtRow
    <2>2. Present' /\ ext'.status # "none"
        BY <1>2, <1>4, <2>1 DEF Present
    <2>3. PICK r \in ExRow : /\ r = exCall'[c] /\ ExSet(c, r) /\ r.pc = "reread" /\ r.op = exCall[c].op
                             /\ r.u = exCall[c].u /\ r.to = exCall[c].to /\ r.on = exCall[c].on
        BY <1>4, ExGoesOn DEF ExPcs
    <2>4. untidy' \in BOOLEAN /\ behind' \subseteq Hosts
        BY <1>4, ExTypes
    <2>5. ExTypeOK'
        BY <1>1, <2>1, <2>4 DEF ExInv, ExTypeOK, ExtRow, ExStatus, SomeVersion
    <2>6. ModuleFollowsRow'
        BY <1>1, <1>2, <1>4, <2>3 DEF ModuleFollowsRow, ExAt, NoModule
    <2>7. ASSUME ~untidy' PROVE Tidy'
        <3>1. ~untidy /\ (exCall[c].op = "upgrade" => upgrade[exCall[c].u].from = ext.version)
            BY <1>4, <2>7
        <3>2. Tidy /\ Underway(c) /\ \A x \in ExCalls : Replacing(x) => x = c
            BY <1>2, <3>1, OneReplaces DEF Replacers
        <3>3. InOrder' /\ Chained'
            BY <1>1, <3>2, UpgradesKept
        <3>4. PICK u \in Upgrades : u = exCall[c].u /\ r.u = u
            BY <1>2, <2>3
        <3>5. Tells(ext.version) => (Tells(upgrade[u].from)' \/ upgrade[u].from # ext.version)
            BY <1>1 DEF Tells, Latest, AppliedOnes, Later
        <3>6. Latest(u) => Latest(u)'
            BY <1>1 DEF Latest, AppliedOnes, Later
        <3>7. exCall[c].op = "upgrade" => UpgradeUnderway(c)'
            BY <1>1, <2>1, <2>3, <3>1, <3>2, <3>4, <3>5 DEF Underway, UpgradeUnderway, RowWritten, Registered, AtHook
        <3>8. exCall[c].op = "rollback" => RollbackUnderway(c)'
            BY <1>1, <2>1, <2>3, <3>2, <3>4, <3>6 DEF Underway, RollbackUnderway, RowWritten, Registered, AtHook
        <3>9. Underway(c)'
            BY <1>2, <2>2, <2>3, <3>7, <3>8 DEF Underway
        <3> QED BY <1>2, <2>3, <3>1, <3>2, <3>3, <3>9, Continues DEF Replacers
    <2>8. r.pc \in Places(r.op)
        BY <1>2, <2>3 DEF Places
    <2> QED BY <1>2, <2>2, <2>3, <2>5, <2>6, <2>7, <2>8, ExAssembled
<1> QED BY <1>3, <1>4 DEF WriteVersion

LEMMA RereadKeeps ==
    ASSUME ExInv, NEW c \in ExCalls, Reread(c) PROVE ExInv'
<1>1. exCall[c].pc = "reread" /\ UNCHANGED <<ext, contrib, upgrade, untidy>>
    BY DEF Reread, ExAt
<1>2. exCall[c].op \in {"upgrade", "rollback"} /\ ext.status # "none" /\ exCall[c].u \in Upgrades
    BY <1>1, PlacedAt DEF ExAllOps, Places, AtHook
<1>3. CASE /\ ~Present /\ UNCHANGED <<loaded, behind>>
           /\ ExGo(c, IF exCall[c].op = "upgrade" THEN "failed" ELSE "done")
    BY <1>1, <1>3, FailsOrEnds
<1>4. CASE /\ Present /\ loaded' = Dropped(c) /\ behind' = behind \ {exCall[c].on}
           /\ ExSet(c, [exCall[c] EXCEPT !.pc = "register", !.version = ext.version])
    <2>1. PICK r \in ExRow : r = [exCall[c] EXCEPT !.pc = "register", !.version = ext.version]
        BY PlacedAt, ExTypes DEF ExRow, ExPcs
    <2>2. ExSet(c, r) /\ r.pc = "register" /\ r.op = exCall[c].op /\ r.u = exCall[c].u /\ r.to = exCall[c].to
        BY <1>4, <2>1, PlacedAt DEF ExRow
    <2>3. exCall'[c] = r
        BY <2>2, ExOneCall
    <2>4. /\ loaded' \in [Hosts -> [version : SomeVersion, alive : BOOLEAN]]
          /\ behind' \subseteq Hosts /\ ModuleFollowsRow'
        BY <1>1, <1>4, <2>2, LetGo DEF Dropped
    <2>5. ExTypeOK' /\ Present'
        BY <1>1, <1>4, <2>4 DEF ExInv, ExTypeOK, SomeVersion, Present
    <2>6. ASSUME ~untidy' PROVE Tidy'
        <3>1. Tidy /\ Underway(c) /\ \A x \in ExCalls : Replacing(x) => x = c
            BY <1>1, <1>2, <2>6, OneReplaces DEF Replacers
        <3>2. InOrder' /\ Chained'
            BY <1>1, <3>1, UpgradesKept
        <3>3. PICK u \in Upgrades : u = exCall[c].u /\ r.u = u
            BY <1>2, <2>2
        <3>4. (Tells(upgrade[u].from) => Tells(upgrade[u].from)') /\ (Latest(u) => Latest(u)')
            BY <1>1 DEF Tells, Latest, AppliedOnes, Later
        <3>5. exCall[c].op = "upgrade" => UpgradeUnderway(c)'
            BY <1>1, <2>2, <2>3, <3>1, <3>3, <3>4 DEF Underway, UpgradeUnderway, RowWritten, Registered, AtHook
        <3>6. exCall[c].op = "rollback" => RollbackUnderway(c)'
            BY <1>1, <2>2, <2>3, <3>1, <3>3, <3>4 DEF Underway, RollbackUnderway, RowWritten, Registered, AtHook
        <3>7. Underway(c)'
            BY <1>2, <2>2, <2>3, <2>5, <3>5, <3>6 DEF Underway
        <3> QED BY <1>1, <1>2, <2>2, <2>6, <3>1, <3>2, <3>7, Continues DEF Replacers
    <2>7. r.pc \in Places(r.op) /\ ext'.status # "none"
        BY <1>1, <1>2, <2>2 DEF Places
    <2> QED BY <1>2, <2>2, <2>4, <2>5, <2>6, <2>7, ExAssembled
<1> QED BY <1>3, <1>4 DEF Reread

LEMMA RegisterKeeps ==
    ASSUME ExInv, NEW c \in ExCalls, Register(c) PROVE ExInv'
<1>1. exCall[c].pc = "register" /\ UNCHANGED <<ext, upgrade, loaded, behind, untidy>> /\ ~ExAt(c, "reread")
          /\ contrib' = [version |-> exCall[c].to, enabled |-> TRUE]
    BY DEF Register, ExAt
<1>2. exCall[c].op \in {"install", "upgrade", "rollback"} /\ ext.status # "none" /\ exCall[c].to \in SomeVersion
      /\ (exCall[c].op # "install" => exCall[c].u \in Upgrades)
    BY <1>1, PlacedAt DEF ExAllOps, Places, AtHook, ExRow
<1>3. ExTypeOK' /\ (Present' <=> Present) /\ contrib'.version = exCall[c].to
    BY <1>1, <1>2 DEF ExInv, ExTypeOK, SomeVersion, Present
<1>4. \A v : (Tells(v)' <=> Tells(v)) /\ \A u : (Latest(u)' <=> Latest(u))
    BY <1>1 DEF Tells, Latest, AppliedOnes, Later
<1>5. PICK r \in ExRow : r = exCall'[c] /\ ExSet(c, r)
          /\ \/ exCall[c].op = "install" /\ r.pc = "done" /\ r.op = "invoke"
             \/ exCall[c].op = "install" /\ r.pc = "load" /\ r.op = "initialize"
             \/ /\ r.op = exCall[c].op /\ r.u = exCall[c].u /\ r.to = exCall[c].to
                /\ \/ r.op = "upgrade" /\ r.pc \in {"load", "applied"}
                   \/ r.op = "rollback" /\ r.pc = "rolledBack"
    <2>1. CASE exCall[c].op = "install" /\ ExGo(c, "done")
        BY <2>1, ExIsOver
    <2>2. CASE exCall[c].op = "install" /\ ExSet(c, [exCall[c] EXCEPT !.op = "initialize", !.pc = "load"])
        <3>1. PICK r \in ExRow : r = [exCall[c] EXCEPT !.op = "initialize", !.pc = "load"]
            BY PlacedAt DEF ExRow, ExPcs, ExAllOps
        <3>2. ExSet(c, r) /\ r.pc = "load" /\ r.op = "initialize"
            BY <2>2, <3>1, PlacedAt DEF ExRow
        <3> QED BY <2>2, <3>2, ExOneCall
    <2>3. ASSUME NEW p \in {"load", "applied"}, exCall[c].op = "upgrade", ExGo(c, p)
          PROVE  \E r \in ExRow : /\ r = exCall'[c] /\ ExSet(c, r) /\ r.op = exCall[c].op /\ r.u = exCall[c].u
                                  /\ r.to = exCall[c].to /\ r.op = "upgrade" /\ r.pc \in {"load", "applied"}
        <3>1. p \in ExPcs \ {"done"}
            BY DEF ExPcs
        <3> QED BY <2>3, <3>1, ExGoesOn
    <2>4. CASE exCall[c].op = "upgrade" /\ ExGo(c, IF exCall[c].to \in Migrating THEN "load" ELSE "applied")
        BY <2>3, <2>4
    <2>5. CASE exCall[c].op = "rollback" /\ ExGo(c, "rolledBack")
        <3>1. "rolledBack" \in ExPcs \ {"done"}
            BY DEF ExPcs
        <3> QED BY <2>5, <3>1, ExGoesOn
    <2> QED BY <2>1, <2>2, <2>4, <2>5 DEF Register
<1>6. ModuleFollowsRow'
    BY <1>1, <1>3, <1>5, RowAndModulesKept
<1>7. ASSUME ~untidy' PROVE Tidy'
    <2>1. Tidy /\ Underway(c) /\ \A x \in ExCalls : Replacing(x) => x = c
        BY <1>1, <1>2, <1>7, OneReplaces DEF Replacers
    <2>2. InOrder' /\ Chained'
        BY <1>1, <2>1, UpgradesKept
    <2>3. CASE exCall[c].op = "install"
        <3>1. Agreed'
            BY <1>1, <1>3, <1>4, <2>1, <2>3 DEF Underway, InstallUnderway, Agreed
        <3> QED BY <1>1, <1>5, <1>7, <2>2, <2>3, <3>1, Concludes DEF Replacers
    <2>4. CASE exCall[c].op # "install"
        <3>1. exCall[c].op = "upgrade" => UpgradeUnderway(c)'
            BY <1>1, <1>3, <1>4, <1>5, <2>1, <2>4 DEF Underway, UpgradeUnderway, RowWritten, Registered, AtHook
        <3>2. exCall[c].op = "rollback" => RollbackUnderway(c)'
            BY <1>1, <1>3, <1>4, <1>5, <2>1, <2>4 DEF Underway, RollbackUnderway, RowWritten, Registered, AtHook
        <3>3. Underway(c)'
            BY <1>2, <1>3, <1>5, <2>1, <2>4, <3>1, <3>2 DEF Underway
        <3> QED BY <1>1, <1>2, <1>5, <1>7, <2>1, <2>2, <2>4, <3>3, Continues DEF Replacers
    <2> QED BY <2>3, <2>4
<1>8. r.pc \in Places(r.op) /\ (r.op \in {"upgrade", "rollback"} => r.u \in Upgrades) /\ ext'.status # "none"
    BY <1>1, <1>2, <1>5 DEF Places, AtHook
<1> QED BY <1>3, <1>5, <1>6, <1>7, <1>8, ExAssembled
-----------------------------------------------------------------------------
(* Upgrades and rollbacks settle                                            *)

LEMMA Counted ==
    ASSUME ExInv
    PROVE  LastApplied \in Nat /\ IsFiniteSet({x \in Upgrades : upgrade[x].applied > 0})
<1>1. IsFiniteSet(Upgrades)
    BY ExtensionsAssumption, FS_Interval DEF Upgrades
<1>2. IsFiniteSet({x \in Upgrades : upgrade[x].applied > 0})
    BY <1>1, FS_Subset
<1> QED BY <1>2, FS_CardinalityType DEF LastApplied

\* An upgrade is applied after all that were applied before it.
LEMMA AppliedLast ==
    ASSUME ExInv, Tidy, NEW u \in Upgrades, upgrade[u].outcome \in {"PENDING", "AWAITING_CONSENT"},
           upgrade' \in [Upgrades -> UpgradeRow], \A x \in Upgrades \ {u} : upgrade'[x] = upgrade[x],
           upgrade'[u].outcome = "APPLIED", upgrade'[u].applied = LastApplied + 1,
           upgrade'[u].from = upgrade[u].from, upgrade'[u].to = upgrade[u].to, Tells(upgrade[u].from)
    PROVE  InOrder' /\ Chained' /\ Tells(upgrade[u].to)'
<1>1. LastApplied \in Nat /\ IsFiniteSet({x \in Upgrades : upgrade[x].applied > 0})
    BY Counted
<1>2. upgrade[u].applied = 0 /\ \A x \in Upgrades : upgrade[x].applied \in Nat /\ upgrade[x].applied <= LastApplied
    BY ExTypes DEF Tidy, InOrder, UpgradeRow
<1>3. LastApplied' = LastApplied + 1
    <2>1. {x \in Upgrades : upgrade[x].applied > 0}' = {x \in Upgrades : upgrade[x].applied > 0} \union {u}
        BY <1>1
    <2>2. u \notin {x \in Upgrades : upgrade[x].applied > 0}
        BY <1>2
    <2> QED BY <1>1, <2>1, <2>2, FS_AddElement DEF LastApplied
<1>4. AppliedOnes' = AppliedOnes \union {u} /\ u \notin AppliedOnes /\ AppliedOnes \subseteq Upgrades
    BY DEF AppliedOnes
<1>5. \A x \in AppliedOnes : Later(u, x)' /\ ~Later(x, u)'
    BY <1>1, <1>2, <1>4 DEF Later
<1>6. \A x, y \in AppliedOnes : Later(x, y)' <=> Later(x, y)
    BY <1>4 DEF Later
<1>7. InOrder'
    <2>1. \A x \in Upgrades : /\ upgrade'[x].applied <= LastApplied'
                              /\ upgrade'[x].outcome \notin {"APPLIED", "ROLLED_BACK"} => upgrade'[x].applied = 0
        <3> SUFFICES ASSUME NEW x \in Upgrades
                     PROVE  /\ upgrade'[x].applied <= LastApplied'
                            /\ upgrade'[x].outcome \notin {"APPLIED", "ROLLED_BACK"} => upgrade'[x].applied = 0
            OBVIOUS
        <3>1. CASE x = u
            BY <1>1, <1>3, <3>1
        <3>2. CASE x # u
            BY <1>1, <1>2, <1>3, <3>2 DEF Tidy, InOrder
        <3> QED BY <3>1, <3>2
    <2>2. ASSUME NEW x \in AppliedOnes', NEW y \in AppliedOnes', upgrade'[x].applied = upgrade'[y].applied
          PROVE  x = y
        <3>1. CASE x \in AppliedOnes /\ y \in AppliedOnes
            BY <1>4, <2>2, <3>1 DEF Tidy, InOrder
        <3>2. CASE x = u \/ y = u
            BY <1>1, <1>2, <1>4, <2>2, <3>2
        <3> QED BY <1>4, <3>1, <3>2
    <2> QED BY <2>1, <2>2 DEF InOrder
<1>8. Chained'
    <2> SUFFICES ASSUME NEW x \in AppliedOnes', NEW y \in AppliedOnes', x # y, Later(x, y)',
                        \A z \in AppliedOnes' : Later(y, z)' \/ Later(z, x)'
                 PROVE  upgrade'[x].from = upgrade'[y].to
        BY DEF Chained
    <2>1. y \in AppliedOnes
        BY <1>4, <1>5
    <2>2. CASE x = u
        <3>1. Latest(y)
            BY <1>4, <1>5, <1>6, <2>1, <2>2 DEF Latest
        <3> QED BY <1>4, <2>1, <2>2, <3>1 DEF Tells
    <2>3. CASE x # u
        <3>1. x \in AppliedOnes
            BY <1>4, <2>3
        <3>2. Later(x, y) /\ \A z \in AppliedOnes : Later(y, z) \/ Later(z, x)
            BY <1>4, <1>6, <2>1, <3>1
        <3> QED BY <1>4, <2>1, <3>1, <3>2 DEF Tidy, Chained
    <2> QED BY <2>2, <2>3
<1>9. Tells(upgrade[u].to)'
    <2>1. \A x \in Upgrades : Latest(x)' => x = u
        BY <1>4, <1>5 DEF Latest
    <2> QED BY <2>1 DEF Tells
<1> QED BY <1>7, <1>8, <1>9

\* When the latest is undone, the one before it is the latest.
LEMMA UndoneLatest ==
    ASSUME ExInv, Tidy, NEW u \in Upgrades, Latest(u),
           upgrade' \in [Upgrades -> UpgradeRow], \A x \in Upgrades \ {u} : upgrade'[x] = upgrade[x],
           upgrade'[u].outcome = "ROLLED_BACK", upgrade'[u].applied = upgrade[u].applied,
           upgrade'[u].from = upgrade[u].from
    PROVE  InOrder' /\ Chained' /\ Tells(upgrade[u].from)'
<1>1. AppliedOnes' = AppliedOnes \ {u} /\ u \in AppliedOnes /\ AppliedOnes \subseteq Upgrades
    BY DEF AppliedOnes, Latest
<1>2. \A x \in Upgrades : upgrade'[x].applied = upgrade[x].applied /\ upgrade[x].applied \in Nat
    BY ExTypes DEF UpgradeRow
<1>3. LastApplied' = LastApplied
    BY <1>2 DEF LastApplied
<1>4. \A x, y \in Upgrades : Later(x, y)' <=> Later(x, y)
    BY <1>2 DEF Later
<1>5. InOrder'
    BY <1>1, <1>2, <1>3 DEF Tidy, InOrder
<1>6. Chained'
    <2> SUFFICES ASSUME NEW x \in AppliedOnes', NEW y \in AppliedOnes', x # y, Later(x, y)',
                        \A z \in AppliedOnes' : Later(y, z)' \/ Later(z, x)'
                 PROVE  upgrade'[x].from = upgrade'[y].to
        BY DEF Chained
    <2>1. Later(u, x)
        BY <1>1 DEF Latest
    <2>2. \A z \in AppliedOnes : Later(y, z) \/ Later(z, x)
        BY <1>1, <1>4, <2>1
    <2> QED BY <1>1, <1>4, <2>2 DEF Tidy, Chained
<1>7. ASSUME NEW x \in Upgrades, Latest(x)' PROVE upgrade'[x].to = upgrade[u].from
    <2>1. x \in AppliedOnes /\ x # u /\ Later(u, x)
        BY <1>1, <1>7 DEF Latest
    <2>2. \A z \in AppliedOnes \ {u} : Later(x, z)
        BY <1>1, <1>4, <1>7 DEF Latest
    <2>3. Later(u, u)
        BY <1>2 DEF Later
    <2>4. upgrade[u].from = upgrade[x].to
        BY <1>1, <2>1, <2>2, <2>3 DEF Tidy, Chained
    <2> QED BY <1>1, <2>1, <2>4
<1> QED BY <1>5, <1>6, <1>7 DEF Tells

LEMMA ExSettleKeeps ==
    ASSUME ExInv, NEW c \in ExCalls, Settle(c) PROVE ExInv'
<1>1. exCall[c].pc \in {"applied", "rolledBack", "failed"} /\ UNCHANGED <<ext, contrib, loaded, behind>> /\ ~ExAt(c, "reread")
    BY DEF Settle, ExAt
<1>2. PICK u \in Upgrades : u = exCall[c].u /\ upgrade[u] \in UpgradeRow /\ ext.status # "none"
    BY <1>1, PlacedAt, ExTypes DEF ExAllOps, Places, AtHook
<1>3. Present' <=> Present
    BY <1>1 DEF Present
<1>4. CASE exCall[c].pc = "applied" /\ UNCHANGED untidy /\ ExGo(c, "done")
           /\ upgrade' = [upgrade EXCEPT ![u] = [upgrade[u] EXCEPT !.outcome = "APPLIED", !.applied = LastApplied + 1]]
    <2>1. PICK n \in Nat : n = LastApplied + 1
        BY Counted
    <2>2. PICK row \in UpgradeRow : row = [upgrade[u] EXCEPT !.outcome = "APPLIED", !.applied = n]
        BY <1>2 DEF UpgradeRow
    <2>3. row.outcome = "APPLIED" /\ row.applied = n /\ row.from = upgrade[u].from /\ row.to = upgrade[u].to
        BY <1>2, <2>2 DEF UpgradeRow
    <2>4. upgrade' = [upgrade EXCEPT ![u] = row]
        BY <1>4, <2>1, <2>2
    <2>5. /\ upgrade' \in [Upgrades -> UpgradeRow] /\ upgrade'[u] = row
          /\ \A x \in Upgrades \ {u} : upgrade'[x] = upgrade[x]
        BY <2>4, ExTypes
    <2>6. PICK r \in ExRow : ExSet(c, r) /\ r.pc = "done" /\ r.op = "invoke"
        BY <1>4, ExIsOver
    <2>7. exCall[c].op = "upgrade"
        BY <1>4, PlacedAt DEF ExAllOps, Places, AtHook
    <2>8. ASSUME ~untidy' PROVE Tidy'
        <3>1. Tidy /\ Underway(c)
            BY <1>4, <2>7, <2>8, OneReplaces DEF Replacers
        <3>2. /\ upgrade[u].outcome \in {"PENDING", "AWAITING_CONSENT"} /\ Tells(upgrade[u].from)
              /\ ext.version = upgrade[u].to /\ contrib.version = ext.version
            BY <1>2, <1>4, <2>7, <3>1 DEF Underway, UpgradeUnderway, RowWritten, Registered
        <3>3. InOrder' /\ Chained' /\ Tells(upgrade[u].to)'
            BY <2>1, <2>3, <2>5, <3>1, <3>2, AppliedLast
        <3>4. Agreed'
            BY <1>1, <2>3, <2>5, <3>2, <3>3 DEF Agreed, Tells, Latest, AppliedOnes, Later
        <3> QED BY <1>4, <2>6, <2>7, <2>8, <3>3, <3>4, Concludes DEF Replacers
    <2>9. ExTypeOK'
        BY <1>1, <1>4, <2>5 DEF ExInv, ExTypeOK, UpgradeRow, SomeVersion
    <2>10. ModuleFollowsRow'
        BY <1>1, <1>3, <2>6, RowAndModulesKept
    <2> QED BY <1>1, <1>2, <2>6, <2>8, <2>9, <2>10, ExAssembled DEF Places
<1>5. CASE exCall[c].pc = "rolledBack" /\ UNCHANGED untidy /\ ExGo(c, "done")
           /\ upgrade' = [upgrade EXCEPT ![u].outcome = Undone]
    <2>1. PICK row \in UpgradeRow : row = [upgrade[u] EXCEPT !.outcome = "ROLLED_BACK"]
        BY <1>2 DEF UpgradeRow
    <2>2. row.outcome = "ROLLED_BACK" /\ row.applied = upgrade[u].applied /\ row.from = upgrade[u].from
        BY <1>2, <2>1 DEF UpgradeRow
    <2>3. upgrade' = [upgrade EXCEPT ![u] = row]
        BY <1>5, <2>1 DEF Undone
    <2>4. /\ upgrade' \in [Upgrades -> UpgradeRow] /\ upgrade'[u] = row
          /\ \A x \in Upgrades \ {u} : upgrade'[x] = upgrade[x]
        BY <2>3, ExTypes
    <2>5. PICK r \in ExRow : ExSet(c, r) /\ r.pc = "done" /\ r.op = "invoke"
        BY <1>5, ExIsOver
    <2>6. exCall[c].op = "rollback"
        BY <1>5, PlacedAt DEF ExAllOps, Places, AtHook
    <2>7. ASSUME ~untidy' PROVE Tidy'
        <3>1. Tidy /\ Underway(c)
            BY <1>5, <2>6, <2>7, OneReplaces DEF Replacers
        <3>2. Latest(u) /\ ext.version = upgrade[u].from /\ contrib.version = ext.version
            BY <1>2, <1>5, <2>6, <3>1 DEF Underway, RollbackUnderway, RowWritten, Registered
        <3>3. InOrder' /\ Chained' /\ Tells(upgrade[u].from)'
            BY <2>2, <2>4, <3>1, <3>2, UndoneLatest
        <3>4. Agreed'
            BY <1>1, <2>2, <2>4, <3>2, <3>3 DEF Agreed, Tells, Latest, AppliedOnes, Later
        <3> QED BY <1>5, <2>5, <2>6, <2>7, <3>3, <3>4, Concludes DEF Replacers
    <2>8. ExTypeOK'
        BY <1>1, <1>5, <2>4 DEF ExInv, ExTypeOK, UpgradeRow, SomeVersion
    <2>9. ModuleFollowsRow'
        BY <1>1, <1>3, <2>5, RowAndModulesKept
    <2> QED BY <1>1, <1>2, <2>5, <2>7, <2>8, <2>9, ExAssembled DEF Places
<1>6. CASE exCall[c].pc = "failed" /\ untidy' = TRUE /\ ExGo(c, "status")
           /\ upgrade' = [upgrade EXCEPT ![u].outcome = "FAILED"]
    <2>1. PICK row \in UpgradeRow : row = [upgrade[u] EXCEPT !.outcome = "FAILED"]
        BY <1>2 DEF UpgradeRow
    <2>2. upgrade' = [upgrade EXCEPT ![u] = row]
        BY <1>6, <2>1
    <2>3. ExTypeOK'
        BY <1>1, <1>6, <2>2, ExTypes DEF ExInv, ExTypeOK, UpgradeRow, SomeVersion
    <2>4. exCall[c].op = "upgrade"
        BY <1>6, PlacedAt DEF ExAllOps, Places, AtHook
    <2>5. PICK r \in ExRow : ExSet(c, r) /\ r.pc = "status" /\ r.op = "upgrade" /\ r.u = exCall[c].u
        BY <1>6, <2>4, ExGoesOn DEF ExPcs
    <2>6. ModuleFollowsRow'
        BY <1>1, <1>3, <2>5, RowAndModulesKept
    <2> QED BY <1>1, <1>2, <1>6, <2>3, <2>5, <2>6, ExAssembled DEF Places
<1> QED BY <1>1, <1>2, <1>4, <1>5, <1>6 DEF Settle, ExAt

-----------------------------------------------------------------------------
(* The end of an uninstallation; the whole                                  *)

LEMMA UnloadKeeps ==
    ASSUME ExInv, NEW c \in ExCalls, Unload(c) PROVE ExInv'
<1>1. exCall[c].pc = "unload" /\ UNCHANGED <<ext, contrib, upgrade, untidy>> /\ ExGo(c, "remove")
          /\ loaded' = [loaded EXCEPT ![exCall[c].on] = NoModule] /\ behind' = behind \ {exCall[c].on}
    BY DEF Unload, ExAt
<1>2. exCall[c].op = "uninstall" /\ ext.status # "none"
    BY <1>1, PlacedAt DEF ExAllOps, Places, AtHook
<1>3. PICK r \in ExRow : r = exCall'[c] /\ ExSet(c, r) /\ r.pc = "remove" /\ r.op = "uninstall"
    BY <1>1, <1>2, ExGoesOn DEF ExPcs
<1>4. /\ loaded' \in [Hosts -> [version : SomeVersion, alive : BOOLEAN]]
      /\ behind' \subseteq Hosts /\ ModuleFollowsRow'
    BY <1>1, <1>3, LetGo
<1>5. ExTypeOK'
    BY <1>1, <1>4 DEF ExInv, ExTypeOK, SomeVersion
<1>6. ASSUME ~untidy' PROVE Tidy'
    <2>1. Tidy /\ Underway(c) /\ \A x \in ExCalls : Replacing(x) => x = c
        BY <1>1, <1>2, <1>6, OneReplaces DEF Replacers
    <2>2. InOrder' /\ Chained'
        BY <1>1, <2>1, UpgradesKept
    <2>3. Underway(c)'
        BY <1>1, <1>3, <2>1 DEF Underway, Present
    <2> QED BY <1>1, <1>3, <1>6, <2>1, <2>2, <2>3, Continues DEF Replacers
<1> QED BY <1>1, <1>2, <1>3, <1>4, <1>5, <1>6, ExAssembled DEF Places

LEMMA RemoveKeeps ==
    ASSUME ExInv, NEW c \in ExCalls, Remove(c) PROVE ExInv'
<1>1. exCall[c].pc = "remove" /\ UNCHANGED <<contrib, upgrade, loaded, behind, untidy>> /\ ExGo(c, "done")
          /\ ext' = [ext EXCEPT !.status = "removed"]
    BY DEF Remove, ExAt
<1>2. exCall[c].op = "uninstall"
    BY <1>1, PlacedAt DEF ExAllOps, Places, AtHook
<1>3. PICK r \in ExRow : ExSet(c, r) /\ r.pc = "done" /\ r.op = "invoke"
    BY <1>1, ExIsOver
<1>4. ext' \in ExtRow /\ ext'.status = "removed" /\ ~Present'
    BY <1>1, ExTypes DEF ExtRow, ExStatus, Present
<1>5. ExTypeOK'
    BY <1>1, <1>4 DEF ExInv, ExTypeOK, ExtRow, ExStatus, SomeVersion
<1>6. ModuleFollowsRow'
    BY <1>4 DEF ModuleFollowsRow
<1>7. ASSUME ~untidy' PROVE Tidy'
    <2>1. Tidy
        BY <1>1, <1>7 DEF ExInv
    <2>2. InOrder' /\ Chained'
        BY <1>1, <2>1, UpgradesKept
    <2> QED BY <1>1, <1>2, <1>3, <1>4, <1>7, <2>2, Concludes DEF Replacers
<1> QED BY <1>3, <1>4, <1>5, <1>6, <1>7, ExAssembled DEF Places

LEMMA ExInvInit == ExInit => ExInv
<1> SUFFICES ASSUME ExInit PROVE ExInv
    OBVIOUS
<1>1. NoExCall \in ExRow /\ NoExCall.pc = "idle" /\ NoExCall.op = "invoke"
    <2>1. (CHOOSE i \in Hosts : TRUE) \in Hosts
        BY ExtensionsAssumption
    <2> QED BY <2>1 DEF NoExCall, ExRow, ExPcs, ExAllOps, ExStatus, SomeVersion
<1>2. exCall \in [ExCalls -> ExRow] /\ \A c \in ExCalls : exCall[c].pc = "idle" /\ exCall[c].op = "invoke"
    BY <1>1 DEF ExInit
<1>3. ExTypeOK
    BY DEF ExInit, ExTypeOK, NoModule
<1>4. InPlace
    BY <1>2 DEF InPlace, Places
<1>5. NothingBefore /\ ModuleFollowsRow
    BY <1>2 DEF ExInit, NothingBefore, ModuleFollowsRow, ExAt, Present, NoModule
<1>6. Tidy
    <2>1. \A c \in ExCalls : ~Replacing(c)
        BY <1>2 DEF Replacing, ExAt
    <2>2. AppliedOnes = {} /\ \A u \in Upgrades : upgrade[u].applied = 0
        BY DEF ExInit, AppliedOnes
    <2>3. {u \in Upgrades : upgrade[u].applied > 0} = {}
        BY <2>2
    <2>4. LastApplied = 0
        BY <2>3, FS_EmptySet DEF LastApplied
    <2>5. InOrder /\ Chained
        BY <2>2, <2>4 DEF InOrder, Chained
    <2>6. ~Present
        BY DEF ExInit, Present
    <2> QED BY <2>1, <2>5, <2>6 DEF Tidy
<1> QED BY <1>2, <1>3, <1>4, <1>5, <1>6 DEF ExInv

LEMMA ExInvStep == ExInv /\ [ExNext]_exVars => ExInv'
<1> SUFFICES ASSUME ExInv, [ExNext]_exVars PROVE ExInv'
    OBVIOUS
<1>1. CASE ExNext
    BY <1>1, InstallKeeps, RequestsKeep, StopExtensionKeeps, ProposeUpgradeKeeps, ConsentToUpgradeKeeps, RollbackKeeps,
       ModuleForKeeps, LoadEndsKeeps, HookKeeps, WriteStatusKeeps, WriteFlagsKeeps, CreateUpgradeKeeps, UnregisterKeeps,
       WriteVersionKeeps, RereadKeeps, RegisterKeeps, ExSettleKeeps, UnloadKeeps, RemoveKeeps, ThreadEndsKeeps DEF ExNext
<1>2. CASE UNCHANGED exVars
    <2>1. ExTypeOK' /\ InPlace' /\ NothingBefore' /\ exCall' \in [ExCalls -> ExRow]
        BY <1>2, ExTypes DEF exVars, ExInv, ExTypeOK, InPlace, NothingBefore, ExAt
    <2>2. ModuleFollowsRow'
        BY <1>2 DEF exVars, ExInv, ModuleFollowsRow, Present, ExAt, NoModule
    <2>3. ~untidy' => Tidy'
        BY <1>2, TidyKept DEF exVars, ExInv
    <2> QED BY <2>1, <2>2, <2>3 DEF ExInv
<1> QED BY <1>1, <1>2

\* The joint invariant of an extension's life, for any number of instances,
\* versions, upgrades and overlapping calls.
THEOREM ExtensionsHold == ExSpec => []ExInv
BY ExInvInit, ExInvStep, PTL DEF ExSpec

\* The row, contributions, upgrades and modules are of their types.
THEOREM ExTypeCorrect == ExSpec => []ExTypeOK
<1>1. ExInv => ExTypeOK
    BY DEF ExInv
<1> QED BY <1>1, ExtensionsHold, PTL

\* The module an instance keeps is of the row's version, unless the version was
\* changed from elsewhere or is being changed.
THEOREM ModulesFollowRows == ExSpec => []ModuleFollowsRow
<1>1. ExInv => ModuleFollowsRow
    BY DEF ExInv
<1> QED BY <1>1, ExtensionsHold, PTL

\* Every set of numbers up to a bound has a greatest one.
LEMMA GreatestIn ==
    ASSUME NEW n \in Nat, NEW T \in SUBSET (0 .. n), T # {}
    PROVE  \E m \in T : \A k \in T : k <= m
<1> DEFINE up == {k .. n : k \in T}
<1>1. IsFiniteSet(0 .. n)
    BY FS_Interval
<1>2. IsWellFoundedOn(StrictSubsetOrdering(0 .. n), FiniteSubsetsOf(0 .. n))
    BY FS_StrictSubsetOrderingWellFounded
<1>3. up \subseteq FiniteSubsetsOf(0 .. n) /\ up # {}
    <2>1. FiniteSubsetsOf(0 .. n) = SUBSET (0 .. n)
        BY <1>1, FS_FiniteSubsetsOfFinite
    <2>2. \A k \in T : k .. n \in SUBSET (0 .. n)
        OBVIOUS
    <2>3. \E k \in T : k .. n \in up
        OBVIOUS
    <2> HIDE DEF up
    <2>4. up # {}
        BY <2>3
    <2>5. up \subseteq SUBSET (0 .. n)
        BY <2>2 DEF up
    <2> QED BY <2>1, <2>4, <2>5
<1> HIDE DEF up
<1>4. PICK d \in up : \A e \in up : <<e, d>> \notin StrictSubsetOrdering(0 .. n)
    BY <1>2, <1>3, WFMin
<1>5. PICK m \in T : d = m .. n
    BY DEF up
<1>6. ASSUME NEW k \in T, m < k PROVE FALSE
    <2>1. k .. n \in up
        BY DEF up
    <2>2. k .. n \subseteq m .. n /\ m \in m .. n /\ m \notin k .. n
        BY <1>6
    <2>3. k .. n \subseteq 0 .. n /\ m .. n \subseteq 0 .. n
        OBVIOUS
    <2> QED BY <1>4, <1>5, <2>1, <2>2, <2>3 DEF StrictSubsetOrdering
<1> QED BY <1>6

\* What was applied last, if anything was.
LEMMA SomeLatest ==
    ASSUME ExInv, InOrder, AppliedOnes # {}
    PROVE  \E u \in AppliedOnes : Latest(u)
<1> DEFINE T == {upgrade[u].applied : u \in AppliedOnes}
<1>1. LastApplied \in Nat
    BY Counted
<1>2. \A u \in AppliedOnes : upgrade[u].applied \in 0 .. LastApplied
    BY <1>1, ExTypes DEF InOrder, AppliedOnes, UpgradeRow
<1>3. T \in SUBSET (0 .. LastApplied) /\ T # {}
    BY <1>2
<1>4. PICK m \in T : \A k \in T : k <= m
    BY <1>1, <1>3, GreatestIn
<1>5. PICK u \in AppliedOnes : upgrade[u].applied = m
    OBVIOUS
<1>6. \A x \in AppliedOnes : upgrade[x].applied \in T
    OBVIOUS
<1> QED BY <1>4, <1>5, <1>6 DEF Latest, Later

\* The row, the contributions and the upgrades tell of one version.
THEOREM OneVersionTold == ExSpec => []OneVersion
<1>1. ExInv => OneVersion
    <2> SUFFICES ASSUME ExInv, Present, ~untidy, \A c \in ExCalls : ~Replacing(c)
                 PROVE  contrib.version = ext.version /\ Told \in {ext.version, NoVersion}
        BY DEF OneVersion
    <2>1. Agreed /\ InOrder
        BY DEF ExInv, Tidy
    <2>2. CASE AppliedOnes = {}
        BY <2>1, <2>2 DEF Agreed, Told, AppliedOnes
    <2>3. CASE AppliedOnes # {}
        <3> DEFINE last == CHOOSE u \in AppliedOnes : \A x \in AppliedOnes : upgrade[x].applied <= upgrade[u].applied
        <3>1. \E u \in AppliedOnes : \A x \in AppliedOnes : upgrade[x].applied <= upgrade[u].applied
            BY <2>1, <2>3, SomeLatest DEF Latest, Later
        <3>2. last \in AppliedOnes /\ \A x \in AppliedOnes : upgrade[x].applied <= upgrade[last].applied
            BY <3>1
        <3>3. Told = upgrade[last].to
            BY <2>3 DEF Told, AppliedOnes
        <3> HIDE DEF last
        <3>4. Latest(last) /\ last \in Upgrades
            BY <3>2 DEF Latest, Later, AppliedOnes
        <3> QED BY <2>1, <3>3, <3>4 DEF Agreed, Tells
    <2> QED BY <2>2, <2>3
<1> QED BY <1>1, ExtensionsHold, PTL

-----------------------------------------------------------------------------
(* Billing.                                                                *)

SubRow == [status : {"none", "TRIALING", "ACTIVE", "CANCELLED"}, period : Periods, ended : BOOLEAN, cancel : BOOLEAN]
InvoiceRow == [org : Tenancies, number : Nat, period : Periods, renewal : BOOLEAN, cancelled : BOOLEAN]
BlPcs == {"idle", "write", "count", "create", "next", "end", "advance", "done"}
BlRow == [pc : BlPcs, op : {"renew", "subscribe", "cancel", "invoice"}, due : SUBSET (Tenancies \X SubRow),
          org : Tenancies, row : SubRow, number : Nat]
BlPlaces(op) ==
    IF op = "renew" THEN BlPcs \ {"write"}
    ELSE IF op = "invoice" THEN {"count", "create", "done"} ELSE {"write", "done"}
BlTyped ==
    /\ sub \in [Tenancies -> SubRow] /\ blCall \in [BlCalls -> BlRow]
    /\ invoice \in SUBSET InvoiceRow /\ IsFiniteSet(invoice)
    /\ muddled \in SUBSET Tenancies /\ crossed \in SUBSET Tenancies
BlInPlace ==
    /\ \A c \in BlCalls : blCall[c].pc \in BlPlaces(blCall[c].op)
    /\ \A g \in Tenancies : sub[g].status = "none" => sub[g].period = 1

\* What a sweep read and has still to renew or to end.
Judging(c) == Sweeping(c) /\ blCall[c].pc \in {"end", "count", "create"}
Hands(c)   == blCall[c].due \union {p \in {<<blCall[c].org, blCall[c].row>>} : Judging(c)}

\* An organization is in the hands of one sweep, once, unless that was noted.
InOneHand ==
    /\ \A c, x \in BlCalls : c # x /\ Sweeping(c) /\ Sweeping(x) =>
          \A g \in SweptBy(c) \intersect SweptBy(x) : g \in muddled
    /\ \A c \in BlCalls : Sweeping(c) =>
          /\ \A p, q \in blCall[c].due : p[1] = q[1] => p = q
          /\ ~BlAt(c, "next") => \A p \in blCall[c].due : p[1] # blCall[c].org

\* A row read is not ahead of the present one, tells its cancellation unless
\* a request came between, and its period was not renewed yet.
TrueRow(p) ==
    /\ p[2].period <= sub[p[1]].period
    /\ p[1] \notin crossed => p[2].cancel = sub[p[1]].cancel
    /\ p[1] \notin muddled => \A x \in invoice : x.renewal /\ x.org = p[1] => x.period # p[2].period
RowsHeld ==
    \A c \in BlCalls : Sweeping(c) =>
        /\ \A p \in Hands(c) : TrueRow(p)
        /\ BlAt(c, "end") => Ends(blCall[c].row)
        /\ blCall[c].pc \in {"count", "create"} => ~Ends(blCall[c].row)

\* A period that was renewed is over, or is being ended by who renewed it.
Advancing(g) == \E c \in BlCalls : Sweeping(c) /\ BlAt(c, "advance") /\ blCall[c].org = g
RenewedIsOver ==
    \A x \in invoice : x.renewal =>
        /\ x.period <= sub[x.org].period
        /\ x.org \notin muddled /\ x.period = sub[x.org].period => Advancing(x.org)

BlInv == BlTyped /\ BlInPlace /\ InOneHand /\ RowsHeld /\ RenewedIsOver /\ BilledAsAgreed
-----------------------------------------------------------------------------
LEMMA BlOneCall ==
    ASSUME BlTyped, NEW c \in BlCalls, NEW r \in BlRow, BlSet(c, r)
    PROVE  /\ blCall' \in [BlCalls -> BlRow] /\ blCall'[c] = r
           /\ \A x \in BlCalls \ {c} : blCall'[x] = blCall[x]
BY DEF BlTyped, BlSet

LEMMA BlCallRow ==
    ASSUME BlInv, NEW c \in BlCalls
    PROVE  /\ blCall[c] \in BlRow /\ blCall[c].org \in Tenancies /\ blCall[c].row \in SubRow
           /\ blCall[c].due \in SUBSET (Tenancies \X SubRow) /\ blCall[c].number \in Nat
           /\ blCall[c].op \in {"renew", "subscribe", "cancel", "invoice"}
           /\ blCall[c].pc \in BlPlaces(blCall[c].op)
BY DEF BlInv, BlTyped, BlRow, BlInPlace

LEMMA SubRowAt ==
    ASSUME BlInv, NEW g \in Tenancies
    PROVE  /\ sub[g] \in SubRow /\ sub[g].period \in Nat /\ 1 <= sub[g].period
           /\ sub[g].status = "none" => sub[g].period = 1
           /\ sub[g].status = "CANCELLED" => sub[g].cancel \/ g \in crossed
BY DEF BlInv, BlTyped, BlInPlace, BilledAsAgreed, SubRow, Periods

LEMMA BlGoesOn ==
    ASSUME BlInv, NEW c \in BlCalls, NEW p \in BlPcs \ {"done"}, BlGo(c, p)
    PROVE  LET m == blCall[c]  n == blCall'[c] IN
           n \in BlRow /\ BlSet(c, n) /\ n.pc = p /\ n.op = m.op /\ n.due = m.due /\ n.org = m.org /\ n.row = m.row
<1>1. PICK r \in BlRow : r = [blCall[c] EXCEPT !.pc = p]
    BY BlCallRow DEF BlRow
<1>2. BlSet(c, r)
    BY <1>1 DEF BlGo
<1>3. blCall'[c] = r
    BY <1>2, BlOneCall DEF BlInv
<1> QED BY <1>1, <1>2, <1>3, BlCallRow DEF BlRow

LEMMA NobodyInHand == NoBlCall \in BlRow /\ NoBlCall.pc = "idle" /\ NoBlCall.due = {} /\ NoSub \in SubRow
<1>1. (CHOOSE g \in Tenancies : TRUE) \in Tenancies
    BY BillingAssumption
<1>2. NoSub \in SubRow
    BY BillingAssumption DEF NoSub, SubRow, Periods
<1> QED BY <1>1, <1>2 DEF NoBlCall, BlRow, BlPcs

LEMMA BlIsOver ==
    ASSUME BlInv, NEW c \in BlCalls, BlGo(c, "done")
    PROVE  LET n == blCall'[c] IN n \in BlRow /\ BlSet(c, n) /\ n.pc = "done" /\ n.op = blCall[c].op
<1>1. PICK r \in BlRow : r = [NoBlCall EXCEPT !.pc = "done", !.op = blCall[c].op]
    BY NobodyInHand, BlCallRow DEF BlRow, BlPcs
<1>2. BlSet(c, r)
    BY <1>1 DEF BlGo
<1>3. blCall'[c] = r
    BY <1>2, BlOneCall DEF BlInv
<1>4. r.pc = "done" /\ r.op = blCall[c].op
    BY <1>1, NobodyInHand DEF BlRow
<1> QED BY <1>2, <1>3, <1>4

\* What the others have in hand stays as it was, and what the call that moves
\* has in hand is read, or was in its hand before.
LEMMA HandsStay ==
    ASSUME BlInv, NEW c \in BlCalls, NEW r \in BlRow, BlSet(c, r), muddled \subseteq muddled',
           \A x \in BlCalls \ {c} : Sweeping(x) => \A p \in Hands(x) : TrueRow(p) => TrueRow(p)',
           Sweeping(c)' =>
               /\ \A g \in SweptBy(c)' : \/ Sweeping(c) /\ g \in SweptBy(c)
                                         \/ \A x \in BlCalls : Sweeping(x) /\ g \in SweptBy(x) => g \in muddled'
               /\ \A p, q \in r.due : p[1] = q[1] => p = q
               /\ r.pc # "next" => \A p \in r.due : p[1] # r.org
               /\ \A p \in Hands(c)' : TrueRow(p)'
               /\ r.pc = "end" => Ends(r.row)
               /\ r.pc \in {"count", "create"} => ~Ends(r.row)
    PROVE  InOneHand' /\ RowsHeld'
<1>1. blCall'[c] = r /\ \A x \in BlCalls \ {c} : blCall'[x] = blCall[x]
    BY BlOneCall DEF BlInv
<1>2. \A x \in BlCalls \ {c} : (Sweeping(x)' <=> Sweeping(x)) /\ SweptBy(x)' = SweptBy(x) /\ Hands(x)' = Hands(x)
    BY <1>1 DEF Sweeping, SweptBy, Hands, Judging, BlAt
<1>3. InOneHand'
    <2>1. ASSUME NEW x \in BlCalls \ {c}, Sweeping(x), Sweeping(c)', NEW g \in SweptBy(c)', g \in SweptBy(x)
          PROVE  g \in muddled'
        BY <2>1 DEF BlInv, InOneHand
    <2>2. ASSUME NEW x \in BlCalls, NEW y \in BlCalls, x # y, Sweeping(x)', Sweeping(y)',
                 NEW g \in SweptBy(x)' \intersect SweptBy(y)'
          PROVE  g \in muddled'
        <3>1. CASE x = c
            BY <1>2, <2>1, <2>2, <3>1
        <3>2. CASE y = c
            BY <1>2, <2>1, <2>2, <3>2
        <3>3. CASE x # c /\ y # c
            BY <1>2, <2>2, <3>3 DEF BlInv, InOneHand
        <3> QED BY <3>1, <3>2, <3>3
    <2>3. ASSUME NEW x \in BlCalls, Sweeping(x)'
          PROVE  /\ \A p, q \in blCall'[x].due : p[1] = q[1] => p = q
                 /\ ~BlAt(x, "next")' => \A p \in blCall'[x].due : p[1] # blCall'[x].org
        <3>1. CASE x = c
            BY <1>1, <2>3, <3>1 DEF BlAt
        <3>2. CASE x # c
            BY <1>1, <1>2, <2>3, <3>2 DEF BlInv, InOneHand, BlAt
        <3> QED BY <3>1, <3>2
    <2> QED BY <2>2, <2>3 DEF InOneHand
<1>4. ASSUME NEW x \in BlCalls, Sweeping(x)'
      PROVE  /\ \A p \in Hands(x)' : TrueRow(p)'
             /\ BlAt(x, "end")' => Ends(blCall'[x].row)
             /\ blCall'[x].pc \in {"count", "create"} => ~Ends(blCall'[x].row)
    <2>1. CASE x = c
        BY <1>1, <1>4, <2>1 DEF BlAt
    <2>2. CASE x # c
        BY <1>1, <1>2, <1>4, <2>2 DEF BlInv, RowsHeld, BlAt, Ends
    <2> QED BY <2>1, <2>2
<1>5. RowsHeld'
    BY <1>4 DEF RowsHeld, Ends
<1> QED BY <1>3, <1>5

\* Who advances a subscription goes on doing so while another call moves.
LEMMA AdvancersStay ==
    ASSUME BlInv, NEW c \in BlCalls, NEW r \in BlRow, BlSet(c, r), NEW g, Advancing(g),
           ~(Sweeping(c) /\ BlAt(c, "advance") /\ blCall[c].org = g)
    PROVE  Advancing(g)'
<1>1. \A x \in BlCalls \ {c} : blCall'[x] = blCall[x]
    BY BlOneCall DEF BlInv
<1> QED BY <1>1 DEF Advancing, Sweeping, BlAt

\* A step of a call that writes neither subscriptions nor invoices.
LEMMA BlMoves ==
    ASSUME BlInv, NEW c \in BlCalls, NEW r \in BlRow, BlSet(c, r), UNCHANGED <<sub, invoice, crossed>>,
           muddled \subseteq muddled', muddled' \subseteq Tenancies, r.pc \in BlPlaces(r.op),
           Sweeping(c) /\ BlAt(c, "advance") => blCall[c].org \in muddled',
           Sweeping(c)' =>
               /\ \A g \in SweptBy(c)' : \/ Sweeping(c) /\ g \in SweptBy(c)
                                         \/ \A x \in BlCalls : Sweeping(x) /\ g \in SweptBy(x) => g \in muddled'
               /\ \A p, q \in r.due : p[1] = q[1] => p = q
               /\ r.pc # "next" => \A p \in r.due : p[1] # r.org
               /\ \A p \in Hands(c)' : TrueRow(p)'
               /\ r.pc = "end" => Ends(r.row)
               /\ r.pc \in {"count", "create"} => ~Ends(r.row)
    PROVE  BlInv'
<1>1. \A p : TrueRow(p) => TrueRow(p)'
    BY DEF TrueRow
<1>2. InOneHand' /\ RowsHeld'
    BY <1>1, HandsStay
<1>3. BlTyped'
    BY BlOneCall DEF BlInv, BlTyped
<1>4. BlInPlace'
    BY BlOneCall DEF BlInv, BlInPlace
<1>5. RenewedIsOver'
    BY AdvancersStay DEF BlInv, RenewedIsOver
<1>6. BilledAsAgreed'
    BY DEF BlInv, BilledAsAgreed
<1> QED BY <1>2, <1>3, <1>4, <1>5, <1>6 DEF BlInv

LEMMA AskBillingKeeps ==
    ASSUME BlInv, NEW c \in BlCalls, NEW g \in Tenancies, NEW op \in {"subscribe", "cancel", "invoice"},
           AskBilling(c, g, op)
    PROVE  BlInv'
<1>1. BlAt(c, "idle") /\ UNCHANGED <<sub, invoice, muddled, crossed>>
    BY DEF AskBilling, BlBegins
<1>2. PICK p \in {"count", "write"} : p = IF op = "invoice" THEN "count" ELSE "write"
    OBVIOUS
<1>3. sub[g] \in SubRow
    BY DEF BlInv, BlTyped
<1>4. PICK r \in BlRow : r = [NoBlCall EXCEPT !.pc = p, !.op = op, !.org = g, !.row = sub[g]]
    BY <1>3, NobodyInHand DEF BlRow, BlPcs
<1>5. BlSet(c, r)
    BY <1>2, <1>4 DEF AskBilling
<1>6. r.pc = p /\ r.op = op
    BY <1>4, NobodyInHand DEF BlRow
<1>7. r.pc \in BlPlaces(r.op)
    BY <1>2, <1>6 DEF BlPlaces
<1>8. ~Sweeping(c)'
    BY <1>5, <1>6, BlOneCall DEF Sweeping, BlInv
<1> QED BY <1>1, <1>5, <1>7, <1>8, BlMoves DEF BlAt, BlInv, BlTyped

LEMMA CountInvoicesKeeps ==
    ASSUME BlInv, NEW c \in BlCalls, CountInvoices(c) PROVE BlInv'
<1>1. BlAt(c, "count") /\ UNCHANGED <<sub, invoice, muddled, crossed>>
    BY DEF CountInvoices
<1>2. PICK n \in Nat : n = Cardinality(InvoicesOf(blCall[c].org)) + 1
    <2>1. IsFiniteSet(InvoicesOf(blCall[c].org))
        BY FS_Subset DEF BlInv, BlTyped, InvoicesOf
    <2> QED BY <2>1, FS_CardinalityType
<1>3. PICK r \in BlRow : r = [blCall[c] EXCEPT !.pc = "create", !.number = n]
    BY BlCallRow DEF BlRow, BlPcs
<1>4. r.pc = "create" /\ r.op = blCall[c].op /\ r.due = blCall[c].due /\ r.org = blCall[c].org /\ r.row = blCall[c].row
    BY <1>3, BlCallRow DEF BlRow
<1>5. BlSet(c, r)
    BY <1>2, <1>3 DEF CountInvoices
<1>6. blCall'[c] = r
    BY <1>5, BlOneCall DEF BlInv
<1>7. r.pc \in BlPlaces(r.op)
    BY <1>1, <1>4, BlCallRow DEF BlPlaces, BlPcs, BlAt
<1>8. (Sweeping(c)' <=> Sweeping(c)) /\ SweptBy(c)' = SweptBy(c) /\ (Sweeping(c) => Hands(c)' = Hands(c))
    BY <1>1, <1>4, <1>6 DEF Sweeping, SweptBy, Hands, Judging, BlAt
<1>9. \A p : TrueRow(p) => TrueRow(p)'
    BY <1>1 DEF TrueRow
<1>10. Sweeping(c) => /\ \A p \in Hands(c) : TrueRow(p)
                      /\ \A p, q \in r.due : p[1] = q[1] => p = q
                      /\ \A p \in r.due : p[1] # r.org
                      /\ ~Ends(r.row)
    BY <1>1, <1>4 DEF BlInv, RowsHeld, InOneHand, BlAt
<1> QED BY <1>1, <1>4, <1>5, <1>7, <1>8, <1>9, <1>10, BlMoves DEF BlAt, BlInv, BlTyped

\* A call that ends, of itself or with its process.
LEMMA BlEnds ==
    ASSUME BlInv, NEW c \in BlCalls, BlGo(c, "done"), UNCHANGED <<sub, invoice, crossed>>,
           muddled \subseteq muddled', muddled' \subseteq Tenancies,
           Sweeping(c) /\ BlAt(c, "advance") => blCall[c].org \in muddled'
    PROVE  BlInv'
<1>1. PICK r \in BlRow : r = blCall'[c] /\ BlSet(c, r) /\ r.pc = "done" /\ r.op = blCall[c].op
    BY BlIsOver
<1>2. r.pc \in BlPlaces(r.op) /\ ~Sweeping(c)'
    BY <1>1 DEF BlPlaces, BlPcs, Sweeping
<1> QED BY <1>1, <1>2, BlMoves

LEMMA BlCallDiesKeeps ==
    ASSUME BlInv, NEW c \in BlCalls, BlCallDies(c) PROVE BlInv'
<1>1. muddled' \subseteq Tenancies
    BY BlCallRow DEF BlCallDies, BlInv, BlTyped
<1> QED BY <1>1, BlEnds DEF BlCallDies

LEMMA RenewNextKeeps ==
    ASSUME BlInv, NEW c \in BlCalls, RenewNext(c) PROVE BlInv'
<1>1. BlAt(c, "next") /\ UNCHANGED <<sub, invoice, muddled, crossed>>
    BY DEF RenewNext
<1>2. CASE BlGo(c, "done")
    BY <1>1, <1>2, BlEnds DEF BlAt, BlInv, BlTyped
<1>3. ASSUME NEW p \in blCall[c].due,
             BlSet(c, [blCall[c] EXCEPT !.pc = IF Ends(p[2]) THEN "end" ELSE "count",
                       !.due = blCall[c].due \ {p}, !.org = p[1], !.row = p[2]])
      PROVE  BlInv'
    <2>1. p \in Tenancies \X SubRow /\ p[1] \in Tenancies /\ p[2] \in SubRow /\ p = <<p[1], p[2]>>
        BY <1>3, BlCallRow
    <2>2. PICK s \in {"end", "count"} : s = IF Ends(p[2]) THEN "end" ELSE "count"
        OBVIOUS
    <2>3. PICK D \in SUBSET (Tenancies \X SubRow) : D = blCall[c].due \ {p}
        BY BlCallRow
    <2>4. PICK r \in BlRow : r = [blCall[c] EXCEPT !.pc = s, !.due = D, !.org = p[1], !.row = p[2]]
        BY <2>1, BlCallRow DEF BlRow, BlPcs
    <2>5. r.pc = s /\ r.op = blCall[c].op /\ r.due = D /\ r.org = p[1] /\ r.row = p[2]
        BY <2>4, BlCallRow DEF BlRow
    <2>6. BlSet(c, r)
        BY <1>3, <2>2, <2>3, <2>4
    <2>7. blCall'[c] = r
        BY <2>6, BlOneCall DEF BlInv
    <2>8. blCall[c].op = "renew"
        BY <1>1, BlCallRow DEF BlPlaces, BlAt
    <2>9. Sweeping(c) /\ r.pc \in BlPlaces(r.op)
        BY <1>1, <2>5, <2>8 DEF Sweeping, BlAt, BlPlaces, BlPcs
    <2>10. \A q1, q2 \in blCall[c].due : q1[1] = q2[1] => q1 = q2
        BY <2>9 DEF BlInv, InOneHand
    <2>11. SweptBy(c)' \subseteq SweptBy(c)
        BY <1>3, <2>3, <2>5, <2>7 DEF SweptBy, BlAt
    <2>12. Hands(c)' \subseteq Hands(c)
        BY <1>3, <2>1, <2>3, <2>5, <2>7 DEF Hands
    <2>13. \A q \in Hands(c) : TrueRow(q)
        BY <2>9 DEF BlInv, RowsHeld
    <2>14. \A q : TrueRow(q) => TrueRow(q)'
        BY <1>1 DEF TrueRow
    <2>15. \A q \in Hands(c)' : TrueRow(q)'
        BY <2>12, <2>13, <2>14
    <2>16. /\ \A q1, q2 \in r.due : q1[1] = q2[1] => q1 = q2
           /\ \A q \in r.due : q[1] # r.org
        BY <1>3, <2>3, <2>5, <2>10
    <2>17. r.pc = "end" => Ends(r.row)
        BY <2>2, <2>5
    <2>18. r.pc \in {"count", "create"} => ~Ends(r.row)
        BY <2>2, <2>5
    <2>19. \A g \in SweptBy(c)' : g \in SweptBy(c)
        BY <2>11
    <2> HIDE DEF SweptBy, Hands
    <2> QED BY <1>1, <2>6, <2>9, <2>15, <2>16, <2>17, <2>18, <2>19, BlMoves DEF BlAt, BlInv, BlTyped
<1> QED BY <1>2, <1>3 DEF RenewNext

LEMMA RenewDueKeeps ==
    ASSUME BlInv, NEW c \in BlCalls, RenewDue(c) PROVE BlInv'
<1>1. BlAt(c, "idle") /\ UNCHANGED <<sub, invoice, crossed>> /\ muddled' = muddled \union (DueForRenewal \intersect Swept)
    BY DEF RenewDue, BlBegins
<1>2. PICK D \in SUBSET (Tenancies \X SubRow) : D = {<<g, sub[g]>> : g \in DueForRenewal}
    <2>1. \A g \in DueForRenewal : <<g, sub[g]>> \in Tenancies \X SubRow
        BY SubRowAt DEF DueForRenewal
    <2> QED BY <2>1
<1>3. PICK r \in BlRow : r = [NoBlCall EXCEPT !.pc = "next", !.due = D]
    BY NobodyInHand DEF BlRow, BlPcs
<1>4. r.pc = "next" /\ r.op = "renew" /\ r.due = D
    BY <1>3, NobodyInHand DEF BlRow, NoBlCall
<1>5. BlSet(c, r)
    BY <1>2, <1>3 DEF RenewDue
<1>6. blCall'[c] = r
    BY <1>5, BlOneCall DEF BlInv
<1>7. muddled \subseteq muddled' /\ muddled' \subseteq Tenancies
    BY <1>1 DEF BlInv, BlTyped, DueForRenewal
<1>8. SweptBy(c)' = {p[1] : p \in D} /\ Hands(c)' = D
    BY <1>4, <1>6 DEF SweptBy, Hands, Judging, BlAt
<1>9. ASSUME NEW g \in SweptBy(c)', NEW x \in BlCalls, Sweeping(x), g \in SweptBy(x) PROVE g \in muddled'
    <2>1. g \in DueForRenewal
        BY <1>2, <1>8
    <2>2. g \in Swept
        BY <1>9 DEF Swept
    <2> QED BY <1>1, <2>1, <2>2
<1>10. ASSUME NEW p \in D PROVE TrueRow(p)'
    <2>1. PICK g \in DueForRenewal : p = <<g, sub[g]>>
        BY <1>2, <1>10
    <2>2. g \in Tenancies /\ p[1] = g /\ p[2] = sub[g] /\ sub[g] \in SubRow
        BY <2>1 DEF DueForRenewal, BlInv, BlTyped
    <2>3. p[2].period <= sub[g].period
        BY <2>2 DEF SubRow, Periods
    <2>4. ASSUME g \notin muddled', NEW x \in invoice, x.renewal, x.org = g, x.period = sub[g].period PROVE FALSE
        <3>1. Advancing(g)
            BY <1>7, <2>4 DEF BlInv, RenewedIsOver
        <3>2. g \in Swept
            BY <3>1 DEF Advancing, Swept, SweptBy, BlAt
        <3> QED BY <1>1, <2>1, <2>4, <3>2
    <2> QED BY <1>1, <2>2, <2>3, <2>4 DEF TrueRow
<1>11. \A p, q \in r.due : p[1] = q[1] => p = q
    BY <1>2, <1>4
<1>12. r.pc \in BlPlaces(r.op)
    BY <1>4 DEF BlPlaces, BlPcs
<1> QED BY <1>1, <1>4, <1>5, <1>7, <1>8, <1>9, <1>10, <1>11, <1>12, BlMoves DEF BlAt

-----------------------------------------------------------------------------
(* Steps that write subscriptions and invoices                              *)

\* What is written keeps the rows read true, for who does not hold the
\* organization or where the crossing is noted.
LEMMA SubWritten ==
    ASSUME BlInv, NEW g \in Tenancies, NEW row \in SubRow, sub' = [sub EXCEPT ![g] = row], UNCHANGED <<invoice, muddled>>,
           crossed \subseteq crossed', crossed' \subseteq Tenancies,
           sub[g].period <= row.period, row.status = "none" => row.period = 1,
           row.status = "CANCELLED" => row.cancel \/ g \in crossed'
    PROVE  /\ sub' \in [Tenancies -> SubRow] /\ \A h \in Tenancies : sub'[h].status = "none" => sub'[h].period = 1
           /\ \A p \in Tenancies \X SubRow :
                TrueRow(p) /\ (p[1] = g => g \in crossed' \/ row.cancel = sub[g].cancel) => TrueRow(p)'
           /\ \A x \in invoice : x.org \in Tenancies /\ sub[x.org].period <= sub'[x.org].period
                                 /\ x.period \in Nat /\ sub[x.org].period \in Nat /\ sub'[x.org].period \in Nat
           /\ BilledAsAgreed'
<1>1. sub \in [Tenancies -> SubRow] /\ row.period \in Nat /\ \A h \in Tenancies : sub[h].period \in Nat
    BY DEF BlInv, BlTyped, SubRow, Periods
<1>2. sub' \in [Tenancies -> SubRow] /\ sub'[g] = row /\ \A h \in Tenancies \ {g} : sub'[h] = sub[h]
    BY <1>1
<1>3. \A h \in Tenancies : sub[h].period <= sub'[h].period /\ sub'[h].period \in Nat
    BY <1>1, <1>2
<1>4. \A h \in Tenancies : sub'[h].status = "none" => sub'[h].period = 1
    BY <1>2 DEF BlInv, BlInPlace
<1>5. ASSUME NEW p \in Tenancies \X SubRow, TrueRow(p), p[1] = g => g \in crossed' \/ row.cancel = sub[g].cancel
      PROVE  TrueRow(p)'
    <2>1. p[1] \in Tenancies /\ p[2].period \in Nat
        BY DEF SubRow, Periods
    <2>2. p[2].period <= sub'[p[1]].period
        BY <1>1, <1>3, <1>5, <2>1 DEF TrueRow
    <2>3. p[1] \notin crossed' => p[2].cancel = sub'[p[1]].cancel
        BY <1>2, <1>5, <2>1 DEF TrueRow
    <2> QED BY <1>5, <2>2, <2>3 DEF TrueRow
<1>6. \A x \in invoice : x.org \in Tenancies /\ x.period \in Nat
    BY DEF BlInv, BlTyped, InvoiceRow, Periods
<1>7. BilledAsAgreed'
    BY <1>2 DEF BlInv, BilledAsAgreed
<1> QED BY <1>1, <1>2, <1>3, <1>4, <1>5, <1>6, <1>7

\* A request writes the row of an organization.
LEMMA RequestWrites ==
    ASSUME BlInv, NEW c \in BlCalls, BlGo(c, "done"), blCall[c].op # "renew",
           NEW g \in Tenancies, NEW row \in SubRow, sub' = [sub EXCEPT ![g] = row], UNCHANGED <<invoice, muddled>>,
           crossed' = crossed \union ({g} \intersect Swept),
           sub[g].period <= row.period, row.status = "none" => row.period = 1,
           row.status = "CANCELLED" => row.cancel \/ g \in crossed
    PROVE  BlInv'
<1>1. PICK r \in BlRow : r = blCall'[c] /\ BlSet(c, r) /\ r.pc = "done" /\ r.op = blCall[c].op
    BY BlIsOver
<1>2. crossed \subseteq crossed' /\ crossed' \subseteq Tenancies
    BY DEF BlInv, BlTyped
<1>3. ~Sweeping(c)' /\ ~Sweeping(c) /\ r.pc \in BlPlaces(r.op)
    BY <1>1 DEF Sweeping, BlPlaces, BlPcs
<1>4. /\ sub' \in [Tenancies -> SubRow] /\ \A h \in Tenancies : sub'[h].status = "none" => sub'[h].period = 1
      /\ \A p \in Tenancies \X SubRow :
           TrueRow(p) /\ (p[1] = g => g \in crossed' \/ row.cancel = sub[g].cancel) => TrueRow(p)'
      /\ \A x \in invoice : x.org \in Tenancies /\ sub[x.org].period <= sub'[x.org].period
                            /\ x.period \in Nat /\ sub[x.org].period \in Nat /\ sub'[x.org].period \in Nat
      /\ BilledAsAgreed'
    BY <1>2, SubWritten
<1>5. ASSUME NEW x \in BlCalls \ {c}, Sweeping(x), NEW p \in Hands(x), TrueRow(p) PROVE TrueRow(p)'
    <2>1. p \in Tenancies \X SubRow
        BY BlCallRow DEF Hands
    <2>2. p[1] \in SweptBy(x)
        BY DEF Hands, SweptBy, Judging, BlAt
    <2>3. p[1] = g => g \in crossed'
        BY <1>5, <2>2 DEF Swept
    <2> QED BY <1>4, <1>5, <2>1, <2>3
<1>6. InOneHand' /\ RowsHeld'
    BY <1>1, <1>3, <1>5, HandsStay
<1>7. BlTyped'
    BY <1>1, <1>2, <1>4, BlOneCall DEF BlInv, BlTyped
<1>8. BlInPlace'
    BY <1>1, <1>3, <1>4, BlOneCall DEF BlInv, BlInPlace
<1>9. ASSUME NEW x \in invoice, x.renewal
      PROVE  x.period <= sub'[x.org].period /\ (x.org \notin muddled /\ x.period = sub'[x.org].period => Advancing(x.org)')
    <2>1. x.period <= sub[x.org].period /\ (x.org \notin muddled /\ x.period = sub[x.org].period => Advancing(x.org))
        BY <1>9 DEF BlInv, RenewedIsOver
    <2>2. Advancing(x.org) => Advancing(x.org)'
        BY <1>1, <1>3, AdvancersStay
    <2> QED BY <1>4, <2>1, <2>2
<1>10. RenewedIsOver'
    BY <1>9 DEF RenewedIsOver
<1> QED BY <1>4, <1>6, <1>7, <1>8, <1>10 DEF BlInv

LEMMA SubscribeKeeps ==
    ASSUME BlInv, NEW c \in BlCalls, Subscribe(c) PROVE BlInv'
<1>1. PICK g \in Tenancies : g = blCall[c].org
    BY BlCallRow
<1>2. /\ BlGo(c, "done") /\ blCall[c].op # "renew" /\ UNCHANGED <<invoice, muddled>>
      /\ crossed' = crossed \union ({g} \intersect Swept)
    BY <1>1 DEF Subscribe
<1>3. sub \in [Tenancies -> SubRow] /\ sub[g] \in SubRow /\ sub[g].period \in Nat
    BY SubRowAt DEF BlInv, BlTyped
<1>4. ASSUME sub[g].status = "none", NEW s \in {"TRIALING", "ACTIVE"}, sub' = [sub EXCEPT ![g] = Fresh(s, 1)]
      PROVE  BlInv'
    <2>1. sub[g].period = 1
        BY <1>4, SubRowAt
    <2>2. 1 \in Periods
        BY BillingAssumption DEF Periods
    <2>3. PICK row \in SubRow : row = Fresh(s, 1)
        BY <2>2 DEF Fresh, SubRow
    <2>4. row.status = s /\ row.period = 1
        BY <2>3 DEF Fresh
    <2>5. sub' = [sub EXCEPT ![g] = row]
        BY <1>4, <2>3
    <2>6. sub[g].period <= row.period /\ row.status # "CANCELLED"
        BY <2>1, <2>4
    <2> QED BY <1>2, <2>4, <2>5, <2>6, RequestWrites
<1>5. CASE UNCHANGED sub
    <2>1. sub' = [sub EXCEPT ![g] = sub[g]]
        BY <1>3, <1>5
    <2>2. PICK row \in SubRow : row = sub[g]
        BY <1>3
    <2>3. sub' = [sub EXCEPT ![g] = row] /\ sub[g].period <= row.period
        BY <1>3, <2>1, <2>2
    <2>4. row.status = "none" => row.period = 1
        BY <2>2, SubRowAt
    <2>5. row.status = "CANCELLED" => row.cancel \/ g \in crossed
        BY <2>2, SubRowAt
    <2> QED BY <1>2, <2>2, <2>3, <2>4, <2>5, SubRowAt, RequestWrites
<1>6. CASE sub[g].period < MaxPeriods /\ sub' = [sub EXCEPT ![g] = Fresh("ACTIVE", @.period + 1)]
    <2>1. PICK n \in Periods : n = sub[g].period + 1
        BY <1>3, <1>6, BillingAssumption DEF Periods
    <2>2. PICK row \in SubRow : row = Fresh("ACTIVE", n)
        BY DEF Fresh, SubRow
    <2>3. row.status = "ACTIVE" /\ row.period = n
        BY <2>2 DEF Fresh
    <2>4. sub' = [sub EXCEPT ![g] = row]
        BY <1>6, <2>1, <2>2
    <2>5. sub[g].period <= row.period
        BY <1>3, <2>1, <2>3
    <2> QED BY <1>2, <2>3, <2>4, <2>5, RequestWrites
<1> QED BY <1>1, <1>4, <1>5, <1>6 DEF Subscribe

LEMMA CancelKeeps ==
    ASSUME BlInv, NEW c \in BlCalls, Cancel(c) PROVE BlInv'
<1>1. PICK g \in Tenancies : g = blCall[c].org
    BY BlCallRow
<1>2. /\ BlGo(c, "done") /\ blCall[c].op # "renew" /\ UNCHANGED <<invoice, muddled>>
      /\ crossed' = crossed \union ({g} \intersect Swept) /\ sub' = [sub EXCEPT ![g].cancel = TRUE]
    BY <1>1 DEF Cancel
<1>3. sub[g] \in SubRow /\ sub[g].period \in Nat
    BY SubRowAt
<1>4. PICK row \in SubRow : row = [sub[g] EXCEPT !.cancel = TRUE]
    BY <1>3 DEF SubRow
<1>5. row.cancel /\ row.period = sub[g].period /\ row.status = sub[g].status
    BY <1>3, <1>4 DEF SubRow
<1>6. sub' = [sub EXCEPT ![g] = row]
    BY <1>2, <1>4
<1>7. (row.status = "none" => row.period = 1) /\ sub[g].period <= row.period
    BY <1>3, <1>5, SubRowAt
<1> QED BY <1>2, <1>3, <1>5, <1>6, <1>7, RequestWrites

\* A sweep writes the row of the organization it is at, and is done with it.
LEMMA SweepWrites ==
    ASSUME BlInv, NEW c \in BlCalls, Sweeping(c), blCall[c].pc \in {"end", "advance"}, BlGo(c, "next"),
           NEW g \in Tenancies, g = blCall[c].org, NEW row \in SubRow, sub' = [sub EXCEPT ![g] = row],
           UNCHANGED <<invoice, muddled, crossed>>, row.cancel = sub[g].cancel, row.status # "none",
           sub[g].period <= row.period, blCall[c].pc = "advance" => sub[g].period < row.period,
           row.status = "CANCELLED" => row.cancel \/ g \in crossed
    PROVE  BlInv'
<1>1. PICK r \in BlRow : /\ r = blCall'[c] /\ BlSet(c, r) /\ r.pc = "next" /\ r.op = blCall[c].op
                         /\ r.due = blCall[c].due /\ r.org = g
    BY BlGoesOn DEF BlPcs
<1>2. crossed \subseteq crossed' /\ crossed' \subseteq Tenancies
    BY DEF BlInv, BlTyped
<1>3. Sweeping(c)' /\ r.pc \in BlPlaces(r.op)
    BY <1>1 DEF Sweeping, BlPlaces, BlPcs
<1>4. /\ sub' \in [Tenancies -> SubRow] /\ \A h \in Tenancies : sub'[h].status = "none" => sub'[h].period = 1
      /\ \A p \in Tenancies \X SubRow :
           TrueRow(p) /\ (p[1] = g => g \in crossed' \/ row.cancel = sub[g].cancel) => TrueRow(p)'
      /\ \A x \in invoice : x.org \in Tenancies /\ sub[x.org].period <= sub'[x.org].period
                            /\ x.period \in Nat /\ sub[x.org].period \in Nat /\ sub'[x.org].period \in Nat
      /\ BilledAsAgreed'
    BY <1>2, SubWritten
<1>5. \A x \in BlCalls : Hands(x) \subseteq Tenancies \X SubRow
    BY BlCallRow DEF Hands
<1>6. \A x \in BlCalls : \A p \in Hands(x) : TrueRow(p) => TrueRow(p)'
    BY <1>4, <1>5
<1>7. SweptBy(c)' \subseteq SweptBy(c) /\ Hands(c)' \subseteq Hands(c)
    BY <1>1 DEF SweptBy, Hands, Judging, BlAt
<1>8. \A p \in Hands(c) : TrueRow(p)
    BY DEF BlInv, RowsHeld
<1>9. \A p, q \in r.due : p[1] = q[1] => p = q
    BY <1>1 DEF BlInv, InOneHand
<1>10. InOneHand' /\ RowsHeld'
    BY <1>1, <1>3, <1>6, <1>7, <1>8, <1>9, HandsStay
<1>11. BlTyped' /\ BlInPlace'
    BY <1>1, <1>2, <1>3, <1>4, BlOneCall DEF BlInv, BlTyped, BlInPlace
<1>12. ASSUME NEW x \in invoice, x.renewal
       PROVE  x.period <= sub'[x.org].period /\ (x.org \notin muddled /\ x.period = sub'[x.org].period => Advancing(x.org)')
    <2>1. x.period <= sub[x.org].period /\ (x.org \notin muddled /\ x.period = sub[x.org].period => Advancing(x.org))
        BY <1>12 DEF BlInv, RenewedIsOver
    <2>2. CASE BlAt(c, "advance") /\ x.org = g
        <3>1. sub'[g] = row
            BY DEF BlInv, BlTyped
        <3> QED BY <1>4, <2>1, <2>2, <3>1 DEF BlAt
    <2>3. CASE ~(BlAt(c, "advance") /\ x.org = g)
        <3>1. Advancing(x.org) => Advancing(x.org)'
            BY <1>1, <2>3, AdvancersStay
        <3> QED BY <1>4, <2>1, <3>1
    <2> QED BY <2>2, <2>3
<1>13. RenewedIsOver'
    BY <1>12 DEF RenewedIsOver
<1> QED BY <1>4, <1>10, <1>11, <1>13 DEF BlInv

LEMMA EndSubscriptionKeeps ==
    ASSUME BlInv, NEW c \in BlCalls, EndSubscription(c) PROVE BlInv'
<1>1. PICK g \in Tenancies : g = blCall[c].org
    BY BlCallRow
<1>2. /\ BlAt(c, "end") /\ BlGo(c, "next") /\ UNCHANGED <<invoice, muddled, crossed>>
      /\ sub' = [sub EXCEPT ![g].status = "CANCELLED"]
    BY <1>1 DEF EndSubscription
<1>3. sub[g] \in SubRow /\ sub[g].period \in Nat
    BY SubRowAt
<1>4. PICK row \in SubRow : row = [sub[g] EXCEPT !.status = "CANCELLED"]
    BY <1>3 DEF SubRow
<1>5. row.cancel = sub[g].cancel /\ row.period = sub[g].period /\ row.status = "CANCELLED"
    BY <1>3, <1>4 DEF SubRow
<1>6. sub' = [sub EXCEPT ![g] = row] /\ sub[g].period <= row.period
    BY <1>2, <1>3, <1>4, <1>5
<1>7. blCall[c].op = "renew"
    BY <1>2, BlCallRow DEF BlPlaces, BlAt
<1>8. Sweeping(c) /\ Ends(blCall[c].row) /\ TrueRow(<<g, blCall[c].row>>)
    BY <1>1, <1>2, <1>7 DEF Sweeping, BlAt, BlInv, RowsHeld, Hands, Judging
<1>9. row.cancel \/ g \in crossed
    BY <1>5, <1>8 DEF TrueRow, Ends
<1> QED BY <1>1, <1>2, <1>5, <1>6, <1>7, <1>8, <1>9, SweepWrites DEF BlAt

LEMMA BeginPeriodKeeps ==
    ASSUME BlInv, NEW c \in BlCalls, BeginPeriod(c) PROVE BlInv'
<1>1. PICK g \in Tenancies : g = blCall[c].org
    BY BlCallRow
<1>2. /\ BlAt(c, "advance") /\ BlGo(c, "next") /\ UNCHANGED <<invoice, muddled, crossed>> /\ sub[g].period < MaxPeriods
      /\ sub' = [sub EXCEPT ![g] = [sub[g] EXCEPT !.status = "ACTIVE", !.period = sub[g].period + 1, !.ended = FALSE]]
    BY <1>1 DEF BeginPeriod
<1>3. sub[g] \in SubRow /\ sub[g].period \in Nat
    BY SubRowAt
<1>4. PICK n \in Periods : n = sub[g].period + 1
    BY <1>2, <1>3, BillingAssumption DEF Periods
<1>5. PICK row \in SubRow : row = [sub[g] EXCEPT !.status = "ACTIVE", !.period = n, !.ended = FALSE]
    BY <1>3 DEF SubRow
<1>6. row.cancel = sub[g].cancel /\ row.period = n /\ row.status = "ACTIVE"
    BY <1>3, <1>5 DEF SubRow
<1>7. sub' = [sub EXCEPT ![g] = row] /\ sub[g].period < row.period /\ sub[g].period <= row.period
    BY <1>2, <1>3, <1>4, <1>5, <1>6
<1>8. blCall[c].op = "renew"
    BY <1>2, BlCallRow DEF BlPlaces, BlAt
<1>9. Sweeping(c)
    BY <1>2, <1>8 DEF Sweeping, BlAt
<1> QED BY <1>1, <1>2, <1>6, <1>7, <1>9, SweepWrites DEF BlAt

LEMMA CreateInvoiceKeeps ==
    ASSUME BlInv, NEW c \in BlCalls, CreateInvoice(c) PROVE BlInv'
<1>1. BlAt(c, "create") /\ UNCHANGED <<sub, muddled, crossed>>
    BY DEF CreateInvoice
<1>2. CASE BlGo(c, "done") /\ UNCHANGED invoice
    BY <1>1, <1>2, BlEnds DEF BlAt, BlInv, BlTyped
<1>3. CASE /\ \A x \in InvoicesOf(blCall[c].org) : x.number # blCall[c].number
           /\ invoice' = invoice \union {[org |-> blCall[c].org, number |-> blCall[c].number,
                    period |-> blCall[c].row.period, renewal |-> blCall[c].op = "renew",
                    cancelled |-> sub[blCall[c].org].cancel]}
           /\ BlGo(c, IF blCall[c].op = "renew" THEN "advance" ELSE "done")
    <2>1. PICK g \in Tenancies : g = blCall[c].org
        BY BlCallRow
    <2>2. PICK b \in BOOLEAN : b = (blCall[c].op = "renew")
        OBVIOUS
    <2>3. blCall[c].row.period \in Periods /\ sub[g].cancel \in BOOLEAN /\ blCall[c].number \in Nat
        BY BlCallRow, SubRowAt DEF SubRow
    <2>4. PICK x \in InvoiceRow : x = [org |-> g, number |-> blCall[c].number, period |-> blCall[c].row.period,
                                       renewal |-> b, cancelled |-> sub[g].cancel]
        BY <2>3 DEF InvoiceRow
    <2>5. /\ x.org = g /\ x.period = blCall[c].row.period /\ x.renewal = b /\ x.cancelled = sub[g].cancel
          /\ x.number = blCall[c].number
        BY <2>4
    <2>6. invoice' = invoice \union {x}
        BY <1>3, <2>1, <2>2, <2>4
    <2>7. IsFiniteSet(invoice') /\ invoice' \in SUBSET InvoiceRow
        BY <2>6, FS_AddElement DEF BlInv, BlTyped
    <2>8. CASE blCall[c].op # "renew"
        <3>1. PICK r \in BlRow : r = blCall'[c] /\ BlSet(c, r) /\ r.pc = "done" /\ r.op = blCall[c].op
            BY <1>3, <2>8, BlIsOver
        <3>2. ~Sweeping(c)' /\ ~Sweeping(c) /\ r.pc \in BlPlaces(r.op)
            BY <2>8, <3>1 DEF Sweeping, BlPlaces, BlPcs
        <3>3. \A y \in invoice' : y.renewal => y \in invoice
            BY <2>2, <2>5, <2>6, <2>8
        <3>4. \A p : TrueRow(p) => TrueRow(p)'
            BY <1>1, <3>3 DEF TrueRow
        <3>5. InOneHand' /\ RowsHeld'
            BY <1>1, <3>1, <3>2, <3>4, HandsStay
        <3>6. BlTyped' /\ BlInPlace'
            BY <1>1, <2>7, <3>1, <3>2, BlOneCall DEF BlInv, BlTyped, BlInPlace
        <3>7. \A h : Advancing(h) => Advancing(h)'
            BY <3>1, <3>2, AdvancersStay
        <3>8. RenewedIsOver'
            BY <1>1, <3>3, <3>7 DEF BlInv, RenewedIsOver
        <3>9. BilledAsAgreed'
            BY <1>1, <3>3 DEF BlInv, BilledAsAgreed
        <3> QED BY <3>5, <3>6, <3>8, <3>9 DEF BlInv
    <2>9. CASE blCall[c].op = "renew"
        <3>1. PICK r \in BlRow : /\ r = blCall'[c] /\ BlSet(c, r) /\ r.pc = "advance" /\ r.op = "renew"
                                 /\ r.due = blCall[c].due /\ r.org = g
            BY <1>3, <2>1, <2>9, BlGoesOn DEF BlPcs
        <3>2. Sweeping(c) /\ Sweeping(c)' /\ r.pc \in BlPlaces(r.op)
            BY <1>1, <2>9, <3>1 DEF Sweeping, BlPlaces, BlPcs, BlAt
        <3>3. TrueRow(<<g, blCall[c].row>>) /\ ~blCall[c].row.cancel
            BY <1>1, <2>1, <3>2 DEF BlInv, RowsHeld, Hands, Judging, BlAt, Ends
        <3>4. ASSUME NEW p, p[1] # g, TrueRow(p) PROVE TrueRow(p)'
            BY <1>1, <2>5, <2>6, <3>4 DEF TrueRow
        <3>5. ASSUME NEW p, g \in muddled, TrueRow(p) PROVE TrueRow(p)'
            <4>1. CASE p[1] = g
                BY <1>1, <3>5, <4>1 DEF TrueRow
            <4>2. CASE p[1] # g
                BY <3>4, <3>5, <4>2
            <4> QED BY <4>1, <4>2
        <3>6. ASSUME NEW y \in BlCalls \ {c}, Sweeping(y), NEW p \in Hands(y), TrueRow(p) PROVE TrueRow(p)'
            <4>1. p[1] \in SweptBy(y) /\ g \in SweptBy(c)
                BY <1>1, <2>1, <3>6 DEF Hands, SweptBy, Judging, BlAt
            <4>2. p[1] = g => g \in muddled
                BY <3>2, <3>6, <4>1 DEF BlInv, InOneHand
            <4> QED BY <3>4, <3>5, <3>6, <4>2
        <3>7. /\ SweptBy(c)' \subseteq SweptBy(c) /\ Hands(c)' = blCall[c].due
            BY <1>1, <2>1, <3>1 DEF SweptBy, Hands, Judging, BlAt
        <3>8. /\ \A p, q \in r.due : p[1] = q[1] => p = q
              /\ \A p \in r.due : p[1] # r.org
            BY <1>1, <2>1, <3>1, <3>2 DEF BlInv, InOneHand, BlAt
        <3>9. \A p \in Hands(c)' : TrueRow(p)'
            <4>1. \A p \in blCall[c].due : TrueRow(p)
                BY <3>2 DEF BlInv, RowsHeld, Hands
            <4> QED BY <3>1, <3>4, <3>7, <3>8, <4>1
        <3>10. InOneHand' /\ RowsHeld'
            BY <1>1, <3>1, <3>2, <3>6, <3>7, <3>8, <3>9, HandsStay
        <3>11. BlTyped' /\ BlInPlace'
            BY <1>1, <2>7, <3>1, <3>2, BlOneCall DEF BlInv, BlTyped, BlInPlace
        <3>12. Advancing(g)' /\ \A h : Advancing(h) => Advancing(h)'
            <4>1. Advancing(g)'
                BY <3>1, <3>2 DEF Advancing, BlAt
            <4> QED BY <1>1, <3>1, <4>1, AdvancersStay DEF BlAt
        <3>13. RenewedIsOver'
            <4>1. x.period <= sub[g].period
                BY <2>5, <3>3 DEF TrueRow
            <4> QED BY <1>1, <2>5, <2>6, <3>12, <4>1 DEF BlInv, RenewedIsOver
        <3>14. BilledAsAgreed'
            <4>1. \A y \in invoice : y.renewal /\ y.org = g /\ y.period = x.period => g \in muddled
                BY <2>5, <3>3 DEF TrueRow
            <4>2. x.cancelled => g \in crossed
                BY <2>5, <3>3 DEF TrueRow
            <4> QED BY <1>1, <2>5, <2>6, <4>1, <4>2 DEF BlInv, BilledAsAgreed
        <3> QED BY <3>10, <3>11, <3>13, <3>14 DEF BlInv
    <2> QED BY <2>8, <2>9
<1> QED BY <1>2, <1>3 DEF CreateInvoice

LEMMA PeriodEndsKeeps ==
    ASSUME BlInv, NEW g \in Tenancies, PeriodEnds(g) PROVE BlInv'
<1>1. sub[g].status # "none" /\ sub' = [sub EXCEPT ![g].ended = TRUE] /\ UNCHANGED <<invoice, blCall, muddled, crossed>>
    BY DEF PeriodEnds
<1>2. sub[g] \in SubRow /\ sub[g].period \in Nat
    BY SubRowAt
<1>3. PICK row \in SubRow : row = [sub[g] EXCEPT !.ended = TRUE]
    BY <1>2 DEF SubRow
<1>4. row.cancel = sub[g].cancel /\ row.period = sub[g].period /\ row.status = sub[g].status
    BY <1>2, <1>3 DEF SubRow
<1>5. /\ sub' = [sub EXCEPT ![g] = row] /\ sub[g].period <= row.period /\ row.status # "none"
      /\ row.status = "CANCELLED" => row.cancel \/ g \in crossed'
    BY <1>1, <1>2, <1>3, <1>4, SubRowAt
<1>6. crossed \subseteq crossed' /\ crossed' \subseteq Tenancies
    BY <1>1 DEF BlInv, BlTyped
<1>7. /\ sub' \in [Tenancies -> SubRow] /\ \A h \in Tenancies : sub'[h].status = "none" => sub'[h].period = 1
      /\ \A p \in Tenancies \X SubRow :
           TrueRow(p) /\ (p[1] = g => g \in crossed' \/ row.cancel = sub[g].cancel) => TrueRow(p)'
      /\ BilledAsAgreed'
    BY <1>1, <1>5, <1>6, SubWritten
<1>8. \A x \in BlCalls : /\ Sweeping(x)' <=> Sweeping(x)
                         /\ SweptBy(x)' = SweptBy(x) /\ Hands(x)' = Hands(x) /\ Hands(x) \subseteq Tenancies \X SubRow
    BY <1>1, BlCallRow DEF Sweeping, SweptBy, Hands, Judging, BlAt
<1>9. InOneHand' /\ RowsHeld'
    BY <1>1, <1>4, <1>7, <1>8 DEF BlInv, InOneHand, RowsHeld, BlAt, Ends
<1>10. BlTyped' /\ BlInPlace'
    BY <1>1, <1>7 DEF BlInv, BlTyped, BlInPlace
<1>11. RenewedIsOver'
    <2>1. \A h \in Tenancies : sub'[h].period = sub[h].period
        BY <1>4, <1>5 DEF BlInv, BlTyped
    <2>2. \A h : Advancing(h)' <=> Advancing(h)
        BY <1>1 DEF Advancing, Sweeping, BlAt
    <2>3. \A x \in invoice : x.org \in Tenancies
        BY DEF BlInv, BlTyped, InvoiceRow
    <2> QED BY <1>1, <2>1, <2>2, <2>3 DEF BlInv, RenewedIsOver
<1> QED BY <1>7, <1>9, <1>10, <1>11 DEF BlInv

LEMMA BlInvInit == BlInit => BlInv
<1> SUFFICES ASSUME BlInit PROVE BlInv
    OBVIOUS
<1>1. \A c \in BlCalls : blCall[c].pc = "idle" /\ blCall[c].op = "renew"
    BY DEF BlInit, NoBlCall
<1>2. BlTyped
    BY NobodyInHand, FS_EmptySet DEF BlInit, BlTyped
<1>3. BlInPlace
    BY <1>1 DEF BlInit, BlInPlace, BlPlaces, BlPcs, NoSub
<1>4. \A c \in BlCalls : ~Sweeping(c)
    BY <1>1 DEF Sweeping
<1>5. InOneHand /\ RowsHeld
    BY <1>4 DEF InOneHand, RowsHeld
<1>6. RenewedIsOver /\ BilledAsAgreed
    BY DEF BlInit, RenewedIsOver, BilledAsAgreed, NoSub
<1> QED BY <1>2, <1>3, <1>5, <1>6 DEF BlInv

LEMMA BlInvStep == BlInv /\ [BlNext]_blVars => BlInv'
<1> SUFFICES ASSUME BlInv, [BlNext]_blVars PROVE BlInv'
    OBVIOUS
<1>1. CASE BlNext
    BY <1>1, AskBillingKeeps, SubscribeKeeps, CancelKeeps, CountInvoicesKeeps, CreateInvoiceKeeps, RenewDueKeeps,
       RenewNextKeeps, EndSubscriptionKeeps, BeginPeriodKeeps, BlCallDiesKeeps, PeriodEndsKeeps DEF BlNext
<1>2. CASE UNCHANGED blVars
    <2>1. BlTyped' /\ BlInPlace' /\ BilledAsAgreed'
        BY <1>2 DEF blVars, BlInv, BlTyped, BlInPlace, BilledAsAgreed
    <2>2. \A x \in BlCalls : (Sweeping(x)' <=> Sweeping(x)) /\ SweptBy(x)' = SweptBy(x) /\ Hands(x)' = Hands(x)
        BY <1>2 DEF blVars, Sweeping, SweptBy, Hands, Judging, BlAt
    <2>3. \A p : TrueRow(p) => TrueRow(p)'
        BY <1>2 DEF blVars, TrueRow
    <2>4. InOneHand' /\ RowsHeld'
        BY <1>2, <2>2, <2>3 DEF blVars, BlInv, InOneHand, RowsHeld, BlAt, Ends
    <2>5. RenewedIsOver'
        BY <1>2 DEF blVars, BlInv, RenewedIsOver, Advancing, Sweeping, BlAt
    <2> QED BY <2>1, <2>4, <2>5 DEF BlInv
<1> QED BY <1>1, <1>2

\* The joint invariant of billing, for any number of organizations and calls.
THEOREM BillingHolds == BlSpec => []BlInv
BY BlInvInit, BlInvStep, PTL DEF BlSpec

\* Subscriptions, invoices and what calls hold of them keep their types.
THEOREM BillingTypeCorrect == BlSpec => []BlTypeOK
<1>1. BlInv => BlTypeOK
    <2> SUFFICES ASSUME BlInv PROVE BlTypeOK
        OBVIOUS
    <2>1. BlTyped
        BY DEF BlInv
    <2>2. \A c \in BlCalls : blCall[c] \in BlRow
        BY <2>1 DEF BlTyped
    <2>3. \A x \in invoice : x \in InvoiceRow
        BY <2>1 DEF BlTyped
    <2>4. \A x \in invoice : x.org \in Tenancies /\ x.period \in Periods /\ x.number \in Nat
        BY <2>3 DEF InvoiceRow
    <2>5. \A c \in BlCalls : /\ blCall[c].pc \in BlPcs /\ blCall[c].op \in {"renew", "subscribe", "cancel", "invoice"}
                             /\ blCall[c].due \subseteq Tenancies \X SubRow /\ blCall[c].row \in SubRow
        BY <2>2 DEF BlRow
    <2> QED BY <2>1, <2>4, <2>5 DEF BlTypeOK, BlTyped, SubRow, BlPcs
<1> QED BY <1>1, BillingHolds, PTL

\* Organizations are billed as agreed, whatever sweeps die or overlap.
THEOREM AgreedIsBilled == BlSpec => []BilledAsAgreed
<1>1. BlInv => BilledAsAgreed
    BY DEF BlInv
<1> QED BY <1>1, BillingHolds, PTL

-----------------------------------------------------------------------------
(* The webhook dispatcher.                                                 *)

WhPcs == {"idle", "next", "read", "readEndpoint", "request", "delivered", "healthy", "failed", "unhealthy",
          "letter", "done", "aborted", "dead"}
WhCallRow == [pc : WhPcs, sweep : BOOLEAN, targets : SUBSET Endpoints, due : SUBSET Deliveries,
              d : Deliveries \union {0}, attempts : Nat, streak : Nat, inTry : BOOLEAN]
DeliveryRow == [status : {"none", "PENDING", "FAILED", "DELIVERED", "EXHAUSTED"},
                to : Endpoints, attempts : Nat, due : BOOLEAN, once : BOOLEAN]

\* A call attempts rows that exist, and the one it is at is no longer to come.
RowsExist ==
    /\ \A c \in WhCalls :
        /\ Attempting(c) => whCall[c].d \in Deliveries /\ whCall[c].d \notin whCall[c].due
        /\ \A d \in InHand(c) : d \in Deliveries /\ delivery[d].status # "none"
        /\ WhAt(c, "idle") => whCall[c].due = {}
    /\ \A d \in Deliveries : delivery[d].once => delivery[d].status # "none"

\* A delivery without an outcome is with a call that has still to record one, and
\* an exhausted one with the call that has still to write its dead letter.
Gone(d) == endpoint[delivery[d].to].removed
Undecided == {"read", "readEndpoint", "request", "delivered", "failed"}
ToRecord(c, d) == whCall[c].d = d /\ whCall[c].pc \in Undecided
ToBury(c, d) == whCall[c].d = d /\ whCall[c].pc \in {"unhealthy", "letter"} /\ OutOfRetries(c)
Held(d) ==
    /\ delivery[d].status = "PENDING" => Gone(d) \/ \E c \in WhCalls : ToRecord(c, d)
    /\ delivery[d].status = "EXHAUSTED" /\ d \notin letters => Gone(d) \/ \E c \in WhCalls : ToBury(c, d)

\* Two calls have the same delivery in hand only where that was noted.
Apart == \A c, x \in WhCalls : c # x => \A d \in InHand(c) \intersect InHand(x) : d \in contended

\* A delivery that was delivered is sent by nobody; what brings it back into the
\* hands of a call is that its endpoint is gone, and then it is not sent.
Over(d) ==
    /\ \A c \in WhCalls : whCall[c].d = d => whCall[c].pc \notin {"request", "delivered"}
    /\ \/ Gone(d)
       \/ /\ delivery[d].status = "DELIVERED"
          /\ \A c \in WhCalls : d \in InHand(c) => whCall[c].d = d /\ WhAt(c, "healthy")

WhInv ==
    /\ WhTypeOK /\ RowsExist /\ Apart
    /\ \A d \in Deliveries \ abandoned : Held(d)
    /\ \A d \in Deliveries \ contended : delivery[d].once => Over(d)
-----------------------------------------------------------------------------
LEMMA WhTypes ==
    ASSUME WhInv
    PROVE  /\ endpoint \in [Endpoints -> [removed : BOOLEAN, enabled : BOOLEAN, streak : Nat]]
           /\ delivery \in [Deliveries -> DeliveryRow] /\ whCall \in [WhCalls -> WhCallRow]
           /\ letters \subseteq Deliveries /\ abandoned \subseteq Deliveries /\ contended \subseteq Deliveries
BY DEF WhInv, WhTypeOK, DeliveryRow, WhCallRow, WhPcs

LEMMA WhOneCall ==
    ASSUME WhInv, NEW c \in WhCalls, NEW r \in WhCallRow, WhSet(c, r)
    PROVE  /\ whCall' \in [WhCalls -> WhCallRow] /\ whCall'[c] = r
           /\ \A x \in WhCalls \ {c} : whCall'[x] = whCall[x]
BY WhTypes DEF WhSet

LEMMA WhGoesOn ==
    ASSUME WhInv, NEW c \in WhCalls, NEW p \in WhPcs, WhGo(c, p)
    PROVE  LET m == whCall[c]  n == whCall'[c] IN
           /\ n \in WhCallRow /\ WhSet(c, n)
           /\ n.pc = p /\ n.d = m.d /\ n.due = m.due /\ n.attempts = m.attempts
<1>1. whCall[c] \in WhCallRow
    BY WhTypes
<1>2. [whCall[c] EXCEPT !.pc = p] \in WhCallRow
    BY <1>1 DEF WhCallRow
<1>3. whCall'[c] = [whCall[c] EXCEPT !.pc = p]
    BY <1>2, WhOneCall DEF WhGo
<1> QED BY <1>1, <1>2, <1>3 DEF WhGo, WhCallRow

\* A step of one call in which it writes no delivery and removes no endpoint.
EndpointRow == [removed : BOOLEAN, enabled : BOOLEAN, streak : Nat]
KeepsEndpoints ==
    endpoint' \in [Endpoints -> EndpointRow] /\ \A e \in Endpoints : endpoint'[e].removed = endpoint[e].removed

LEMMA WhMoves ==
    ASSUME WhInv, NEW c \in WhCalls, NEW r \in WhCallRow, WhSet(c, r), UNCHANGED delivery, KeepsEndpoints,
           letters \subseteq letters', letters' \subseteq Deliveries,
           abandoned \subseteq abandoned', abandoned' \subseteq Deliveries,
           contended \subseteq contended', contended' \subseteq Deliveries,
           Attempting(c)' => r.d \in Deliveries /\ r.d \notin r.due,
           r.pc # "idle",
           \A d \in InHand(c)' : \/ d \in InHand(c)
                                 \/ d \in Retryable /\ \A x \in WhCalls \ {c} : d \in InHand(x) => d \in contended',
           \A d \in Deliveries \ abandoned' : /\ ToRecord(c, d) => Gone(d) \/ ToRecord(c, d)'
                                              /\ ToBury(c, d) => Gone(d) \/ d \in letters' \/ ToBury(c, d)',
           \A d \in Deliveries \ contended' : delivery[d].once =>
                /\ r.d = d => r.pc \notin {"request", "delivered"}
                /\ Gone(d) \/ (d \in InHand(c)' => r.d = d /\ r.pc = "healthy")
    PROVE  WhInv'
<1>1. /\ whCall' \in [WhCalls -> WhCallRow] /\ whCall'[c] = r
      /\ \A x \in WhCalls \ {c} : whCall'[x] = whCall[x]
    BY WhOneCall
<1>2. \A x \in WhCalls \ {c} : InHand(x)' = InHand(x) /\ (Attempting(x)' <=> Attempting(x))
    BY <1>1 DEF InHand, Attempting
<1>3. WhTypeOK'
    BY <1>1 DEF WhInv, WhTypeOK, WhCallRow, WhPcs, KeepsEndpoints, EndpointRow
<1>9. \A d \in Deliveries : Gone(d)' <=> Gone(d)
    BY WhTypes DEF Gone, KeepsEndpoints, DeliveryRow
<1>4. RowsExist'
    <2>1. \A d \in InHand(c)' : d \in Deliveries /\ delivery[d].status # "none"
        BY DEF WhInv, RowsExist, Retryable
    <2> QED BY <1>1, <1>2, <2>1 DEF WhInv, RowsExist, WhAt
<1>5. Apart'
    BY <1>2 DEF WhInv, Apart
<1>6. ASSUME NEW d \in Deliveries \ abandoned' PROVE Held(d)'
    <2>1. Held(d) /\ (Gone(d)' <=> Gone(d))
        BY <1>9 DEF WhInv
    <2>2. \A x \in WhCalls : x # c => (ToRecord(x, d) => ToRecord(x, d)') /\ (ToBury(x, d) => ToBury(x, d)')
        BY <1>1 DEF ToRecord, ToBury, OutOfRetries
    <2> QED BY <2>1, <2>2 DEF Held
<1>7. ASSUME NEW d \in Deliveries \ contended', delivery[d].once PROVE Over(d)'
    <2>1. Over(d) /\ (Gone(d)' <=> Gone(d))
        BY <1>7, <1>9 DEF WhInv
    <2> QED BY <1>1, <1>2, <1>7, <2>1 DEF Over, WhAt
<1> QED BY <1>3, <1>4, <1>5, <1>6, <1>7 DEF WhInv

\* The call lets go of what it has in hand, or goes on with it.
LEMMA WhCarriesOn ==
    ASSUME WhInv, NEW c \in WhCalls, Attempting(c), NEW r \in WhCallRow, WhSet(c, r),
           UNCHANGED <<delivery, abandoned, contended>>, KeepsEndpoints,
           letters \subseteq letters', letters' \subseteq Deliveries,
           r.d = whCall[c].d, r.due = whCall[c].due, r.pc # "idle",
           ToRecord(c, r.d) => Gone(r.d) \/ ToRecord(c, r.d)',
           ToBury(c, r.d) => Gone(r.d) \/ r.d \in letters' \/ ToBury(c, r.d)',
           delivery[r.d].once =>
                \/ r.d \in contended
                \/ /\ r.pc \notin {"request", "delivered"}
                   /\ Gone(r.d) \/ r.pc \in {"next", "done", "aborted", "dead", "healthy"}
    PROVE  WhInv'
<1>1. whCall'[c] = r
    BY WhOneCall
<1>2. r.d \in Deliveries /\ r.d \notin r.due
    BY DEF WhInv, RowsExist
<1>3. \A d \in InHand(c)' : d \in InHand(c)
    BY <1>1 DEF InHand
<1>4. \A d : ToRecord(c, d) \/ ToBury(c, d) => d = r.d
    BY DEF ToRecord, ToBury
<1>5. ASSUME NEW d \in Deliveries \ contended', delivery[d].once
      PROVE  /\ r.d = d => r.pc \notin {"request", "delivered"}
             /\ Gone(d) \/ (d \in InHand(c)' => r.d = d /\ r.pc = "healthy")
    <2>1. Over(d)
        BY <1>5 DEF WhInv
    <2>2. CASE d = r.d
        BY <1>1, <1>2, <1>5, <2>2 DEF InHand, Attempting
    <2>3. CASE d # r.d
        BY <1>3, <2>1, <2>3 DEF Over
    <2> QED BY <2>2, <2>3
<1>6. \A d \in Deliveries \ abandoned' : /\ ToRecord(c, d) => Gone(d) \/ ToRecord(c, d)'
                                         /\ ToBury(c, d) => Gone(d) \/ d \in letters' \/ ToBury(c, d)'
    BY <1>4
<1> QED BY <1>1, <1>2, <1>3, <1>5, <1>6, WhMoves DEF WhInv, WhTypeOK

LEMMA WhHolding ==
    ASSUME WhInv, NEW c \in WhCalls, Attempting(c)
    PROVE  LET d == whCall[c].d IN
           /\ whCall[c] \in WhCallRow /\ d \in Deliveries /\ d \in InHand(c) /\ d \notin whCall[c].due
           /\ delivery[d] \in DeliveryRow /\ delivery[d].status # "none" /\ delivery[d].to \in Endpoints
           /\ endpoint[delivery[d].to] \in EndpointRow
           /\ d \notin contended /\ delivery[d].once => Over(d) /\ (Gone(d) \/ WhAt(c, "healthy"))
<1> DEFINE d == whCall[c].d
<1>1. whCall[c] \in WhCallRow /\ d \in Deliveries /\ d \in InHand(c) /\ d \notin whCall[c].due
    BY WhTypes DEF WhInv, RowsExist, InHand
<1>2. delivery[d] \in DeliveryRow /\ delivery[d].status # "none"
    BY <1>1, WhTypes DEF WhInv, RowsExist
<1>3. delivery[d].to \in Endpoints
    BY <1>2 DEF DeliveryRow
<1>4. endpoint[delivery[d].to] \in EndpointRow
    BY <1>3, WhTypes DEF EndpointRow
<1>5. d \notin contended /\ delivery[d].once => Over(d) /\ (Gone(d) \/ WhAt(c, "healthy"))
    BY <1>1 DEF WhInv, Over
<1> QED BY <1>1, <1>2, <1>3, <1>4, <1>5

LEMMA ReadDeliveryKeeps ==
    ASSUME WhInv, NEW c \in WhCalls, ReadDelivery(c) PROVE WhInv'
<1>1. WhAt(c, "read") /\ UNCHANGED <<endpoint, delivery, letters, abandoned, contended>>
    BY DEF ReadDelivery
<1>2. Attempting(c)
    BY <1>1 DEF Attempting, WhAt
<1>3. PICK n \in Nat : n = delivery[whCall[c].d].attempts + 1
    BY <1>2, WhHolding DEF DeliveryRow
<1>4. PICK r \in WhCallRow : r = [whCall[c] EXCEPT !.pc = "readEndpoint", !.attempts = n]
    BY <1>2, WhHolding DEF WhCallRow, WhPcs
<1>5. r.pc = "readEndpoint" /\ r.d = whCall[c].d /\ r.due = whCall[c].due
    BY <1>2, <1>4, WhHolding DEF WhCallRow
<1>6. WhSet(c, r)
    BY <1>3, <1>4 DEF ReadDelivery
<1>7. whCall'[c] = r
    BY <1>6, WhOneCall
<1>8. KeepsEndpoints /\ letters \subseteq letters' /\ letters' \subseteq Deliveries
    BY <1>1, WhTypes DEF KeepsEndpoints, EndpointRow
<1>9. ToRecord(c, r.d)' /\ ~ToBury(c, r.d)
    BY <1>1, <1>5, <1>7 DEF ToRecord, ToBury, Undecided, WhAt
<1> QED BY <1>1, <1>2, <1>5, <1>6, <1>8, <1>9, WhHolding, WhCarriesOn DEF WhAt

\* A step to another place in the attempt, or out of it, that leaves the rows.
LEMMA WhStepsTo ==
    ASSUME WhInv, NEW c \in WhCalls, Attempting(c), NEW r \in WhCallRow, WhSet(c, r),
           UNCHANGED <<endpoint, delivery, letters, abandoned, contended>>,
           r.d = whCall[c].d, r.due = whCall[c].due, r.pc # "idle",
           \/ Gone(r.d) /\ r.pc \notin {"request", "delivered"}
           \/ /\ whCall[c].pc \in Undecided /\ r.pc \in Undecided
              /\ delivery[r.d].once => r.d \in contended
    PROVE  WhInv'
<1>1. whCall'[c] = r
    BY WhOneCall
<1>2. KeepsEndpoints /\ letters \subseteq letters' /\ letters' \subseteq Deliveries
    BY WhTypes DEF KeepsEndpoints, EndpointRow
<1>3. \/ Gone(r.d) /\ r.pc \notin {"request", "delivered"}
      \/ /\ ToRecord(c, r.d)' /\ ~ToBury(c, r.d)
         /\ delivery[r.d].once => r.d \in contended
    BY <1>1 DEF ToRecord, ToBury, Undecided
<1> QED BY <1>2, <1>3, WhCarriesOn

LEMMA ReadEndpointKeeps ==
    ASSUME WhInv, NEW c \in WhCalls, ReadEndpoint(c) PROVE WhInv'
<1>1. WhAt(c, "readEndpoint") /\ UNCHANGED <<endpoint, delivery, letters, abandoned, contended>>
    BY DEF ReadEndpoint
<1>2. Attempting(c)
    BY <1>1 DEF Attempting, WhAt
<1>3. CASE Unfound(c) /\ Thrown(c)
    <2> DEFINE p == IF whCall[c].sweep THEN "aborted" ELSE "next"
    <2>1. p \in WhPcs /\ p \notin {"idle", "request", "delivered"} /\ WhGo(c, p)
        BY <1>3 DEF Thrown, WhPcs
    <2> HIDE DEF p
    <2>2. LET m == whCall[c]  n == whCall'[c] IN
          n \in WhCallRow /\ WhSet(c, n) /\ n.pc = p /\ n.d = m.d /\ n.due = m.due
        BY <2>1, WhGoesOn
    <2>3. Gone(whCall[c].d)
        BY <1>3 DEF Unfound, Gone, To
    <2> QED BY <1>1, <1>2, <2>1, <2>2, <2>3, WhStepsTo
<1>4. CASE ~Unfound(c) /\ WhSet(c, [whCall[c] EXCEPT !.pc = "request", !.streak = endpoint[To(c)].streak])
    <2> DEFINE k == endpoint[To(c)].streak
               r == [whCall[c] EXCEPT !.pc = "request", !.streak = k]
    <2>1. k \in Nat
        BY <1>2, WhHolding DEF To, EndpointRow
    <2>2. WhSet(c, r)
        BY <1>4
    <2> HIDE DEF k
    <2>3. r \in WhCallRow /\ r.pc = "request" /\ r.d = whCall[c].d /\ r.due = whCall[c].due
        BY <1>2, <2>1, WhHolding DEF WhCallRow, WhPcs
    <2> HIDE DEF r
    <2>4. delivery[r.d].once => r.d \in contended
        BY <1>1, <1>2, <1>4, <2>3, WhHolding DEF Unfound, Gone, To, WhAt
    <2> QED BY <1>1, <1>2, <2>2, <2>3, <2>4, WhStepsTo DEF Undecided, WhAt
<1> QED BY <1>3, <1>4 DEF ReadEndpoint

LEMMA PostKeeps ==
    ASSUME WhInv, NEW c \in WhCalls, Post(c) PROVE WhInv'
<1>1. WhAt(c, "request") /\ UNCHANGED <<endpoint, delivery, letters, abandoned, contended>>
    BY DEF Post
<1>2. Attempting(c)
    BY <1>1 DEF Attempting, WhAt
<1>3. delivery[whCall[c].d].once => whCall[c].d \in contended
    BY <1>1, <1>2, WhHolding DEF Over, WhAt
<1>4. CASE WhGo(c, "delivered")
    <2>1. "delivered" \in WhPcs
        BY DEF WhPcs
    <2>2. LET m == whCall[c]  n == whCall'[c] IN
          n \in WhCallRow /\ WhSet(c, n) /\ n.pc = "delivered" /\ n.d = m.d /\ n.due = m.due
        BY <1>4, <2>1, WhGoesOn
    <2> QED BY <1>1, <1>2, <1>3, <2>2, WhStepsTo DEF Undecided, WhAt
<1>5. ASSUME NEW answered \in BOOLEAN, WhSet(c, [whCall[c] EXCEPT !.pc = "failed", !.inTry = answered])
      PROVE  WhInv'
    <2> DEFINE r == [whCall[c] EXCEPT !.pc = "failed", !.inTry = answered]
    <2>1. r \in WhCallRow /\ r.pc = "failed" /\ r.d = whCall[c].d /\ r.due = whCall[c].due
        BY <1>2, WhHolding DEF WhCallRow, WhPcs
    <2> QED BY <1>1, <1>2, <1>3, <1>5, <2>1, WhStepsTo DEF Undecided, WhAt
<1> QED BY <1>4, <1>5 DEF Post

\* The catch records a failure (once more) when the endpoint is gone.
LEMMA CaughtGone ==
    ASSUME WhInv, NEW c \in WhCalls, Attempting(c), endpoint[To(c)].removed,
           UNCHANGED <<endpoint, delivery, letters, abandoned, contended>>,
           WhSet(c, [whCall[c] EXCEPT !.pc = "failed", !.inTry = FALSE])
    PROVE  WhInv'
<1> DEFINE r == [whCall[c] EXCEPT !.pc = "failed", !.inTry = FALSE]
<1>1. r \in WhCallRow /\ r.pc = "failed" /\ r.d = whCall[c].d /\ r.due = whCall[c].due
    BY WhHolding DEF WhCallRow, WhPcs
<1>2. Gone(r.d)
    BY <1>1 DEF Gone, To
<1> QED BY <1>1, <1>2, WhStepsTo

LEMMA RecordHealthyKeeps ==
    ASSUME WhInv, NEW c \in WhCalls, RecordHealthy(c) PROVE WhInv'
<1>1. WhAt(c, "healthy") /\ UNCHANGED <<delivery, letters, abandoned, contended>>
    BY DEF RecordHealthy
<1>2. Attempting(c)
    BY <1>1 DEF Attempting, WhAt
<1>3. CASE /\ endpoint[To(c)].removed /\ UNCHANGED endpoint
           /\ WhSet(c, [whCall[c] EXCEPT !.pc = "failed", !.inTry = FALSE])
    BY <1>1, <1>2, <1>3, CaughtGone
<1>4. CASE /\ ~endpoint[To(c)].removed /\ endpoint' = [endpoint EXCEPT ![To(c)].streak = 0]
           /\ WhGo(c, "next")
    <2>1. "next" \in WhPcs
        BY DEF WhPcs
    <2>2. LET m == whCall[c]  n == whCall'[c] IN
          n \in WhCallRow /\ WhSet(c, n) /\ n.pc = "next" /\ n.d = m.d /\ n.due = m.due
        BY <1>4, <2>1, WhGoesOn
    <2>3. KeepsEndpoints
        BY <1>2, <1>4, WhHolding, WhTypes DEF KeepsEndpoints, EndpointRow, To
    <2>4. ~ToRecord(c, whCall[c].d) /\ ~ToBury(c, whCall[c].d)
        BY <1>1 DEF ToRecord, ToBury, Undecided, WhAt
    <2> QED BY <1>1, <1>2, <2>2, <2>3, <2>4, WhTypes, WhCarriesOn
<1> QED BY <1>3, <1>4 DEF RecordHealthy

LEMMA RecordUnhealthyKeeps ==
    ASSUME WhInv, NEW c \in WhCalls, RecordUnhealthy(c) PROVE WhInv'
<1> DEFINE k == whCall[c].streak + 1
<1>1. WhAt(c, "unhealthy") /\ UNCHANGED <<delivery, letters, abandoned, contended>>
    BY DEF RecordUnhealthy
<1>2. Attempting(c)
    BY <1>1 DEF Attempting, WhAt
<1>3. k \in Nat
    BY <1>2, WhHolding DEF WhCallRow
<1>4. CASE /\ ~endpoint[To(c)].removed /\ WhGo(c, AfterUnhealthy(c))
           /\ endpoint' = [endpoint EXCEPT ![To(c)] =
                 [@ EXCEPT !.streak = k, !.enabled = endpoint[To(c)].enabled /\ k < MAX_STREAK]]
    <2> DEFINE p == AfterUnhealthy(c)
               e == To(c)
               row == [endpoint[e] EXCEPT !.streak = k, !.enabled = endpoint[e].enabled /\ k < MAX_STREAK]
    <2>1. p \in WhPcs /\ p \in {"letter", "next"} /\ (OutOfRetries(c) => p = "letter")
        BY DEF WhPcs, AfterUnhealthy
    <2> HIDE DEF p
    <2>2. LET m == whCall[c]  n == whCall'[c] IN
          /\ n \in WhCallRow /\ WhSet(c, n) /\ n.pc = p
          /\ n.d = m.d /\ n.due = m.due /\ n.attempts = m.attempts
        BY <1>4, <2>1, WhGoesOn DEF p
    <2>3. e \in Endpoints /\ endpoint[e] \in EndpointRow
        BY <1>2, WhHolding DEF To
    <2>10. endpoint' = [endpoint EXCEPT ![e] = row]
        BY <1>4
    <2>4. row \in EndpointRow /\ row.removed = endpoint[e].removed
        BY <1>3, <2>3 DEF EndpointRow
    <2> HIDE DEF row, e, k
    <2>5. KeepsEndpoints
        BY <2>3, <2>4, <2>10, WhTypes DEF KeepsEndpoints, EndpointRow
    <2>6. ToBury(c, whCall[c].d) => ToBury(c, whCall[c].d)'
        BY <2>1, <2>2 DEF ToBury, OutOfRetries
    <2>7. ~ToRecord(c, whCall[c].d) /\ p \notin {"request", "delivered", "idle"}
        BY <1>1, <2>1 DEF ToRecord, Undecided, WhAt
    <2>8. delivery[whCall[c].d].once => whCall[c].d \in contended \/ Gone(whCall[c].d)
        BY <1>1, <1>2, WhHolding DEF WhAt
    <2>9. ToBury(c, whCall'[c].d) => ToBury(c, whCall[c].d)'
        BY <2>2, <2>6
    <2> QED BY <1>1, <1>2, <2>2, <2>5, <2>7, <2>8, <2>9, WhTypes, WhCarriesOn
<1>5. CASE endpoint[To(c)].removed /\ UNCHANGED endpoint /\ WhSet(c, [whCall[c] EXCEPT !.pc = "failed", !.inTry = FALSE])
    BY <1>1, <1>2, <1>5, CaughtGone
<1>6. CASE endpoint[To(c)].removed /\ UNCHANGED endpoint /\ Thrown(c)
    <2> DEFINE p == IF whCall[c].sweep THEN "aborted" ELSE "next"
    <2>1. p \in WhPcs /\ p \notin {"idle", "request", "delivered"} /\ WhGo(c, p)
        BY <1>6 DEF Thrown, WhPcs
    <2> HIDE DEF p
    <2>2. LET m == whCall[c]  n == whCall'[c] IN
          n \in WhCallRow /\ WhSet(c, n) /\ n.pc = p /\ n.d = m.d /\ n.due = m.due
        BY <2>1, WhGoesOn
    <2>3. Gone(whCall[c].d)
        BY <1>6 DEF Gone, To
    <2> QED BY <1>1, <1>2, <1>6, <2>1, <2>2, <2>3, WhStepsTo
<1> QED BY <1>4, <1>5, <1>6 DEF RecordUnhealthy

LEMMA RecordLetterKeeps ==
    ASSUME WhInv, NEW c \in WhCalls, RecordLetter(c) PROVE WhInv'
<1>1. WhAt(c, "letter") /\ WhGo(c, "next") /\ UNCHANGED <<endpoint, delivery, abandoned, contended>>
          /\ letters' = letters \union {whCall[c].d}
    BY DEF RecordLetter
<1>2. Attempting(c)
    BY <1>1 DEF Attempting, WhAt
<1>3. "next" \in WhPcs
    BY DEF WhPcs
<1>4. LET m == whCall[c]  n == whCall'[c] IN
      n \in WhCallRow /\ WhSet(c, n) /\ n.pc = "next" /\ n.d = m.d /\ n.due = m.due
    BY <1>1, <1>3, WhGoesOn
<1>5. KeepsEndpoints /\ letters' \subseteq Deliveries /\ letters \subseteq letters'
    BY <1>1, <1>2, WhHolding, WhTypes DEF KeepsEndpoints, EndpointRow
<1>6. ~ToRecord(c, whCall[c].d) /\ whCall[c].d \in letters'
    BY <1>1 DEF ToRecord, Undecided, WhAt
<1>7. delivery[whCall[c].d].once => whCall[c].d \in contended \/ Gone(whCall[c].d)
    BY <1>1, <1>2, WhHolding DEF WhAt
<1> QED BY <1>1, <1>2, <1>4, <1>5, <1>6, <1>7, WhCarriesOn

-----------------------------------------------------------------------------
(* Calls that come and go                                                   *)

\* A call that is about no delivery now.
LEMMA Unattempting ==
    ASSUME NEW c \in WhCalls, whCall[c].pc \in {"idle", "next"}
    PROVE  ~Attempting(c) /\ InHand(c) = whCall[c].due /\ \A d : ~ToRecord(c, d) /\ ~ToBury(c, d)
BY DEF Attempting, InHand, ToRecord, ToBury, Undecided

LEMMA FanOutKeeps ==
    ASSUME WhInv, NEW c \in WhCalls, FanOut(c) PROVE WhInv'
<1> DEFINE T == {e \in Endpoints : ~endpoint[e].removed /\ endpoint[e].enabled}
<1>1. WhAt(c, "idle") /\ UNCHANGED <<endpoint, delivery, letters, abandoned, contended>>
    BY DEF FanOut, Starts
<1>2. PICK r \in WhCallRow : r = [NoCall EXCEPT !.pc = "next", !.targets = T]
    BY DEF NoCall, WhCallRow, WhPcs
<1>3. r.pc = "next" /\ r.due = {} /\ r.d = 0
    BY <1>2 DEF NoCall
<1>4. WhSet(c, r)
    BY <1>2 DEF FanOut
<1>5. whCall'[c] = r
    BY <1>4, WhOneCall
<1>6. ~Attempting(c)' /\ InHand(c)' = {}
    BY <1>3, <1>5 DEF Attempting, InHand
<1>7. \A d : ~ToRecord(c, d) /\ ~ToBury(c, d)
    BY <1>1, Unattempting DEF WhAt
<1>8. KeepsEndpoints
    BY <1>1, WhTypes DEF KeepsEndpoints, EndpointRow
<1> QED BY <1>1, <1>3, <1>4, <1>6, <1>7, <1>8, WhTypes, WhMoves

LEMMA SweepKeeps ==
    ASSUME WhInv, NEW c \in WhCalls, Sweep(c) PROVE WhInv'
<1>1. WhAt(c, "idle") /\ UNCHANGED <<endpoint, delivery, letters, abandoned>>
          /\ contended' = contended \union UNION {InHand(x) \intersect Retryable : x \in WhCalls}
    BY DEF Sweep, Starts
<1>2. Retryable \in SUBSET Deliveries
    BY DEF Retryable
<1>3. PICK r \in WhCallRow : r = [NoCall EXCEPT !.pc = "next", !.sweep = TRUE, !.due = Retryable]
    BY <1>2 DEF NoCall, WhCallRow, WhPcs
<1>4. r.pc = "next" /\ r.due = Retryable /\ r.d = 0
    BY <1>3 DEF NoCall
<1>5. WhSet(c, r)
    BY <1>3 DEF Sweep
<1>6. whCall'[c] = r
    BY <1>5, WhOneCall
<1>7. ~Attempting(c)' /\ InHand(c)' = Retryable
    BY <1>4, <1>6 DEF Attempting, InHand
<1>8. \A d : ~ToRecord(c, d) /\ ~ToBury(c, d)
    BY <1>1, Unattempting DEF WhAt
<1>9. KeepsEndpoints
    BY <1>1, WhTypes DEF KeepsEndpoints, EndpointRow
<1>10. contended \subseteq contended' /\ contended' \subseteq Deliveries
    BY <1>1, <1>2, WhTypes
<1>11. \A d \in Retryable : \A x \in WhCalls : d \in InHand(x) => d \in contended'
    BY <1>1
<1>12. \A d \in Deliveries \ contended' : delivery[d].once => Gone(d) \/ d \notin Retryable
    BY <1>10 DEF WhInv, Over, Retryable
<1> QED BY <1>1, <1>4, <1>5, <1>7, <1>8, <1>9, <1>10, <1>11, <1>12, WhTypes, WhMoves

LEMMA SweepNextKeeps ==
    ASSUME WhInv, NEW c \in WhCalls, SweepNext(c) PROVE WhInv'
<1>1. WhAt(c, "next") /\ UNCHANGED <<endpoint, delivery, letters, abandoned, contended>>
    BY DEF SweepNext
<1>2. PICK d \in whCall[c].due : WhSet(c, [whCall[c] EXCEPT !.pc = "read", !.due = whCall[c].due \ {d}, !.d = d])
    BY DEF SweepNext
<1>3. whCall[c] \in WhCallRow /\ d \in Deliveries
    BY WhTypes DEF WhCallRow
<1>4. PICK D \in SUBSET Deliveries : D = whCall[c].due \ {d}
    BY <1>3 DEF WhCallRow
<1>5. PICK r \in WhCallRow : r = [whCall[c] EXCEPT !.pc = "read", !.due = D, !.d = d]
    BY <1>3 DEF WhCallRow, WhPcs
<1>6. r.pc = "read" /\ r.due = D /\ r.d = d
    BY <1>3, <1>5 DEF WhCallRow
<1>7. WhSet(c, r)
    BY <1>2, <1>4, <1>5
<1>8. whCall'[c] = r
    BY <1>7, WhOneCall
<1>9. InHand(c) = whCall[c].due /\ \A x : ~ToRecord(c, x) /\ ~ToBury(c, x)
    BY <1>1, Unattempting DEF WhAt
<1>10. \A x \in InHand(c)' : x \in InHand(c)
    BY <1>4, <1>6, <1>8, <1>9 DEF InHand
<1>11. \A x \in Deliveries \ contended : delivery[x].once => Gone(x) \/ x \notin InHand(c)
    BY <1>1 DEF WhInv, Over, WhAt
<1>12. KeepsEndpoints
    BY <1>1, WhTypes DEF KeepsEndpoints, EndpointRow
<1> QED BY <1>1, <1>3, <1>4, <1>6, <1>7, <1>9, <1>10, <1>11, <1>12, WhTypes, WhMoves

\* A call that ends, of itself or with its process.
LEMMA WhEnds ==
    ASSUME WhInv, NEW c \in WhCalls, NEW p \in {"done", "dead"}, WhGo(c, p),
           UNCHANGED <<endpoint, delivery, letters, contended>>, abandoned \subseteq abandoned', abandoned' \subseteq Deliveries,
           Attempting(c) => whCall[c].d \in abandoned'
    PROVE  WhInv'
<1>1. p \in WhPcs
    BY DEF WhPcs
<1>2. LET m == whCall[c]  n == whCall'[c] IN
      n \in WhCallRow /\ WhSet(c, n) /\ n.pc = p /\ n.d = m.d /\ n.due = m.due
    BY <1>1, WhGoesOn
<1>3. ~Attempting(c)' /\ \A x \in InHand(c)' : x \in whCall[c].due
    BY <1>2 DEF Attempting, InHand
<1>4. \A d \in whCall[c].due : d \in InHand(c) /\ (Attempting(c) => d # whCall[c].d)
    BY DEF InHand, WhInv, RowsExist
<1>5. \A d \in Deliveries \ abandoned' : ~ToRecord(c, d) /\ ~ToBury(c, d)
    BY DEF ToRecord, ToBury, Undecided, Attempting
<1>6. \A d \in Deliveries \ contended : delivery[d].once => Gone(d) \/ d \notin whCall[c].due
    <2> SUFFICES ASSUME NEW d \in Deliveries \ contended, delivery[d].once, ~Gone(d), d \in whCall[c].due
                 PROVE  FALSE
        OBVIOUS
    <2>1. whCall[c].d = d /\ WhAt(c, "healthy")
        BY <1>4 DEF WhInv, Over
    <2> QED BY <1>4, <2>1 DEF Attempting, WhAt
<1>7. KeepsEndpoints
    BY WhTypes DEF KeepsEndpoints, EndpointRow
<1>8. WhTypeOK
    BY DEF WhInv
<1> QED BY <1>2, <1>3, <1>4, <1>5, <1>6, <1>7, WhTypes, WhMoves

LEMMA WhFinishKeeps ==
    ASSUME WhInv, NEW c \in WhCalls, WhFinish(c) PROVE WhInv'
BY WhEnds, WhTypes DEF WhFinish, WhAt, Attempting

LEMMA CallDiesKeeps ==
    ASSUME WhInv, NEW c \in WhCalls, CallDies(c) PROVE WhInv'
<1>1. Attempting(c) => whCall[c].d \in Deliveries
    BY DEF WhInv, RowsExist
<1>2. abandoned \subseteq abandoned' /\ abandoned' \subseteq Deliveries /\ (Attempting(c) => whCall[c].d \in abandoned')
    BY <1>1, WhTypes DEF CallDies
<1> QED BY <1>2, WhEnds DEF CallDies

-----------------------------------------------------------------------------
(* Steps that write deliveries                                              *)

LEMMA EnqueueKeeps ==
    ASSUME WhInv, NEW c \in WhCalls, Enqueue(c) PROVE WhInv'
<1>1. WhAt(c, "next") /\ UNCHANGED <<endpoint, letters, abandoned, contended>>
    BY DEF Enqueue
<1>2. PICK e \in whCall[c].targets, d \in Deliveries :
          /\ delivery[d].status = "none"
          /\ delivery' = [delivery EXCEPT ![d] = [delivery[d] EXCEPT !.status = "PENDING", !.to = e]]
          /\ WhSet(c, [whCall[c] EXCEPT !.pc = "read", !.targets = whCall[c].targets \ {e}, !.d = d])
    BY DEF Enqueue
<1>3. whCall[c] \in WhCallRow /\ e \in Endpoints /\ delivery[d] \in DeliveryRow
    BY WhTypes DEF WhCallRow
<1>4. PICK T \in SUBSET Endpoints : T = whCall[c].targets \ {e}
    BY <1>3 DEF WhCallRow
<1>5. PICK r \in WhCallRow : r = [whCall[c] EXCEPT !.pc = "read", !.targets = T, !.d = d]
    BY <1>3 DEF WhCallRow, WhPcs
<1>6. r.pc = "read" /\ r.due = whCall[c].due /\ r.d = d
    BY <1>3, <1>5 DEF WhCallRow
<1>7. WhSet(c, r)
    BY <1>2, <1>4, <1>5
<1>8. /\ whCall' \in [WhCalls -> WhCallRow] /\ whCall'[c] = r
      /\ \A x \in WhCalls \ {c} : whCall'[x] = whCall[x]
    BY <1>7, WhOneCall
<1>9. PICK row \in DeliveryRow : row = [delivery[d] EXCEPT !.status = "PENDING", !.to = e]
    BY <1>3 DEF DeliveryRow
<1>10. row.status = "PENDING" /\ row.once = delivery[d].once
    BY <1>3, <1>9 DEF DeliveryRow
<1>11. /\ delivery' \in [Deliveries -> DeliveryRow] /\ delivery'[d] = row
       /\ \A x \in Deliveries \ {d} : delivery'[x] = delivery[x]
    BY <1>2, <1>9, WhTypes
<1>12. ~delivery[d].once /\ \A x \in WhCalls : d \notin InHand(x)
    BY <1>2 DEF WhInv, RowsExist
<1>13. InHand(c) = whCall[c].due /\ \A x : ~ToRecord(c, x) /\ ~ToBury(c, x)
    BY <1>1, Unattempting DEF WhAt
<1>14. InHand(c)' = InHand(c) \union {d}
    BY <1>6, <1>8, <1>13 DEF InHand, Attempting
<1>15. \A x \in WhCalls \ {c} : InHand(x)' = InHand(x) /\ (Attempting(x)' <=> Attempting(x))
    BY <1>8 DEF InHand, Attempting
<1>16. WhTypeOK'
    BY <1>1, <1>8, <1>11 DEF WhInv, WhTypeOK, WhCallRow, WhPcs, DeliveryRow
<1>17. RowsExist'
    <2>1. \A x \in WhCalls : \A y \in InHand(x)' : y \in Deliveries /\ delivery'[y].status # "none"
        BY <1>10, <1>11, <1>14, <1>15 DEF WhInv, RowsExist
    <2>2. d \notin r.due
        BY <1>6, <1>12, <1>13
    <2>3. \A x \in WhCalls \ {c} : /\ Attempting(x)' => whCall'[x].d \in Deliveries /\ whCall'[x].d \notin whCall'[x].due
                                   /\ WhAt(x, "idle")' => whCall'[x].due = {}
        BY <1>8, <1>15 DEF WhInv, RowsExist, WhAt
    <2>4. \A y \in Deliveries : delivery'[y].once => delivery'[y].status # "none"
        BY <1>10, <1>11 DEF WhInv, RowsExist
    <2> QED BY <1>6, <1>8, <2>1, <2>2, <2>3, <2>4 DEF RowsExist, WhAt
<1>18. Apart'
    BY <1>1, <1>12, <1>14, <1>15 DEF WhInv, Apart
<1>19. ASSUME NEW x \in Deliveries \ abandoned' PROVE Held(x)'
    <2>1. CASE x = d
        BY <1>6, <1>8, <1>10, <1>11, <2>1 DEF Held, ToRecord, Undecided
    <2>2. CASE x # d
        <3>1. Held(x) /\ (Gone(x)' <=> Gone(x)) /\ delivery'[x] = delivery[x]
            BY <1>1, <1>11, <2>2 DEF WhInv, Gone
        <3>2. \A y \in WhCalls : (ToRecord(y, x) => ToRecord(y, x)') /\ (ToBury(y, x) => ToBury(y, x)')
            BY <1>8, <1>13 DEF ToRecord, ToBury, OutOfRetries
        <3> QED BY <1>1, <3>1, <3>2 DEF Held
    <2> QED BY <2>1, <2>2
<1>20. ASSUME NEW x \in Deliveries \ contended', delivery'[x].once PROVE Over(x)'
    <2>1. x # d /\ delivery'[x] = delivery[x]
        BY <1>10, <1>11, <1>12, <1>20
    <2>2. Over(x) /\ (Gone(x)' <=> Gone(x))
        BY <1>1, <1>20, <2>1 DEF WhInv, Gone
    <2>3. \A y \in WhCalls : (x \in InHand(y)' => (x \in InHand(y) /\ y # c) \/ Gone(x))
        BY <1>1, <1>14, <1>15, <2>1, <2>2 DEF Over, WhAt
    <2> QED BY <1>6, <1>8, <2>1, <2>2, <2>3 DEF Over, WhAt
<1> QED BY <1>16, <1>17, <1>18, <1>19, <1>20 DEF WhInv

\* The outcome of an attempt is written, and the call goes on.
LEMMA OutcomeWritten ==
    ASSUME WhInv, NEW c \in WhCalls, Attempting(c), NEW d, d = whCall[c].d, NEW row \in DeliveryRow,
           NEW p \in {"healthy", "unhealthy"}, WhGo(c, p),
           delivery' = [delivery EXCEPT ![d] = row], row.to = delivery[d].to,
           row.status \in {"DELIVERED", "FAILED", "EXHAUSTED"},
           row.status = "EXHAUSTED" => OutOfRetries(c) /\ p = "unhealthy",
           row.once /\ d \notin contended =>
                Gone(d) \/ (row.status = "DELIVERED" /\ p = "healthy"),
           UNCHANGED <<endpoint, letters, abandoned, contended>>
    PROVE  WhInv'
<1>1. p \in WhPcs
    BY DEF WhPcs
<1>2. LET m == whCall[c]  n == whCall'[c] IN
      /\ n \in WhCallRow /\ WhSet(c, n) /\ n.pc = p
      /\ n.d = m.d /\ n.due = m.due /\ n.attempts = m.attempts
    BY <1>1, WhGoesOn
<1>3. /\ whCall' \in [WhCalls -> WhCallRow] /\ \A x \in WhCalls \ {c} : whCall'[x] = whCall[x]
    BY <1>2, WhOneCall
<1>4. d \in Deliveries /\ d \in InHand(c) /\ d \notin whCall[c].due
    BY WhHolding
<1>5. /\ delivery' \in [Deliveries -> DeliveryRow] /\ delivery'[d] = row
      /\ \A x \in Deliveries \ {d} : delivery'[x] = delivery[x]
    BY <1>4, WhTypes
<1>6. \A x \in WhCalls : InHand(x)' = InHand(x) /\ (Attempting(x)' <=> Attempting(x))
    BY <1>2, <1>3 DEF InHand, Attempting
<1>7. \A x \in Deliveries : Gone(x)' <=> Gone(x)
    BY <1>5 DEF Gone
<1>8. WhTypeOK'
    BY <1>3, <1>5 DEF WhInv, WhTypeOK, WhCallRow, WhPcs, DeliveryRow
<1>9. RowsExist'
    <2>1. \A y \in Deliveries : delivery[y].status # "none" => delivery'[y].status # "none"
        BY <1>5
    <2>2. \A y \in Deliveries : delivery'[y].once => delivery'[y].status # "none"
        BY <1>5 DEF WhInv, RowsExist
    <2> QED BY <1>2, <1>3, <1>6, <2>1, <2>2 DEF WhInv, RowsExist, WhAt
<1>10. Apart'
    BY <1>6 DEF WhInv, Apart
<1>11. ASSUME NEW x \in Deliveries \ abandoned' PROVE Held(x)'
    <2>1. CASE x = d
        BY <1>2, <1>5, <2>1 DEF Held, ToBury, OutOfRetries
    <2>2. CASE x # d
        <3>1. Held(x) /\ delivery'[x] = delivery[x]
            BY <1>5, <2>2 DEF WhInv
        <3>2. \A y \in WhCalls : (ToRecord(y, x) => ToRecord(y, x)') /\ (ToBury(y, x) => ToBury(y, x)')
            BY <1>2, <1>3, <2>2 DEF ToRecord, ToBury, OutOfRetries
        <3> QED BY <1>7, <3>1, <3>2 DEF Held
    <2> QED BY <2>1, <2>2
<1>12. ASSUME NEW x \in Deliveries \ contended', delivery'[x].once PROVE Over(x)'
    <2>1. CASE x = d
        <3>1. \A y \in WhCalls \ {c} : x \notin InHand(y)
            BY <1>4, <1>12, <2>1 DEF WhInv, Apart
        <3>2. \A y \in WhCalls \ {c} : whCall[y].d = x => ~Attempting(y)
            BY <3>1 DEF InHand
        <3>3. \A y \in WhCalls : whCall'[y].d = x => whCall'[y].pc \notin {"request", "delivered"}
            BY <1>2, <1>3, <3>2 DEF Attempting
        <3>4. Gone(x)' \/ (row.status = "DELIVERED" /\ p = "healthy")
            BY <1>4, <1>5, <1>7, <1>12, <2>1
        <3>5. \A y \in WhCalls : x \in InHand(y)' => y = c
            BY <1>6, <3>1
        <3> QED BY <1>2, <1>5, <2>1, <3>3, <3>4, <3>5 DEF Over, WhAt
    <2>2. CASE x # d
        <3>1. Over(x) /\ delivery'[x] = delivery[x]
            BY <1>5, <1>12, <2>2 DEF WhInv
        <3> QED BY <1>2, <1>3, <1>6, <1>7, <2>2, <3>1 DEF Over, WhAt
    <2> QED BY <2>1, <2>2
<1> QED BY <1>8, <1>9, <1>10, <1>11, <1>12 DEF WhInv

LEMMA RecordDeliveredKeeps ==
    ASSUME WhInv, NEW c \in WhCalls, RecordDelivered(c) PROVE WhInv'
<1>1. WhAt(c, "delivered") /\ WhGo(c, "healthy") /\ UNCHANGED <<endpoint, letters, abandoned, contended>>
    BY DEF RecordDelivered
<1>2. Attempting(c)
    BY <1>1 DEF Attempting, WhAt
<1>3. PICK d \in Deliveries : d = whCall[c].d /\ delivery[d] \in DeliveryRow
    BY <1>2, WhHolding
<1>4. whCall[c].attempts \in Nat
    BY <1>2, WhHolding DEF WhCallRow
<1>5. PICK row \in DeliveryRow : row = [delivery[d] EXCEPT !.status = "DELIVERED", !.attempts = whCall[c].attempts,
                                                           !.due = FALSE, !.once = TRUE]
    BY <1>3, <1>4 DEF DeliveryRow
<1>6. row.status = "DELIVERED" /\ row.to = delivery[d].to
    BY <1>3, <1>5 DEF DeliveryRow
<1>7. delivery' = [delivery EXCEPT ![d] = row]
    BY <1>3, <1>5 DEF RecordDelivered
<1> QED BY <1>1, <1>2, <1>3, <1>6, <1>7, OutcomeWritten

LEMMA RecordFailedKeeps ==
    ASSUME WhInv, NEW c \in WhCalls, RecordFailed(c) PROVE WhInv'
<1>1. WhAt(c, "failed") /\ WhGo(c, "unhealthy") /\ UNCHANGED <<endpoint, letters, abandoned, contended>>
    BY DEF RecordFailed
<1>2. Attempting(c)
    BY <1>1 DEF Attempting, WhAt
<1>3. PICK d \in Deliveries : d = whCall[c].d /\ delivery[d] \in DeliveryRow
    BY <1>2, WhHolding
<1>4. whCall[c].attempts \in Nat
    BY <1>2, WhHolding DEF WhCallRow
<1>5. PICK s \in {"EXHAUSTED", "FAILED"} : s = IF OutOfRetries(c) THEN "EXHAUSTED" ELSE "FAILED"
    OBVIOUS
<1>6. PICK row \in DeliveryRow : row = [delivery[d] EXCEPT !.status = s, !.attempts = whCall[c].attempts, !.due = FALSE]
    BY <1>3, <1>4 DEF DeliveryRow
<1>7. row.status = s /\ row.to = delivery[d].to /\ row.once = delivery[d].once
    BY <1>3, <1>6 DEF DeliveryRow
<1>8. delivery' = [delivery EXCEPT ![d] = row]
    BY <1>3, <1>5, <1>6 DEF RecordFailed
<1>9. row.once /\ d \notin contended => Gone(d)
    BY <1>1, <1>2, <1>3, <1>7, WhHolding DEF WhAt
<1> QED BY <1>1, <1>2, <1>3, <1>5, <1>7, <1>8, <1>9, OutcomeWritten

LEMMA BackoffElapsesKeeps ==
    ASSUME WhInv, NEW d \in Deliveries, BackoffElapses(d) PROVE WhInv'
<1>1. UNCHANGED <<endpoint, letters, whCall, abandoned, contended>> /\ delivery[d] \in DeliveryRow
    BY WhTypes DEF BackoffElapses
<1>2. PICK row \in DeliveryRow : row = [delivery[d] EXCEPT !.due = TRUE]
    BY <1>1 DEF DeliveryRow
<1>3. row.status = delivery[d].status /\ row.to = delivery[d].to /\ row.once = delivery[d].once
    BY <1>1, <1>2 DEF DeliveryRow
<1>4. delivery' = [delivery EXCEPT ![d] = row]
    BY <1>2 DEF BackoffElapses
<1>5. /\ delivery' \in [Deliveries -> DeliveryRow]
      /\ \A x \in Deliveries : /\ delivery'[x].status = delivery[x].status /\ delivery'[x].to = delivery[x].to
                               /\ delivery'[x].once = delivery[x].once
    BY <1>3, <1>4, WhTypes
<1>6. \A x \in WhCalls : InHand(x)' = InHand(x) /\ (Attempting(x)' <=> Attempting(x))
    BY <1>1 DEF InHand, Attempting
<1>7. WhTypeOK'
    BY <1>1, <1>5 DEF WhInv, WhTypeOK, DeliveryRow
<1>8. RowsExist' /\ Apart'
    BY <1>1, <1>5, <1>6 DEF WhInv, RowsExist, Apart, WhAt
<1>9. \A x \in Deliveries : Gone(x)' <=> Gone(x)
    BY <1>1, <1>5 DEF Gone
<1>10. \A x \in Deliveries : (Held(x) => Held(x)') /\ (Over(x) => Over(x)')
    BY <1>1, <1>5, <1>6, <1>9 DEF Held, Over, ToRecord, ToBury, OutOfRetries, WhAt
<1> QED BY <1>1, <1>5, <1>7, <1>8, <1>10 DEF WhInv

LEMMA RemoveEndpointKeeps ==
    ASSUME WhInv, NEW e \in Endpoints, RemoveEndpoint(e) PROVE WhInv'
<1>1. UNCHANGED <<delivery, letters, whCall, abandoned, contended>> /\ endpoint[e] \in EndpointRow
    BY WhTypes DEF RemoveEndpoint, EndpointRow
<1>2. PICK row \in EndpointRow : row = [endpoint[e] EXCEPT !.removed = TRUE]
    BY <1>1 DEF EndpointRow
<1>3. row.removed
    BY <1>1, <1>2 DEF EndpointRow
<1>4. endpoint' = [endpoint EXCEPT ![e] = row]
    BY <1>2 DEF RemoveEndpoint
<1>5. /\ endpoint' \in [Endpoints -> EndpointRow]
      /\ \A x \in Endpoints : endpoint[x].removed => endpoint'[x].removed
    BY <1>3, <1>4, WhTypes DEF EndpointRow
<1>6. WhTypeOK'
    BY <1>1, <1>5 DEF WhInv, WhTypeOK, EndpointRow
<1>7. RowsExist' /\ Apart'
    BY <1>1 DEF WhInv, RowsExist, Apart, WhAt, InHand, Attempting
<1>8. \A x \in Deliveries : Gone(x) => Gone(x)'
    BY <1>1, <1>5, WhTypes DEF Gone, DeliveryRow
<1>9. \A x \in Deliveries : (Held(x) => Held(x)') /\ (Over(x) => Over(x)')
    BY <1>1, <1>8 DEF Held, Over, ToRecord, ToBury, OutOfRetries, WhAt, InHand, Attempting
<1> QED BY <1>1, <1>6, <1>7, <1>9 DEF WhInv

LEMMA WhInvInit == WhInit => WhInv
<1> SUFFICES ASSUME WhInit PROVE WhInv
    OBVIOUS
<1>1. \A c \in WhCalls : whCall[c].pc = "idle" /\ whCall[c].due = {}
    BY DEF WhInit, NoCall
<1>2. \A d \in Deliveries : delivery[d].status = "none" /\ ~delivery[d].once
    BY DEF WhInit
<1>3. (CHOOSE e \in Endpoints : TRUE) \in Endpoints
    BY WebhooksAssumption
<1>4. WhTypeOK
    <2>1. endpoint \in [Endpoints -> [removed : BOOLEAN, enabled : BOOLEAN, streak : Nat]]
        BY DEF WhInit
    <2>2. delivery \in [Deliveries -> [status : {"none", "PENDING", "FAILED", "DELIVERED", "EXHAUSTED"},
                                       to : Endpoints, attempts : Nat, due : BOOLEAN, once : BOOLEAN]]
        BY <1>3 DEF WhInit
    <2>3. NoCall \in WhCallRow
        BY DEF NoCall, WhCallRow, WhPcs
    <2>4. whCall \in [WhCalls -> WhCallRow]
        BY <2>3 DEF WhInit
    <2>5. letters \subseteq Deliveries /\ abandoned \subseteq Deliveries /\ contended \subseteq Deliveries
        BY DEF WhInit
    <2> QED BY <2>1, <2>2, <2>4, <2>5 DEF WhTypeOK, WhCallRow, WhPcs
<1>5. \A c \in WhCalls : ~Attempting(c) /\ InHand(c) = {}
    BY <1>1 DEF InHand, Attempting
<1>6. RowsExist /\ Apart
    BY <1>1, <1>2, <1>5 DEF RowsExist, Apart
<1>7. \A d \in Deliveries : Held(d)
    BY <1>2 DEF Held
<1> QED BY <1>2, <1>4, <1>6, <1>7 DEF WhInv

LEMMA WhInvStep == WhInv /\ [WhNext]_whVars => WhInv'
<1> SUFFICES ASSUME WhInv, [WhNext]_whVars PROVE WhInv'
    OBVIOUS
<1>1. CASE WhNext
    BY <1>1, FanOutKeeps, EnqueueKeeps, SweepKeeps, SweepNextKeeps, WhFinishKeeps, ReadDeliveryKeeps,
       ReadEndpointKeeps, PostKeeps, RecordDeliveredKeeps, RecordHealthyKeeps, RecordFailedKeeps,
       RecordUnhealthyKeeps, RecordLetterKeeps, CallDiesKeeps, BackoffElapsesKeeps, RemoveEndpointKeeps DEF WhNext
<1>2. CASE UNCHANGED whVars
    <2>1. WhTypeOK' /\ RowsExist' /\ Apart'
        BY <1>2 DEF whVars, WhInv, WhTypeOK, RowsExist, Apart, WhAt, InHand, Attempting
    <2>2. \A d \in Deliveries : (Held(d) => Held(d)') /\ (Over(d) => Over(d)')
        BY <1>2 DEF whVars, Held, Over, ToRecord, ToBury, OutOfRetries, WhAt, InHand, Attempting, Gone
    <2> QED BY <1>2, <2>1, <2>2 DEF whVars, WhInv
<1> QED BY <1>1, <1>2

\* The joint invariant of the dispatcher, for any number of endpoints and calls.
THEOREM WebhooksHold == WhSpec => []WhInv
BY WhInvInit, WhInvStep, PTL DEF WhSpec

\* Endpoints, deliveries and calls keep their types.
THEOREM WebhooksTypeCorrect == WhSpec => []WhTypeOK
<1>1. WhInv => WhTypeOK
    BY DEF WhInv
<1> QED BY <1>1, WebhooksHold, PTL

\* Nothing is dropped: a delivery is delivered, waits for a sweep, has a dead
\* letter or is being attempted.
THEOREM WebhookNotDropped == WhSpec => []NothingDropped
<1>1. WhInv => NothingDropped
    <2> SUFFICES ASSUME WhInv, NEW d \in Deliveries \ abandoned, delivery[d].status # "none"
                 PROVE  \/ delivery[d].status \in {"DELIVERED", "FAILED"}
                        \/ delivery[d].status = "EXHAUSTED" /\ d \in letters
                        \/ \E c \in WhCalls : Attempting(c) /\ whCall[c].d = d
                        \/ endpoint[delivery[d].to].removed
        BY DEF NothingDropped
    <2>1. Held(d) /\ delivery[d].status \in {"PENDING", "FAILED", "DELIVERED", "EXHAUSTED"}
        BY WhTypes DEF WhInv, DeliveryRow
    <2>2. \A c \in WhCalls : ToRecord(c, d) \/ ToBury(c, d) => Attempting(c) /\ whCall[c].d = d
        BY DEF ToRecord, ToBury, Undecided, Attempting
    <2> QED BY <2>1, <2>2 DEF Held, Gone
<1> QED BY <1>1, WebhooksHold, PTL

\* What was delivered is not sent again, unless two calls had it in hand at once.
THEOREM WebhookDeliveredOnce == WhSpec => []DeliveredIsOver
<1>1. WhInv => DeliveredIsOver
    <2> SUFFICES ASSUME WhInv, NEW c \in WhCalls, WhAt(c, "request"), delivery[whCall[c].d].once,
                        whCall[c].d \notin contended
                 PROVE  FALSE
        BY DEF DeliveredIsOver
    <2>1. Attempting(c)
        BY DEF Attempting, WhAt
    <2> QED BY <2>1, WhHolding DEF Over, WhAt
<1> QED BY <1>1, WebhooksHold, PTL

-----------------------------------------------------------------------------
(* The catalogue.                                                          *)

CtPcs == {"idle", "check", "create", "open", "promote", "rule", "find", "review", "head", "best", "move",
          "owned", "suspend", "done"}
\* Where a call has a release in hand.
CtNaming == CtPcs \ {"idle", "owned", "suspend", "done"}
CtOutcomes == {"PENDING", "APPROVED", "REJECTED", "CHANGES_REQUESTED"}
ListingRow == [status : {"DRAFT", "PUBLISHED", "SUSPENDED", "DEPRECATED"},
               head : Releases \union {NoRelease}, published : BOOLEAN]
ReleaseRow == [made : BOOLEAN, review : CtOutcomes, yanked : BOOLEAN]
CtRow == [pc : CtPcs, op : {"suspend", "publish", "decide", "yank"}, v : Releases \union {NoRelease},
          row : ListingRow, outcome : CtOutcomes, best : Releases \union {NoRelease}]

CtTyped ==
    /\ listing \in ListingRow /\ release \in [Releases -> ReleaseRow]
    /\ ruling \in [Releases -> CtOutcomes \union {"none"}] /\ barred \in BOOLEAN /\ misjudged \in BOOLEAN
    /\ ctCall \in [CtCalls -> CtRow]
CtNamed == \A c \in CtCalls : ctCall[c].pc \in CtNaming => ctCall[c].v \in Releases

\* The head can be installed, or a call that withdraws it will move it.
Leaving(c, v) == ctCall[c].pc \in {"head", "best", "move"} /\ ctCall[c].v = v
HeadStands ==
    \/ listing.head = NoRelease \/ listing.head \in Installable
    \/ \E c \in CtCalls : Leaving(c, listing.head)

\* What is above the head will be promoted.
Promotes(c, v) == CtAt(c, "promote") /\ ctCall[c].v = v
NoneAbove == \A v \in Installable : v <= listing.head \/ \E c \in CtCalls : Promotes(c, v)

CtInv == CtTyped /\ CtNamed /\ (~misjudged => HeadStands /\ NoneAbove)

\* The highest of some releases is one of them.
LEMMA HighestOf ==
    ASSUME NEW V \in SUBSET Releases
    PROVE  /\ Highest(V) \in V \union {NoRelease}
           /\ V # {} => Highest(V) \in V
           /\ \A u \in V : u <= Highest(V)
<1>1. CASE V = {}
    BY <1>1 DEF Highest
<1>2. CASE V # {}
    <2>1. MaxRelease \in Nat /\ V \subseteq 0 .. MaxRelease
        BY CatalogueAssumption DEF Releases
    <2>2. \E v \in V : \A u \in V : u <= v
        BY <1>2, <2>1, GreatestIn
    <2> QED BY <1>2, <2>2 DEF Highest
<1> QED BY <1>1, <1>2

LEMMA CtOneCall ==
    ASSUME ctCall \in [CtCalls -> CtRow], NEW c \in CtCalls, NEW r \in CtRow, CtSet(c, r)
    PROVE  ctCall' \in [CtCalls -> CtRow] /\ ctCall'[c] = r /\ \A x \in CtCalls \ {c} : ctCall'[x] = ctCall[x]
BY DEF CtSet

LEMMA NoCtRow == NoCtCall \in CtRow /\ NoListing \in ListingRow
BY DEF NoCtCall, NoListing, CtRow, ListingRow, CtPcs, CtOutcomes

LEMMA CtGoes ==
    ASSUME CtTyped, NEW c \in CtCalls, NEW step \in CtPcs, CtGo(c, step)
    PROVE  \E r \in CtRow : CtSet(c, r) /\ r.pc = step /\ (step # "done" => r.v = ctCall[c].v)
<1>1. ctCall[c] \in CtRow
    BY DEF CtTyped
<1>2. CASE step = "done"
    <2>1. PICK r \in CtRow : r = [NoCtCall EXCEPT !.pc = "done"]
        BY NoCtRow DEF CtRow, CtPcs
    <2>2. r.pc = "done"
        BY <2>1, NoCtRow DEF CtRow
    <2> QED BY <1>2, <2>1, <2>2 DEF CtGo
<1>3. CASE step # "done"
    <2>1. PICK r \in CtRow : r = [ctCall[c] EXCEPT !.pc = step]
        BY <1>1 DEF CtRow
    <2>2. r.pc = step /\ r.v = ctCall[c].v
        BY <1>1, <2>1 DEF CtRow
    <2> QED BY <1>3, <2>1, <2>2 DEF CtGo
<1> QED BY <1>2, <1>3

LEMMA CtInvInit == CtInit => CtInv
<1> SUFFICES ASSUME CtInit PROVE CtInv
    OBVIOUS
<1>1. /\ listing = NoListing /\ barred = FALSE /\ misjudged = FALSE /\ ruling = [v \in Releases |-> "none"]
      /\ \A v \in Releases : release[v].made = FALSE
    BY DEF CtInit
<1>2. release \in [Releases -> ReleaseRow]
    BY DEF CtInit, ReleaseRow, CtOutcomes
<1>3. ctCall \in [CtCalls -> CtRow] /\ \A c \in CtCalls : ctCall[c] = NoCtCall
    BY NoCtRow DEF CtInit
<1>4. CtTyped
    BY <1>1, <1>2, <1>3, NoCtRow DEF CtTyped
<1>5. CtNamed
    BY <1>3 DEF CtNamed, NoCtCall, CtNaming
<1>6. HeadStands /\ NoneAbove
    BY <1>1 DEF HeadStands, NoneAbove, NoListing, Installable, Offered
<1> QED BY <1>4, <1>5, <1>6 DEF CtInv

\* A step of one call that writes neither the listing nor a release.
LEMMA CtMoves ==
    ASSUME CtInv, NEW c \in CtCalls, NEW r \in CtRow, CtSet(c, r), UNCHANGED <<listing, release>>,
           ruling' \in [Releases -> CtOutcomes \union {"none"}], barred' \in BOOLEAN, misjudged' \in BOOLEAN,
           r.pc \in CtNaming => r.v \in Releases,
           misjudged => misjudged',
           ~misjudged' =>
               /\ ctCall[c].pc # "promote"
               /\ Leaving(c, listing.head) => r.pc \in {"head", "best", "move"} /\ r.v = listing.head
    PROVE  CtInv'
<1>1. ctCall' \in [CtCalls -> CtRow] /\ ctCall'[c] = r /\ \A x \in CtCalls \ {c} : ctCall'[x] = ctCall[x]
    BY CtOneCall DEF CtInv, CtTyped
<1>2. CtTyped'
    BY <1>1 DEF CtInv, CtTyped
<1>3. CtNamed'
    BY <1>1 DEF CtInv, CtNamed
<1>4. Installable' = Installable
    BY DEF Installable, Offered
<1>5. ASSUME ~misjudged' PROVE HeadStands' /\ NoneAbove'
    <2>1. \A x \in CtCalls : Leaving(x, listing.head) => Leaving(x, listing.head)'
        BY <1>1, <1>5 DEF Leaving
    <2>2. HeadStands'
        BY <1>4, <1>5, <2>1 DEF CtInv, HeadStands
    <2>3. \A x \in CtCalls, v \in Installable : Promotes(x, v) => Promotes(x, v)'
        BY <1>1, <1>5 DEF Promotes, CtAt
    <2> QED BY <1>4, <1>5, <2>2, <2>3 DEF CtInv, NoneAbove
<1> QED BY <1>2, <1>3, <1>5 DEF CtInv

\* A step of one call that writes one release.
LEMMA CtReleases ==
    ASSUME CtInv, NEW c \in CtCalls, NEW r \in CtRow, CtSet(c, r), UNCHANGED <<listing, ruling, barred>>,
           NEW v \in Releases, NEW row \in ReleaseRow, release' = [release EXCEPT ![v] = row],
           misjudged' \in BOOLEAN, misjudged => misjudged',
           r.pc \in CtNaming => r.v \in Releases,
           ~misjudged' =>
               /\ ctCall[c].pc \notin {"promote", "head", "best", "move"}
               /\ v \in Installable' /\ v \notin Installable => r.pc = "promote" /\ r.v = v
               /\ v \in Installable /\ v \notin Installable' => r.pc = "head" /\ r.v = v
    PROVE  CtInv'
<1>1. ctCall' \in [CtCalls -> CtRow] /\ ctCall'[c] = r /\ \A x \in CtCalls \ {c} : ctCall'[x] = ctCall[x]
    BY CtOneCall DEF CtInv, CtTyped
<1>2. release' \in [Releases -> ReleaseRow] /\ \A u \in Releases \ {v} : release'[u] = release[u]
    BY DEF CtInv, CtTyped
<1>3. CtTyped'
    BY <1>1, <1>2 DEF CtInv, CtTyped
<1>4. CtNamed'
    BY <1>1 DEF CtInv, CtNamed
<1>5. \A u \in Releases \ {v} : u \in Installable' <=> u \in Installable
    BY <1>2 DEF Installable, Offered
<1>6. ASSUME ~misjudged' PROVE HeadStands' /\ NoneAbove'
    <2>1. \A x \in CtCalls, u \in Releases : (Leaving(x, u) => Leaving(x, u)') /\ (Promotes(x, u) => Promotes(x, u)')
        BY <1>1, <1>6 DEF Leaving, Promotes, CtAt
    <2>2. HeadStands'
        <3>1. CASE listing.head = NoRelease
            BY <3>1 DEF HeadStands
        <3>2. CASE listing.head # NoRelease /\ \E x \in CtCalls : Leaving(x, listing.head)
            <4>1. listing.head \in Releases
                BY <3>2 DEF CtInv, CtTyped, ListingRow
            <4> QED BY <2>1, <3>2, <4>1 DEF HeadStands
        <3>3. CASE listing.head \in Installable /\ listing.head \in Installable'
            BY <3>3 DEF HeadStands
        <3>4. CASE listing.head \in Installable /\ listing.head \notin Installable'
            <4>1. listing.head = v
                BY <1>5, <3>4 DEF Installable, Offered
            <4>2. Leaving(c, v)'
                BY <1>1, <1>6, <3>4, <4>1 DEF Leaving
            <4> QED BY <4>1, <4>2 DEF HeadStands
        <3> QED BY <1>6, <3>1, <3>2, <3>3, <3>4 DEF CtInv, HeadStands
    <2>3. ASSUME NEW u \in Installable' PROVE u <= listing.head \/ \E x \in CtCalls : Promotes(x, u)'
        <3>1. u \in Releases
            BY <2>3 DEF Installable, Offered
        <3>2. CASE u \in Installable
            BY <1>6, <2>1, <3>1, <3>2 DEF CtInv, NoneAbove
        <3>3. CASE u \notin Installable
            <4>1. u = v
                BY <1>5, <2>3, <3>1, <3>3
            <4> QED BY <1>1, <1>6, <2>3, <3>3, <4>1 DEF Promotes, CtAt
        <3> QED BY <3>2, <3>3
    <2> QED BY <2>2, <2>3 DEF NoneAbove
<1> QED BY <1>3, <1>4, <1>6 DEF CtInv

\* A call goes on, or ends, without writing the listing or a release.
LEMMA CtGoesOn ==
    ASSUME CtInv, NEW c \in CtCalls, NEW step \in CtPcs, CtGo(c, step), UNCHANGED <<listing, release>>,
           ruling' \in [Releases -> CtOutcomes \union {"none"}], barred' \in BOOLEAN, misjudged' \in BOOLEAN,
           step \in CtNaming => ctCall[c].v \in Releases,
           misjudged => misjudged',
           ~misjudged' =>
               /\ ctCall[c].pc # "promote"
               /\ Leaving(c, listing.head) => step \in {"head", "best", "move"}
    PROVE  CtInv'
<1>1. PICK r \in CtRow : CtSet(c, r) /\ r.pc = step /\ (step # "done" => r.v = ctCall[c].v)
    BY CtGoes DEF CtInv
<1>2. r.pc \in CtNaming => r.v \in Releases
    BY <1>1 DEF CtNaming
<1>3. ~misjudged' /\ Leaving(c, listing.head) => r.pc \in {"head", "best", "move"} /\ r.v = listing.head
    BY <1>1 DEF Leaving
<1> QED BY <1>1, <1>2, <1>3, CtMoves

LEMMA CtBegins ==
    ASSUME CtInv, NEW c \in CtCalls, NEW r, CtBegin(c, r) PROVE ctCall[c].pc = "idle" /\ CtSet(c, r)
BY DEF CtBegin, CtAt

LEMMA PublishKeeps == ASSUME CtInv, NEW c \in CtCalls, Publish(c) PROVE CtInv'
<1>1. PICK v \in Releases : CtBegin(c, [NoCtCall EXCEPT !.pc = "check", !.op = "publish", !.v = v, !.row = listing])
    BY DEF Publish
<1>2. PICK r \in CtRow : r = [NoCtCall EXCEPT !.pc = "check", !.op = "publish", !.v = v, !.row = listing]
    BY NoCtRow DEF CtRow, CtPcs, CtInv, CtTyped
<1>3. r.pc = "check" /\ r.v = v
    BY <1>2, NoCtRow DEF CtRow
<1>4. ctCall[c].pc = "idle" /\ CtSet(c, r)
    BY <1>1, <1>2, CtBegins
<1>5. UNCHANGED <<listing, release, ruling, barred, misjudged>>
    BY DEF Publish
<1> QED BY <1>3, <1>4, <1>5, CtMoves DEF CtInv, CtTyped, Leaving

LEMMA DecideReleaseKeeps == ASSUME CtInv, NEW c \in CtCalls, DecideRelease(c) PROVE CtInv'
<1>1. PICK v \in Releases, s \in {"APPROVED", "REJECTED", "CHANGES_REQUESTED"} :
          CtBegin(c, [NoCtCall EXCEPT !.pc = "rule", !.op = "decide", !.v = v, !.outcome = s])
    BY DEF DecideRelease
<1>2. PICK r \in CtRow : r = [NoCtCall EXCEPT !.pc = "rule", !.op = "decide", !.v = v, !.outcome = s]
    BY NoCtRow DEF CtRow, CtPcs, CtOutcomes
<1>3. r.pc = "rule" /\ r.v = v
    BY <1>2, NoCtRow DEF CtRow
<1>4. ctCall[c].pc = "idle" /\ CtSet(c, r)
    BY <1>1, <1>2, CtBegins
<1>5. UNCHANGED <<listing, release, ruling, barred, misjudged>>
    BY DEF DecideRelease
<1> QED BY <1>3, <1>4, <1>5, CtMoves DEF CtInv, CtTyped, Leaving

LEMMA SuspendPublisherKeeps == ASSUME CtInv, NEW c \in CtCalls, SuspendPublisher(c) PROVE CtInv'
<1>1. CtBegin(c, [NoCtCall EXCEPT !.pc = "owned"]) /\ barred' = TRUE /\ UNCHANGED <<listing, release, ruling, misjudged>>
    BY DEF SuspendPublisher
<1>2. PICK r \in CtRow : r = [NoCtCall EXCEPT !.pc = "owned"]
    BY NoCtRow DEF CtRow, CtPcs
<1>3. r.pc = "owned"
    BY <1>2, NoCtRow DEF CtRow
<1>4. ctCall[c].pc = "idle" /\ CtSet(c, r)
    BY <1>1, <1>2, CtBegins
<1> QED BY <1>1, <1>3, <1>4, CtMoves DEF CtInv, CtTyped, Leaving, CtNaming

LEMMA PublishCheckKeeps == ASSUME CtInv, NEW c \in CtCalls, PublishCheck(c) PROVE CtInv'
<1>1. ctCall[c].pc = "check" /\ UNCHANGED <<listing, release, ruling, barred, misjudged>>
    BY DEF PublishCheck, CtAt
<1>2. PICK step \in {"done", "create"} : CtGo(c, step)
    BY DEF PublishCheck
<1>3. ctCall[c].v \in Releases
    BY <1>1 DEF CtInv, CtNamed, CtNaming, CtPcs
<1> QED BY <1>1, <1>2, <1>3, CtGoesOn DEF CtInv, CtTyped, Leaving, CtPcs

LEMMA OpenReviewKeeps == ASSUME CtInv, NEW c \in CtCalls, OpenReview(c) PROVE CtInv'
<1>1. ctCall[c].pc = "open" /\ CtGo(c, "done") /\ UNCHANGED <<listing, release, barred, misjudged>>
    BY DEF OpenReview, CtAt
<1>2. ruling' \in [Releases -> CtOutcomes \union {"none"}]
    BY DEF OpenReview, CtInv, CtTyped, CtOutcomes
<1> QED BY <1>1, <1>2, CtGoesOn DEF CtInv, CtTyped, Leaving, CtPcs, CtNaming

LEMMA RuleKeeps == ASSUME CtInv, NEW c \in CtCalls, Rule(c) PROVE CtInv'
<1>1. ctCall[c].pc = "rule" /\ UNCHANGED <<listing, release, barred, misjudged>>
    BY DEF Rule, CtAt
<1>2. PICK step \in {"find", "review"} : CtGo(c, step)
    BY DEF Rule
<1>3. ctCall[c].v \in Releases
    BY <1>1 DEF CtInv, CtNamed, CtNaming, CtPcs
<1>4. ctCall[c].outcome \in CtOutcomes
    BY DEF CtInv, CtTyped, CtRow
<1>5. ruling' \in [Releases -> CtOutcomes \union {"none"}]
    BY <1>4 DEF Rule, CtInv, CtTyped
<1> QED BY <1>1, <1>2, <1>3, <1>5, CtGoesOn DEF CtInv, CtTyped, Leaving, CtPcs

LEMMA FindListingKeeps == ASSUME CtInv, NEW c \in CtCalls, FindListing(c) PROVE CtInv'
<1>1. ctCall[c].pc = "find" /\ UNCHANGED <<listing, release, ruling, barred, misjudged>>
    BY DEF FindListing, CtAt
<1>2. ctCall[c] \in CtRow /\ listing \in ListingRow
    BY DEF CtInv, CtTyped
<1>3. PICK r \in CtRow : r = [ctCall[c] EXCEPT !.pc = "review", !.row = listing]
    BY <1>2 DEF CtRow, CtPcs
<1>4. r.pc = "review" /\ r.v = ctCall[c].v
    BY <1>2, <1>3 DEF CtRow
<1>5. CtSet(c, r)
    BY <1>3 DEF FindListing
<1>6. ctCall[c].v \in Releases
    BY <1>1 DEF CtInv, CtNamed, CtNaming, CtPcs
<1> QED BY <1>1, <1>4, <1>5, <1>6, CtMoves DEF CtInv, CtTyped, Leaving

LEMMA CreateReleaseKeeps == ASSUME CtInv, NEW c \in CtCalls, CreateRelease(c) PROVE CtInv'
<1> DEFINE v == ctCall[c].v
<1>1. ctCall[c].pc = "create" /\ UNCHANGED <<listing, ruling, barred, misjudged>>
    BY DEF CreateRelease, CtAt
<1>2. v \in Releases /\ release[v] \in ReleaseRow
    BY <1>1 DEF CtInv, CtTyped, CtNamed, CtNaming, CtPcs
<1>3. CASE CtGo(c, "done") /\ UNCHANGED release
    BY <1>1, <1>3, CtGoesOn DEF CtInv, CtTyped, Leaving, CtPcs, CtNaming
<1>4. CASE ~release[v].made
    <2>1. PICK s \in {"PENDING", "APPROVED"} : s = IF v \in Reviewed THEN "PENDING" ELSE "APPROVED"
        OBVIOUS
    <2>2. PICK row \in ReleaseRow : row = [release[v] EXCEPT !.made = TRUE, !.review = s]
        BY <1>2 DEF ReleaseRow, CtOutcomes
    <2>3. row.review = s
        BY <1>2, <2>2 DEF ReleaseRow
    <2>4. release' = [release EXCEPT ![v] = row]
        BY <1>4, <2>1, <2>2 DEF CreateRelease
    <2>5. PICK step \in {"open", "promote"} : CtGo(c, step) /\ (s = "APPROVED" => step = "promote")
        BY <1>4, <2>1 DEF CreateRelease
    <2>6. PICK r \in CtRow : CtSet(c, r) /\ r.pc = step /\ r.v = v
        BY <2>5, CtGoes DEF CtInv, CtPcs
    <2>7. release'[v].review = s
        BY <1>2, <2>3, <2>4 DEF CtInv, CtTyped
    <2>8. v \notin Installable /\ (v \in Installable' => s = "APPROVED")
        BY <1>4, <2>7 DEF Installable, Offered
    <2> HIDE DEF v
    <2> QED BY <1>1, <1>2, <2>4, <2>5, <2>6, <2>8, CtReleases DEF CtInv, CtTyped
<1> QED BY <1>3, <1>4 DEF CreateRelease

\* Whatever the outcome, who approves goes on to promote.
LEMMA WriteReviewKeeps == ASSUME CtInv, NEW c \in CtCalls, WriteReview(c) PROVE CtInv'
<1> DEFINE v == ctCall[c].v  s == ctCall[c].outcome
<1>1. ctCall[c].pc = "review" /\ UNCHANGED <<listing, ruling, barred>>
    BY DEF WriteReview, CtAt
<1>2. v \in Releases /\ release[v] \in ReleaseRow /\ s \in CtOutcomes
    BY <1>1 DEF CtInv, CtTyped, CtNamed, CtNaming, CtPcs, CtRow
<1>3. PICK row \in ReleaseRow : row = [release[v] EXCEPT !.review = s]
    BY <1>2 DEF ReleaseRow
<1>4. row.review = s
    BY <1>2, <1>3 DEF ReleaseRow
<1>5. release' = [release EXCEPT ![v] = row]
    BY <1>3 DEF WriteReview
<1>6. PICK step \in {"promote", "done"} : CtGo(c, step) /\ (s = "APPROVED" => step = "promote")
    BY DEF WriteReview
<1>7. PICK r \in CtRow : CtSet(c, r) /\ r.pc = step /\ (step # "done" => r.v = v)
    BY <1>6, CtGoes DEF CtInv, CtPcs
<1>8. misjudged' = (misjudged \/ (v \in Installable /\ s # "APPROVED"))
    BY DEF WriteReview
<1>9. release'[v].review = s /\ release'[v].made = release[v].made /\ release'[v].yanked = release[v].yanked
    BY <1>2, <1>3, <1>4, <1>5 DEF CtInv, CtTyped, ReleaseRow
<1>10. v \in Installable' => s = "APPROVED"
    BY <1>9 DEF Installable, Offered
<1>11. v \in Installable /\ s = "APPROVED" => v \in Installable'
    BY <1>9 DEF Installable, Offered
<1>12. misjudged' \in BOOLEAN
    BY <1>8 DEF CtInv, CtTyped
<1>13. r.pc \in CtNaming => r.v \in Releases
    BY <1>2, <1>7 DEF CtNaming
<1> HIDE DEF v, s
<1>14. ~misjudged' => /\ ctCall[c].pc \notin {"promote", "head", "best", "move"}
                      /\ v \in Installable' /\ v \notin Installable => r.pc = "promote" /\ r.v = v
                      /\ v \in Installable /\ v \notin Installable' => r.pc = "head" /\ r.v = v
    BY <1>1, <1>6, <1>7, <1>8, <1>10, <1>11
<1> QED BY <1>1, <1>2, <1>5, <1>7, <1>8, <1>12, <1>13, <1>14, CtReleases

\* A release is withdrawn; if it was the head, its call will see to that.
LEMMA YankKeeps == ASSUME CtInv, NEW c \in CtCalls, Yank(c) PROVE CtInv'
<1>1. PICK v \in Releases : /\ CtBegin(c, [NoCtCall EXCEPT !.pc = "head", !.op = "yank", !.v = v])
                            /\ release' = [release EXCEPT ![v].yanked = TRUE]
    BY DEF Yank
<1>2. PICK r \in CtRow : r = [NoCtCall EXCEPT !.pc = "head", !.op = "yank", !.v = v]
    BY NoCtRow DEF CtRow, CtPcs
<1>3. r.pc = "head" /\ r.v = v
    BY <1>2, NoCtRow DEF CtRow
<1>4. ctCall[c].pc = "idle" /\ CtSet(c, r)
    BY <1>1, <1>2, CtBegins
<1>5. UNCHANGED <<listing, ruling, barred, misjudged>>
    BY DEF Yank
<1>6. release[v] \in ReleaseRow
    BY DEF CtInv, CtTyped
<1>7. PICK row \in ReleaseRow : row = [release[v] EXCEPT !.yanked = TRUE]
    BY <1>6 DEF ReleaseRow
<1>8. row.yanked = TRUE
    BY <1>6, <1>7 DEF ReleaseRow
<1>9. release' = [release EXCEPT ![v] = row]
    BY <1>1, <1>7
<1>10. v \notin Installable'
    BY <1>8, <1>9 DEF Installable, Offered, CtInv, CtTyped
<1> QED BY <1>3, <1>4, <1>5, <1>9, <1>10, CtReleases DEF CtInv, CtTyped

LEMMA YankHeadKeeps == ASSUME CtInv, NEW c \in CtCalls, YankHead(c) PROVE CtInv'
<1>1. ctCall[c].pc = "head" /\ UNCHANGED <<listing, release, ruling, barred, misjudged>>
    BY DEF YankHead, CtAt
<1>2. PICK step \in {"best", "done"} : CtGo(c, step) /\ (listing.head = ctCall[c].v => step = "best")
    BY DEF YankHead
<1>3. ctCall[c].v \in Releases
    BY <1>1 DEF CtInv, CtNamed, CtNaming, CtPcs
<1> QED BY <1>1, <1>2, <1>3, CtGoesOn DEF CtInv, CtTyped, Leaving, CtPcs

LEMMA YankBestKeeps == ASSUME CtInv, NEW c \in CtCalls, YankBest(c) PROVE CtInv'
<1>1. ctCall[c].pc = "best" /\ UNCHANGED <<listing, release, ruling, barred, misjudged>>
    BY DEF YankBest, CtAt
<1>2. PICK b \in Releases \union {NoRelease} : b = Highest(Installable)
    BY HighestOf DEF Installable, Offered
<1>3. ctCall[c] \in CtRow
    BY DEF CtInv, CtTyped
<1>4. PICK r \in CtRow : r = [ctCall[c] EXCEPT !.pc = "move", !.best = b]
    BY <1>3 DEF CtRow, CtPcs
<1>5. r.pc = "move" /\ r.v = ctCall[c].v
    BY <1>3, <1>4 DEF CtRow
<1>6. CtSet(c, r)
    BY <1>2, <1>4 DEF YankBest
<1>7. ctCall[c].v \in Releases
    BY <1>1 DEF CtInv, CtNamed, CtNaming, CtPcs
<1> QED BY <1>1, <1>5, <1>6, <1>7, CtMoves DEF CtInv, CtTyped, Leaving

\* The listing written, a call gone on or not: what follows for the types.
LEMMA ListingTypes ==
    ASSUME CtInv, listing' \in ListingRow, misjudged' \in BOOLEAN, UNCHANGED <<release, ruling, barred>>,
           NEW c \in CtCalls, CtGo(c, "done")
    PROVE  /\ CtTyped' /\ CtNamed' /\ Installable' = Installable
           /\ ctCall'[c].pc = "done" /\ \A x \in CtCalls \ {c} : ctCall'[x] = ctCall[x]
<1>1. PICK r \in CtRow : CtSet(c, r) /\ r.pc = "done"
    BY CtGoes DEF CtInv, CtPcs
<1>2. ctCall' \in [CtCalls -> CtRow] /\ ctCall'[c] = r /\ \A x \in CtCalls \ {c} : ctCall'[x] = ctCall[x]
    BY <1>1, CtOneCall DEF CtInv, CtTyped
<1>3. CtTyped'
    BY <1>2 DEF CtInv, CtTyped
<1>4. CtNamed'
    BY <1>1, <1>2 DEF CtInv, CtNamed, CtNaming
<1> QED BY <1>1, <1>2, <1>3, <1>4 DEF Installable, Offered

\* The head goes up to what was asked for, if it is higher.
LEMMA PromoteKeeps == ASSUME CtInv, NEW c \in CtCalls, PromoteLatest(c) PROVE CtInv'
<1> DEFINE m == ctCall[c]
<1>1. m.pc = "promote" /\ CtGo(c, "done") /\ UNCHANGED <<release, ruling, barred>>
    BY DEF PromoteLatest, CtAt
<1>2. misjudged' = (misjudged \/ m.row.head # listing.head \/ m.v \notin Installable)
    BY DEF PromoteLatest
<1>3. m.v \in Releases /\ m.row \in ListingRow /\ listing \in ListingRow
    BY <1>1 DEF CtInv, CtTyped, CtNamed, CtNaming, CtPcs, CtRow
<1>4. \/ UNCHANGED listing /\ ~IsNewest(m.row, m.v)
      \/ listing' \in ListingRow /\ listing'.head = m.v /\ IsNewest(m.row, m.v)
    <2>1. PICK st \in {"DRAFT", "PUBLISHED", "SUSPENDED", "DEPRECATED"} :
              st = IF m.row.status = "DRAFT" THEN "PUBLISHED" ELSE m.row.status
        BY <1>3 DEF ListingRow
    <2>2. \/ ~IsNewest(m.row, m.v) /\ UNCHANGED listing
          \/ IsNewest(m.row, m.v) /\ listing' = [head |-> m.v, published |-> TRUE, status |-> st]
        BY <2>1 DEF PromoteLatest
    <2>3. ASSUME listing' = [head |-> m.v, published |-> TRUE, status |-> st]
          PROVE  listing' \in ListingRow /\ listing'.head = m.v
        <3>1. m.v \in Releases
            BY <1>3
        <3> HIDE DEF m
        <3> QED BY <2>3, <3>1 DEF ListingRow
    <2> HIDE DEF m
    <2> QED BY <2>2, <2>3
<1>5. listing' \in ListingRow
    BY <1>3, <1>4
<1>6. misjudged' \in BOOLEAN
    BY <1>2 DEF CtInv, CtTyped
<1>7. /\ CtTyped' /\ CtNamed' /\ Installable' = Installable
      /\ ctCall'[c].pc = "done" /\ \A x \in CtCalls \ {c} : ctCall'[x] = ctCall[x]
    BY <1>1, <1>5, <1>6, ListingTypes
<1>8. ASSUME ~misjudged' PROVE HeadStands' /\ NoneAbove'
    <2>1. HeadStands /\ NoneAbove /\ m.row.head = listing.head /\ m.v \in Installable
        BY <1>2, <1>8 DEF CtInv
    <2>2. listing.head <= listing'.head /\ m.v <= listing'.head /\ listing.head \in Nat /\ listing'.head \in Nat
        BY <1>3, <1>4, <1>5, <2>1 DEF IsNewest, ListingRow, NoRelease, Releases
    <2>3. HeadStands'
        <3>1. CASE UNCHANGED listing
            <4>1. \A x \in CtCalls : Leaving(x, listing.head) => Leaving(x, listing.head)'
                BY <1>1, <1>7, <3>1 DEF Leaving
            <4> QED BY <1>7, <2>1, <3>1, <4>1 DEF HeadStands
        <3>2. CASE listing'.head = m.v
            BY <1>7, <2>1, <3>2 DEF HeadStands
        <3> QED BY <1>4, <3>1, <3>2
    <2>4. ASSUME NEW v \in Installable PROVE v <= listing'.head \/ \E x \in CtCalls : Promotes(x, v)'
        <3>1. CASE v <= listing.head
            BY <2>2, <3>1 DEF Installable, Offered, Releases
        <3>2. CASE \E x \in CtCalls : Promotes(x, v)
            <4>1. PICK x \in CtCalls : Promotes(x, v)
                BY <3>2
            <4>2. CASE x = c
                BY <2>2, <4>1, <4>2 DEF Promotes
            <4>3. CASE x # c
                BY <1>7, <4>1, <4>3 DEF Promotes, CtAt
            <4> QED BY <4>2, <4>3
        <3> QED BY <2>1, <3>1, <3>2 DEF NoneAbove
    <2> QED BY <1>7, <2>3, <2>4 DEF NoneAbove
<1> QED BY <1>7, <1>8 DEF CtInv

\* After a withdrawal the head is the highest there is.
LEMMA MoveHeadKeeps == ASSUME CtInv, NEW c \in CtCalls, MoveHead(c) PROVE CtInv'
<1>1. ctCall[c].pc = "move" /\ CtGo(c, "done") /\ UNCHANGED <<release, ruling, barred>>
    BY DEF MoveHead, CtAt
<1>2. misjudged' = (misjudged \/ ctCall[c].v # listing.head \/ ctCall[c].best # Highest(Installable))
    BY DEF MoveHead
<1>3. ctCall[c].best \in Releases \union {NoRelease} /\ listing \in ListingRow
    BY DEF CtInv, CtTyped, CtRow
<1>4. listing' \in ListingRow /\ listing'.head = ctCall[c].best
    BY <1>3 DEF MoveHead, ListingRow
<1>5. misjudged' \in BOOLEAN
    BY <1>2 DEF CtInv, CtTyped
<1>6. CtTyped' /\ CtNamed' /\ Installable' = Installable
    BY <1>1, <1>4, <1>5, ListingTypes
<1>7. ASSUME ~misjudged' PROVE HeadStands' /\ NoneAbove'
    <2>1. listing'.head = Highest(Installable)
        BY <1>2, <1>4, <1>7
    <2>2. Installable \in SUBSET Releases
        BY DEF Installable, Offered
    <2>3. Highest(Installable) \in Installable \union {NoRelease} /\ \A u \in Installable : u <= Highest(Installable)
        BY <2>2, HighestOf
    <2>4. HeadStands'
        BY <1>6, <2>1, <2>3 DEF HeadStands
    <2>5. NoneAbove'
        BY <1>6, <2>1, <2>3 DEF NoneAbove
    <2> QED BY <2>4, <2>5
<1> QED BY <1>6, <1>7 DEF CtInv

\* The listing's status changes, its head does not.
LEMMA StatusKeeps ==
    ASSUME CtInv, NEW s \in {"SUSPENDED", "DEPRECATED"}, listing' = [listing EXCEPT !.status = s],
           UNCHANGED <<release, ruling, barred, misjudged>>,
           \/ UNCHANGED ctCall
           \/ \E c \in CtCalls : ctCall[c].pc \in {"owned", "suspend"} /\ CtGo(c, "done")
    PROVE  CtInv'
<1>1. listing' \in ListingRow /\ listing'.head = listing.head
    BY DEF CtInv, CtTyped, ListingRow
<1>2. /\ CtTyped' /\ CtNamed' /\ Installable' = Installable
      /\ \A x \in CtCalls : \A v : (Leaving(x, v) => Leaving(x, v)') /\ (Promotes(x, v) => Promotes(x, v)')
    <2>1. CASE UNCHANGED ctCall
        BY <1>1, <2>1 DEF CtInv, CtTyped, CtNamed, Installable, Offered, Leaving, Promotes, CtAt
    <2>2. CASE \E c \in CtCalls : ctCall[c].pc \in {"owned", "suspend"} /\ CtGo(c, "done")
        <3>1. PICK c \in CtCalls : ctCall[c].pc \in {"owned", "suspend"} /\ CtGo(c, "done")
            BY <2>2
        <3>2. misjudged' \in BOOLEAN
            BY DEF CtInv, CtTyped
        <3>3. /\ CtTyped' /\ CtNamed' /\ Installable' = Installable
              /\ \A x \in CtCalls \ {c} : ctCall'[x] = ctCall[x]
            BY <1>1, <3>1, <3>2, ListingTypes
        <3> QED BY <3>1, <3>3 DEF Leaving, Promotes, CtAt
    <2> QED BY <2>1, <2>2
<1>3. ~misjudged => HeadStands' /\ NoneAbove'
    BY <1>1, <1>2 DEF CtInv, HeadStands, NoneAbove
<1> QED BY <1>2, <1>3 DEF CtInv

LEMMA SuspendOwnedKeeps == ASSUME CtInv, NEW c \in CtCalls, SuspendOwned(c) PROVE CtInv'
<1>1. UNCHANGED <<release, ruling, barred, misjudged>>
    BY DEF SuspendOwned
<1>2. CASE CtAt(c, "owned") /\ UNCHANGED listing /\ \E step \in {"done", "suspend"} : CtGo(c, step)
    <2>1. PICK step \in {"done", "suspend"} : CtGo(c, step)
        BY <1>2
    <2> QED BY <1>1, <1>2, <2>1, CtGoesOn DEF CtInv, CtTyped, Leaving, CtPcs, CtNaming, CtAt
<1>3. CASE CtAt(c, "suspend") /\ listing' = [listing EXCEPT !.status = "SUSPENDED"] /\ CtGo(c, "done")
    BY <1>1, <1>3, StatusKeeps DEF CtAt
<1> QED BY <1>2, <1>3 DEF SuspendOwned

LEMMA CtCallFailsKeeps == ASSUME CtInv, NEW c \in CtCalls, CtCallFails(c) PROVE CtInv'
<1>1. /\ CtGo(c, "done") /\ misjudged' = (misjudged \/ c \in Movers)
      /\ UNCHANGED <<listing, release, ruling, barred>>
    BY DEF CtCallFails
<1>2. misjudged' \in BOOLEAN
    BY <1>1 DEF CtInv, CtTyped
<1>3. ~misjudged' => ctCall[c].pc \notin {"promote", "head", "best", "move"}
    BY <1>1 DEF Movers
<1> QED BY <1>1, <1>2, <1>3, CtGoesOn DEF CtInv, CtTyped, Leaving, CtPcs, CtNaming

LEMMA CtInvStep == CtInv /\ [CtNext]_ctVars => CtInv'
<1> SUFFICES ASSUME CtInv, [CtNext]_ctVars PROVE CtInv'
    OBVIOUS
<1>1. CASE UNCHANGED ctVars
    <2>1. Installable' = Installable /\ (HeadStands => HeadStands') /\ (NoneAbove => NoneAbove')
        BY <1>1 DEF ctVars, Installable, Offered, HeadStands, NoneAbove, Leaving, Promotes, CtAt
    <2> QED BY <1>1, <2>1 DEF ctVars, CtInv, CtTyped, CtNamed
<1>2. CASE Moderate
    <2>1. PICK s \in {"SUSPENDED", "DEPRECATED"} : listing' = [listing EXCEPT !.status = s]
        BY <1>2 DEF Moderate
    <2> QED BY <1>2, <2>1, StatusKeeps DEF Moderate
<1>3. ASSUME NEW c \in CtCalls,
             \/ Publish(c) \/ PublishCheck(c) \/ CreateRelease(c) \/ OpenReview(c) \/ PromoteLatest(c)
             \/ DecideRelease(c) \/ Rule(c) \/ FindListing(c) \/ WriteReview(c)
             \/ Yank(c) \/ YankHead(c) \/ YankBest(c) \/ MoveHead(c)
             \/ SuspendPublisher(c) \/ SuspendOwned(c) \/ CtCallFails(c)
      PROVE  CtInv'
    BY <1>3, PublishKeeps, PublishCheckKeeps, CreateReleaseKeeps, OpenReviewKeeps, PromoteKeeps, DecideReleaseKeeps,
       RuleKeeps, FindListingKeeps, WriteReviewKeeps, YankKeeps, YankHeadKeeps, YankBestKeeps, MoveHeadKeeps,
       SuspendPublisherKeeps, SuspendOwnedKeeps, CtCallFailsKeeps
<1> QED BY <1>1, <1>2, <1>3 DEF CtNext

\* The joint invariant of a listing and its releases, for any number of releases
\* and of overlapping calls.
THEOREM CatalogueHolds == CtSpec => []CtInv
BY CtInvInit, CtInvStep, PTL DEF CtSpec

\* Listing, releases, rulings and calls keep their types.
THEOREM CatalogueTypeCorrect == CtSpec => []CtTypeOK
<1>1. CtInv => CtTypeOK
    BY DEF CtInv, CtTyped, CtTypeOK, ListingRow, ReleaseRow, CtRow, CtPcs, CtOutcomes
<1> QED BY <1>1, CatalogueHolds, PTL

\* The head of the listing is the highest release that can be installed, unless a
\* call judged by what had changed since it was read or stopped half way.
THEOREM HeadAlwaysHighest == CtSpec => []HeadIsHighest
<1>1. CtInv => HeadIsHighest
    <2> SUFFICES ASSUME CtInv, Movers = {}, ~misjudged PROVE listing.head = Highest(Installable)
        BY DEF HeadIsHighest
    <2>1. \A c \in CtCalls : ctCall[c].pc \notin {"promote", "head", "best", "move"}
        BY DEF Movers
    <2>2. listing.head = NoRelease \/ listing.head \in Installable
        BY <2>1 DEF CtInv, HeadStands, Leaving
    <2>3. \A v \in Installable : v <= listing.head
        BY <2>1 DEF CtInv, NoneAbove, Promotes, CtAt
    <2>4. Installable \in SUBSET Releases
        BY DEF Installable, Offered
    <2>5. /\ Highest(Installable) \in Installable \union {NoRelease}
          /\ Installable # {} => Highest(Installable) \in Installable
          /\ \A u \in Installable : u <= Highest(Installable)
        BY <2>4, HighestOf
    <2>6. \A v \in Installable : v \in Nat /\ v # 0
        BY <2>4 DEF Releases
    <2>7. CASE listing.head \in Installable
        <3>1. Highest(Installable) \in Installable
            BY <2>5, <2>7
        <3>2. listing.head <= Highest(Installable) /\ Highest(Installable) <= listing.head
            BY <2>3, <2>5, <2>7, <3>1
        <3>3. listing.head \in Nat /\ Highest(Installable) \in Nat
            BY <2>6, <2>7, <3>1
        <3> QED BY <3>2, <3>3
    <2>8. CASE listing.head = NoRelease
        <3>1. Installable = {}
            BY <2>3, <2>6, <2>8 DEF NoRelease
        <3> QED BY <2>5, <2>8, <3>1
    <2> QED BY <2>2, <2>7, <2>8
<1> QED BY <1>1, CatalogueHolds, PTL
=============================================================================

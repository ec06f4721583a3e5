----------------------------- MODULE Extensions -----------------------------
(***************************************************************************)
(* The life of one installed extension (ExtensionRuntimeService): its row *)
(* with status and version, the contributions registered from its         *)
(* manifest, its upgrades, and on each instance of the service the module *)
(* that is kept loaded (`loaded`), which runs in a thread of its own.     *)
(*                                                                        *)
(* A step is one statement, one load or one hook.  A call works on the    *)
(* row it read at its beginning; updates are unconditional.  A hook that  *)
(* overruns takes its thread with it, and the loader, which knows threads *)
(* by slug, ends the thread of another organization's extension of the    *)
(* same slug; `loaded` still holds such a module, and its hooks fail.     *)
(* A version stands for its manifest, its grant and its limits.           *)
(***************************************************************************)
EXTENDS Naturals, FiniteSets

CONSTANTS
    Hosts,
    MaxExVersion,
    Breaking,        \* versions an upgrade to which needs consent
    Migrating,       \* versions an upgrade to which runs a migration
    MaxUpgrades,     \* bound: rows, numbered as they are created
    MaxExCalls,      \* bound: calls, numbered as they begin
    ExOps            \* the operations called

ExVersions == 1 .. MaxExVersion
NoVersion == 0
Upgrades  == 1 .. MaxUpgrades
NoUpgrade == 0
ExCalls   == 1 .. MaxExCalls

ASSUME ExtensionsAssumption ==
    /\ Hosts # {} /\ MaxExVersion \in Nat /\ MaxUpgrades \in Nat /\ MaxExCalls \in Nat
    /\ Breaking \subseteq ExVersions /\ Migrating \subseteq ExVersions

VARIABLES
    ext,        \* the row
    contrib,    \* what is registered: the version it is from, and whether enabled
    upgrade,    \* the rows; `applied` orders them by appliedAt
    loaded,     \* the modules, and whether their threads run
    exCall,
    behind,     \* history: instances whose module was loaded from another row than the present
    untidy      \* history: replacing calls overlapped, failed, or applied a stale proposal

exVars == <<ext, contrib, upgrade, loaded, exCall, behind, untidy>>

NoModule == [version |-> NoVersion, alive |-> FALSE]
NoExCall == [pc |-> "idle", op |-> "invoke", on |-> CHOOSE i \in Hosts : TRUE,
             status |-> "none", version |-> NoVersion, u |-> NoUpgrade, to |-> NoVersion]

ExInit ==
    /\ ext = [status |-> "none", version |-> NoVersion]
    /\ contrib = [version |-> NoVersion, enabled |-> FALSE]
    /\ upgrade = [u \in Upgrades |-> [outcome |-> "none", from |-> NoVersion, to |-> NoVersion,
                                      applied |-> 0]]
    /\ loaded = [i \in Hosts |-> NoModule]
    /\ exCall = [c \in ExCalls |-> NoExCall]
    /\ behind = {} /\ untidy = FALSE

ExAt(c, step) == exCall[c].pc = step
ExSet(c, r)   == exCall' = [exCall EXCEPT ![c] = r]
\* A call that is over holds nothing.
ExGo(c, step) == ExSet(c, [(IF step = "done" THEN NoExCall ELSE exCall[c]) EXCEPT !.pc = step])
Present       == ext.status \notin {"none", "removed"}
Replacers     == {"install", "uninstall", "upgrade", "rollback"}
Replacing(c)  == exCall[c].op \in Replacers /\ ~ExAt(c, "idle") /\ ~ExAt(c, "done")
-----------------------------------------------------------------------------
(* Calls begin on an instance and read the row                              *)

Begin(c, op, step, u, to) ==
    /\ ExAt(c, "idle") /\ \A x \in 1 .. c - 1 : ~ExAt(x, "idle")
    /\ \E i \in Hosts :
          ExSet(c, [pc |-> step, op |-> op, on |-> i, status |-> ext.status,
                    version |-> ext.version, u |-> u, to |-> to])
    /\ untidy' = (untidy \/ (op \in Replacers /\ \E x \in ExCalls : Replacing(x)))

Unchanged == UNCHANGED <<ext, contrib, upgrade, loaded, behind>>

\* install(): the slug is unique, that of a removed row too.
Install(c) ==
    /\ "install" \in ExOps /\ ext.status = "none"
    /\ \E v \in ExVersions, s \in {"PENDING_REVIEW", "INSTALLED"} :
          /\ ext' = [status |-> s, version |-> v]
          /\ \E i \in Hosts :
                /\ ExAt(c, "idle") /\ \A x \in 1 .. c - 1 : ~ExAt(x, "idle")
                /\ ExSet(c, [pc |-> "register", op |-> "install", on |-> i, status |-> s,
                             version |-> v, u |-> NoUpgrade, to |-> v])
    /\ UNCHANGED <<contrib, upgrade, loaded, behind, untidy>>

ApproveCapabilities(c) ==
    /\ "approve" \in ExOps /\ ext.status = "PENDING_REVIEW"
    /\ Begin(c, "approve", "status", NoUpgrade, NoVersion) /\ Unchanged

Enable(c) ==
    /\ "enable" \in ExOps /\ Present /\ ext.status \notin {"PENDING_REVIEW", "QUARANTINED"}
    /\ Begin(c, "enable", "load", NoUpgrade, NoVersion) /\ Unchanged

\* disable(), quarantine(), uninstall(), and rejectCapabilities(), which is the
\* last whatever the status.
StopExtension(c) ==
    /\ Present
    /\ \E op \in {"disable", "quarantine", "uninstall"} \intersect ExOps :
          Begin(c, op, "load", NoUpgrade, NoVersion)
    /\ Unchanged

\* invokeContribution() and deliver()
Invoke(c) ==
    /\ "invoke" \in ExOps /\ ext.status = "ENABLED"
    /\ Begin(c, "invoke", "load", NoUpgrade, NoVersion) /\ Unchanged

ProposeUpgrade(c) ==
    /\ "upgrade" \in ExOps /\ Present
    /\ \E v \in ExVersions : Begin(c, "upgrade", "propose", NoUpgrade, v)
    /\ Unchanged

\* consentToUpgrade(): what was proposed is applied; whether it would be
\* blocked by now is not asked.
ConsentToUpgrade(c) ==
    /\ "upgrade" \in ExOps /\ Present
    /\ \E u \in Upgrades :
          /\ upgrade[u].outcome = "AWAITING_CONSENT"
          /\ Begin(c, "upgrade", "unregister", u, upgrade[u].to)
    /\ Unchanged

Rollback(c) ==
    /\ "rollback" \in ExOps /\ Present
    /\ \E u \in Upgrades :
          /\ upgrade[u].outcome = "APPLIED"
          /\ \A x \in Upgrades : upgrade[x].outcome = "APPLIED" => upgrade[x].applied <= upgrade[u].applied
          /\ Begin(c, "rollback", "unregister", u, upgrade[u].from)
    /\ Unchanged
-----------------------------------------------------------------------------
(* moduleFor() and the hook                                                 *)

\* What follows the hook, which was run or threw.
AfterHook(op, ok) ==
    CASE op = "enable"                   -> IF ok THEN "status" ELSE "done"
      [] op \in {"disable", "quarantine"} -> "status"
      [] op = "uninstall"                -> "unregister"
      [] op = "initialize"               -> IF ok THEN "done" ELSE "status"
      [] op = "upgrade"                  -> IF ok THEN "applied" ELSE "failed"
      [] op = "invoke"                   -> "done"

\* The module kept is used; otherwise it is loaded, from the row that was read.
ModuleFor(c) ==
    /\ ExAt(c, "load")
    /\ ExGo(c, IF loaded[exCall[c].on] # NoModule THEN "hook" ELSE "loading")
    /\ UNCHANGED <<ext, contrib, upgrade, loaded, behind, untidy>>

LoadEnds(c) ==
    LET m == exCall[c] IN
    /\ ExAt(c, "loading")
    /\ \/ /\ loaded' = [loaded EXCEPT ![m.on] = [version |-> m.version, alive |-> TRUE]]
          /\ behind' = (behind \ {m.on}) \union {i \in {m.on} : m.version # ext.version}
          /\ ExGo(c, "hook")
       \/ /\ ExGo(c, AfterHook(m.op, FALSE))
          /\ UNCHANGED <<loaded, behind>>
    /\ UNCHANGED <<ext, contrib, upgrade, untidy>>

\* A hook of a module whose thread has ended fails.
Hook(c) ==
    LET m == exCall[c] IN
    /\ ExAt(c, "hook")
    /\ \/ /\ loaded[m.on].alive \/ loaded[m.on] = NoModule
          /\ ExGo(c, AfterHook(m.op, TRUE)) /\ UNCHANGED loaded
       \/ /\ ExGo(c, AfterHook(m.op, FALSE))
          /\ \E overrun \in BOOLEAN : loaded' = [loaded EXCEPT ![m.on].alive = @ /\ ~overrun]
    /\ UNCHANGED <<ext, contrib, upgrade, behind, untidy>>

\* Another organization's extension of the same slug is loaded there.
ThreadEnds(i) ==
    /\ loaded[i].alive
    /\ loaded' = [loaded EXCEPT ![i].alive = FALSE]
    /\ UNCHANGED <<ext, contrib, upgrade, exCall, behind, untidy>>
-----------------------------------------------------------------------------
(* Status                                                                   *)

StatusAfter(op) ==
    CASE op = "approve"                 -> "INSTALLED"
      [] op = "enable"                  -> "ENABLED"
      [] op = "disable"                 -> "DISABLED"
      [] op = "quarantine"              -> "QUARANTINED"
      [] op \in {"initialize", "upgrade"} -> "FAILED"

WriteStatus(c) ==
    LET m == exCall[c] IN
    /\ ExAt(c, "status")
    /\ \/ /\ Present
          /\ ext' = [ext EXCEPT !.status = StatusAfter(m.op)]
          /\ \/ m.op = "approve" /\ ExSet(c, [m EXCEPT !.op = "initialize", !.pc = "load",
                                                     !.version = ext.version])
             \/ m.op \in {"initialize", "upgrade"} /\ ExGo(c, "done")
             \/ m.op \in {"enable", "disable", "quarantine"} /\ ExGo(c, "flags")
       \/ ~Present /\ ExGo(c, "done") /\ UNCHANGED ext
    /\ UNCHANGED <<contrib, upgrade, loaded, behind, untidy>>

\* setEnabled; what was stopped is not kept loaded on this instance.
WriteFlags(c) ==
    LET m == exCall[c] IN
    /\ ExAt(c, "flags")
    /\ contrib' = [contrib EXCEPT !.enabled = contrib.version # NoVersion /\ m.op = "enable"]
    /\ \/ m.op = "enable" /\ UNCHANGED <<loaded, behind>>
       \/ /\ m.op # "enable"
          /\ loaded' = [loaded EXCEPT ![m.on] = NoModule] /\ behind' = behind \ {m.on}
    /\ ExGo(c, "done")
    /\ UNCHANGED <<ext, upgrade, untidy>>
-----------------------------------------------------------------------------
(* Upgrades and their rollback                                              *)

\* proposeUpgrade(): the row of the upgrade, from the version that was read.
CreateUpgrade(c) ==
    LET m == exCall[c]
        Outcome(consent) == IF m.to <= m.version THEN "BLOCKED"
                            ELSE IF m.to \in Breaking /\ ~consent THEN "AWAITING_CONSENT" ELSE "PENDING"
    IN
    /\ ExAt(c, "propose")
    /\ \E u \in Upgrades, consent \in BOOLEAN :
          /\ upgrade[u].outcome = "none" /\ \A x \in 1 .. u - 1 : upgrade[x].outcome # "none"
          /\ upgrade' = [upgrade EXCEPT ![u] = [outcome |-> Outcome(consent), from |-> m.version,
                                                to |-> m.to, applied |-> 0]]
          /\ IF Outcome(consent) = "PENDING" THEN ExSet(c, [m EXCEPT !.u = u, !.pc = "unregister"])
             ELSE ExGo(c, "done")
    /\ UNCHANGED <<ext, contrib, loaded, behind, untidy>>

Unregister(c) ==
    /\ ExAt(c, "unregister")
    /\ contrib' = [version |-> NoVersion, enabled |-> FALSE]
    /\ ExGo(c, IF exCall[c].op = "uninstall" THEN "unload" ELSE "row")
    /\ UNCHANGED <<ext, upgrade, loaded, behind, untidy>>

\* The row gets the version; the modules kept elsewhere stay what they are.
WriteVersion(c) ==
    LET m == exCall[c] IN
    /\ ExAt(c, "row")
    /\ \/ /\ Present
          /\ ext' = [ext EXCEPT !.version = m.to]
          /\ behind' = behind \union {i \in Hosts \ {m.on} : loaded[i] # NoModule}
          /\ untidy' = (untidy \/ (m.op = "upgrade" /\ upgrade[m.u].from # ext.version))
          /\ ExGo(c, "reread")
       \/ /\ ~Present
          /\ ExGo(c, IF m.op = "upgrade" THEN "failed" ELSE "done")
          /\ UNCHANGED <<ext, behind, untidy>>
    /\ UNCHANGED <<contrib, upgrade, loaded>>

\* (mutant) the module is kept
DroppedNot(c) == loaded
Dropped(c)    == [loaded EXCEPT ![exCall[c].on] = NoModule]

\* The row is read back and the module of this instance is dropped.
Reread(c) ==
    LET m == exCall[c] IN
    /\ ExAt(c, "reread")
    /\ \/ /\ Present
          /\ loaded' = Dropped(c) /\ behind' = behind \ {m.on}
          /\ ExSet(c, [m EXCEPT !.pc = "register", !.version = ext.version])
       \/ /\ ~Present
          /\ ExGo(c, IF m.op = "upgrade" THEN "failed" ELSE "done")
          /\ UNCHANGED <<loaded, behind>>
    /\ UNCHANGED <<ext, contrib, upgrade, untidy>>

Register(c) ==
    LET m == exCall[c] IN
    /\ ExAt(c, "register")
    /\ contrib' = [version |-> m.to, enabled |-> TRUE]
    /\ \/ /\ m.op = "install" /\ m.status = "PENDING_REVIEW" /\ ExGo(c, "done")
       \/ /\ m.op = "install" /\ m.status = "INSTALLED"
          /\ ExSet(c, [m EXCEPT !.op = "initialize", !.pc = "load"])
       \/ /\ m.op = "upgrade" /\ ExGo(c, IF m.to \in Migrating THEN "load" ELSE "applied")
       \/ /\ m.op = "rollback" /\ ExGo(c, "rolledBack")
    /\ UNCHANGED <<ext, upgrade, loaded, behind, untidy>>

LastApplied == Cardinality({u \in Upgrades : upgrade[u].applied > 0})

\* (mutant) what was rolled back stays APPLIED
UndoneKept == "APPLIED"
Undone     == "ROLLED_BACK"

\* The last statement of an upgrade or a rollback.
Settle(c) ==
    LET m == exCall[c] IN
    /\ \/ /\ ExAt(c, "applied")
          /\ upgrade' = [upgrade EXCEPT ![m.u] = [@ EXCEPT !.outcome = "APPLIED", !.applied = LastApplied + 1]]
          /\ ExGo(c, "done") /\ UNCHANGED untidy
       \/ /\ ExAt(c, "rolledBack")
          /\ upgrade' = [upgrade EXCEPT ![m.u].outcome = Undone]
          /\ ExGo(c, "done") /\ UNCHANGED untidy
       \/ /\ ExAt(c, "failed")
          /\ upgrade' = [upgrade EXCEPT ![m.u].outcome = "FAILED"]
          /\ ExGo(c, "status") /\ untidy' = TRUE
    /\ UNCHANGED <<ext, contrib, loaded, behind>>
-----------------------------------------------------------------------------
(* The end of uninstall()                                                   *)

Unload(c) ==
    /\ ExAt(c, "unload")
    /\ loaded' = [loaded EXCEPT ![exCall[c].on] = NoModule] /\ behind' = behind \ {exCall[c].on}
    /\ ExGo(c, "remove")
    /\ UNCHANGED <<ext, contrib, upgrade, untidy>>

Remove(c) ==
    /\ ExAt(c, "remove")
    /\ ext' = [ext EXCEPT !.status = "removed"]
    /\ ExGo(c, "done")
    /\ UNCHANGED <<contrib, upgrade, loaded, behind, untidy>>

ExNext ==
    \/ \E c \in ExCalls :
          \/ Install(c) \/ ApproveCapabilities(c) \/ Enable(c) \/ StopExtension(c) \/ Invoke(c)
          \/ ProposeUpgrade(c) \/ ConsentToUpgrade(c) \/ Rollback(c)
          \/ ModuleFor(c) \/ LoadEnds(c) \/ Hook(c)
          \/ WriteStatus(c) \/ WriteFlags(c)
          \/ CreateUpgrade(c) \/ Unregister(c) \/ WriteVersion(c) \/ Reread(c) \/ Register(c) \/ Settle(c)
          \/ Unload(c) \/ Remove(c)
    \/ \E i \in Hosts : ThreadEnds(i)

ExSpec == ExInit /\ [][ExNext]_exVars
-----------------------------------------------------------------------------
\* The row, contributions, upgrades, modules and calls are of their types.
ExTypeOK ==
    /\ ext \in [status : {"none", "PENDING_REVIEW", "INSTALLED", "ENABLED", "DISABLED", "QUARANTINED",
                         "FAILED", "removed"},
               version : ExVersions \union {NoVersion}]
    /\ contrib \in [version : ExVersions \union {NoVersion}, enabled : BOOLEAN]
    /\ upgrade \in [Upgrades -> [outcome : {"none", "BLOCKED", "AWAITING_CONSENT", "PENDING", "APPLIED",
                                            "FAILED", "ROLLED_BACK"},
                                 from : ExVersions \union {NoVersion}, to : ExVersions \union {NoVersion},
                                 applied : Nat]]
    /\ loaded \in [Hosts -> [version : ExVersions \union {NoVersion}, alive : BOOLEAN]]
    /\ behind \subseteq Hosts /\ untidy \in BOOLEAN

\* The version the history of upgrades tells: where the last applied one led.
Told ==
    LET applied == {u \in Upgrades : upgrade[u].outcome = "APPLIED"} IN
    IF applied = {} THEN NoVersion
    ELSE LET last == CHOOSE u \in applied : \A x \in applied : upgrade[x].applied <= upgrade[u].applied
         IN  upgrade[last].to

\* The row, the contributions and the upgrades tell of one version, through
\* upgrades and rollbacks, if these were made one after the other, none failed
\* and none was proposed on another version than it was applied to.
OneVersion ==
    Present /\ ~untidy /\ (\A c \in ExCalls : ~Replacing(c)) =>
        /\ contrib.version = ext.version
        /\ Told \in {ext.version, NoVersion}

\* The module an instance keeps is of the row's version, unless the version was
\* changed from another instance, or the module was being loaded meanwhile.
ModuleFollowsRow ==
    \A i \in Hosts :
        Present /\ loaded[i] # NoModule /\ loaded[i].version # ext.version =>
            i \in behind \/ \E c \in ExCalls : ExAt(c, "reread") /\ exCall[c].on = i
=============================================================================

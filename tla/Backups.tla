------------------------------ MODULE Backups ------------------------------
(***************************************************************************)
(* Backups (BackupService): the rows, the artefact of each, which the      *)
(* instance that made it holds in a bounded map and which is also put in   *)
(* the object store, verification, restore and retention.                  *)
(*                                                                         *)
(* A step is one statement.  A call works on the row it read at its        *)
(* beginning, and updates are unconditional.  The store prefixes each name *)
(* with an id of its own; a row records the name without it.  An artefact  *)
(* is its size; what a restore inserts is not represented.                 *)
(***************************************************************************)
EXTENDS Naturals, Sequences, FiniteSets

CONSTANTS
    BkHosts,
    MaxBackups,      \* bound: rows, numbered as they are created
    MaxBkCalls,      \* bound: calls, numbered as they begin
    BodySizes,
    ARTEFACT_CACHE_BYTES

Bks     == 1 .. MaxBackups
NoBk    == 0
BkCalls == 1 .. MaxBkCalls

ASSUME BackupsAssumption ==
    /\ BkHosts # {} /\ MaxBackups \in Nat /\ MaxBkCalls \in Nat
    /\ BodySizes \subseteq Nat \ {0} /\ ARTEFACT_CACHE_BYTES \in Nat \ {0}

VARIABLES
    backup,    \* the rows; `stored`: the location, key and checksum are written
    object,    \* the names in the object store
    held,      \* the artefacts an instance holds, the least recently used first
    weight,    \* what its map believes to hold
    bkCall,    \* the calls, with the status of the RestoreRun each creates
    exposed,   \* history: backups looked for elsewhere or too early, past their retention,
               \* followed by more than their instance holds, or whose verdict was not written
    kept       \* history: what an instance kept since it started, and did not forget

bkVars == <<backup, object, held, weight, bkCall, exposed, kept>>

NoBkCall == [pc |-> "idle", op |-> "run", on |-> CHOOSE i \in BkHosts : TRUE, b |-> NoBk,
             stored |-> FALSE, readable |-> FALSE, dry |-> TRUE, due |-> {}, restore |-> "none"]

BkInit ==
    /\ backup = [b \in Bks |-> [status |-> "none", stored |-> FALSE, size |-> 0, due |-> FALSE,
                                by |-> CHOOSE i \in BkHosts : TRUE]]
    /\ object = {}
    /\ held = [i \in BkHosts |-> <<>>]
    /\ weight = [i \in BkHosts |-> 0]
    /\ bkCall = [c \in BkCalls |-> NoBkCall]
    /\ exposed = {} /\ kept = [i \in BkHosts |-> {}]

BkAt(c, step) == bkCall[c].pc = step
BkSet(c, r)   == bkCall' = [bkCall EXCEPT ![c] = r]
BkOver        == {"idle", "done"}
\* A call that is over holds nothing but its RestoreRun.
BkGo(c, step) ==
    BkSet(c, IF step \in BkOver THEN [NoBkCall EXCEPT !.pc = step, !.restore = bkCall[c].restore]
             ELSE [bkCall[c] EXCEPT !.pc = step])
BkBegins(c)   == BkAt(c, "idle") /\ \A x \in 1 .. c - 1 : ~BkAt(x, "idle")
SetStatusOf(b, s) == backup' = [backup EXCEPT ![b].status = s]

\* Where upload() puts the artefact, and where the row says it is.
Key(b)      == <<"id", b>>
Location(b) == <<b>>
-----------------------------------------------------------------------------
(* BoundedMap, weighed by size                                              *)

Among(s) == {s[j] : j \in DOMAIN s}

\* The sum of a number per row, and what the artefacts of a set weigh.
Total(w) ==
    LET upTo[n \in 0 .. MaxBackups] == IF n = 0 THEN 0 ELSE upTo[n - 1] + w[n] IN upTo[MaxBackups]
SizeOf(B) == Total([b \in Bks |-> IF b \in B THEN backup[b].size ELSE 0])

\* An artefact is held once.
PlaceOf(s, b) == CHOOSE j \in DOMAIN s : s[j] = b
Without(s, b) ==
    IF b \notin Among(s) THEN s
    ELSE [j \in 1 .. Len(s) - 1 |-> IF j < PlaceOf(s, b) THEN s[j] ELSE s[j + 1]]

\* set(): the least recently used are evicted until the rest fits or is alone.
Evictions(s, w) ==
    CHOOSE n \in 0 .. Len(s) - 1 :
        LET Fits(k) == w <= ARTEFACT_CACHE_BYTES + SizeOf(Among(SubSeq(s, 1, k))) \/ k = Len(s) - 1 IN
        Fits(n) /\ \A k \in 0 .. n - 1 : ~Fits(k)

\* (mutant) what would fill the map is not kept
MapSetIfRoom(i, b) ==
    IF weight[i] + backup[b].size >= ARTEFACT_CACHE_BYTES THEN UNCHANGED <<held, weight>>
    ELSE /\ held' = [held EXCEPT ![i] = Append(@, b)]
         /\ weight' = [weight EXCEPT ![i] = @ + backup[b].size]
MapSet(i, b) ==
    LET s == Append(Without(held[i], b), b)
        w == weight[i] - SizeOf(Among(held[i]) \intersect {b}) + backup[b].size
        n == Evictions(s, w)
    IN  /\ held' = [held EXCEPT ![i] = SubSeq(s, n + 1, Len(s))]
        /\ weight' = [weight EXCEPT ![i] = w - SizeOf(Among(SubSeq(s, 1, n)))]

\* get(): what is read becomes the most recently used.
MapGet(i, b) == held' = [held EXCEPT ![i] = Append(Without(@, b), b)]

MapDelete(i, b) ==
    /\ held' = [held EXCEPT ![i] = Without(@, b)]
    /\ weight' = [weight EXCEPT ![i] = @ - SizeOf(Among(held[i]) \intersect {b})]
-----------------------------------------------------------------------------
(* run()                                                                    *)

RunBackup(c, i) ==
    /\ BkBegins(c)
    /\ \E b \in Bks :
          /\ backup[b].status = "none" /\ \A x \in 1 .. b - 1 : backup[x].status # "none"
          /\ backup' = [backup EXCEPT ![b] = [@ EXCEPT !.status = "RUNNING", !.by = i]]
          /\ BkSet(c, [NoBkCall EXCEPT !.pc = "export", !.on = i, !.b = b])
    /\ UNCHANGED <<object, held, weight, exposed, kept>>

\* A table or the body is too large, or the driver fails; otherwise the
\* artefact is in the store.
Upload(c) ==
    LET b == bkCall[c].b IN
    /\ BkAt(c, "export")
    /\ \/ BkGo(c, "failed") /\ UNCHANGED <<backup, object>>
       \/ /\ \E n \in BodySizes : backup' = [backup EXCEPT ![b].size = n]
          /\ object' = object \union {Key(b)}
          /\ BkGo(c, "record")
    /\ UNCHANGED <<held, weight, exposed, kept>>

RecordBackup(c) ==
    /\ \/ /\ BkAt(c, "record") /\ BkGo(c, "keep")
          /\ backup' = [backup EXCEPT ![bkCall[c].b] = [@ EXCEPT !.status = "SUCCEEDED", !.stored = TRUE]]
       \/ BkAt(c, "record") /\ BkGo(c, "failed") /\ UNCHANGED backup      \* the update fails
       \/ BkAt(c, "failed") /\ BkGo(c, "done") /\ SetStatusOf(bkCall[c].b, "FAILED")
    /\ UNCHANGED <<object, held, weight, exposed, kept>>

KeepArtefact(c) ==
    LET m == bkCall[c] IN
    /\ BkAt(c, "keep")
    /\ MapSet(m.on, m.b) /\ kept' = [kept EXCEPT ![m.on] = @ \union {m.b}]
    /\ exposed' = exposed \union (IF SizeOf(kept'[m.on]) > ARTEFACT_CACHE_BYTES THEN kept[m.on] ELSE {})
    /\ BkGo(c, "done")
    /\ UNCHANGED <<backup, object>>
-----------------------------------------------------------------------------
(* verify() and restore()                                                   *)

\* A call elsewhere, or before the artefact is kept, looks for what is not there.
Misplaced(b, i) == i # backup[b].by \/ b \notin kept[i]

Reads(c, i, op, b, dry) ==
    /\ BkBegins(c)
    /\ BkSet(c, [NoBkCall EXCEPT !.pc = "read", !.op = op, !.on = i, !.b = b, !.dry = dry,
                 !.stored = backup[b].stored, !.restore = IF op = "restore" THEN "RUNNING" ELSE "none"])
    /\ exposed' = exposed \union {x \in {b} : Misplaced(b, i)}
    /\ UNCHANGED <<backup, object, held, weight, kept>>

Verify(c, i) ==
    \E b \in Bks : backup[b].status \notin {"none", "FAILED"} /\ Reads(c, i, "verify", b, TRUE)

\* Whatever the status; the RestoreRun is created at once.
Restore(c, i) ==
    \E b \in Bks, dry \in BOOLEAN : backup[b].status # "none" /\ Reads(c, i, "restore", b, dry)

\* pointInTime(): of the usable backups, the newest before a time that is given.
PointInTime(c, i) ==
    \E b \in Bks, dry \in BOOLEAN :
        backup[b].status \in {"SUCCEEDED", "VERIFIED"} /\ Reads(c, i, "restore", b, dry)

\* readArtefact(), then decryption and the checksum, with the key and the sum
\* in the row that was read.
ReadArtefact(c) ==
    LET m == bkCall[c]
        hit == m.b \in Among(held[m.on])
        found == hit \/ (m.stored /\ Location(m.b) \in object)
    IN
    /\ BkAt(c, "read")
    /\ IF hit THEN MapGet(m.on, m.b) ELSE UNCHANGED held
    /\ BkSet(c, [m EXCEPT !.readable = found /\ m.stored,
                 !.pc = IF m.op = "verify" THEN "verdict" ELSE "finish"])
    /\ UNCHANGED <<backup, object, weight, exposed, kept>>

\* When the update to VERIFIED fails, that too makes the backup CORRUPT.
Verdict(c) ==
    LET b == bkCall[c].b IN
    /\ BkAt(c, "verdict")
    /\ \/ /\ SetStatusOf(b, IF bkCall[c].readable THEN "VERIFIED" ELSE "CORRUPT")
          /\ UNCHANGED exposed
       \/ /\ bkCall[c].readable /\ SetStatusOf(b, "CORRUPT")
          /\ exposed' = exposed \union {b}
    /\ BkGo(c, "done")
    /\ UNCHANGED <<object, held, weight, kept>>

FinishRestore(c) ==
    LET m == bkCall[c] IN
    /\ BkAt(c, "finish")
    /\ \/ BkSet(c, [NoBkCall EXCEPT !.restore = "FAILED", !.pc = "done"])
       \/ m.readable /\ BkSet(c, [(IF m.dry THEN NoBkCall ELSE m) EXCEPT
                                 !.restore = "SUCCEEDED", !.pc = IF m.dry THEN "done" ELSE "exercised"])
    /\ UNCHANGED <<backup, object, held, weight, exposed, kept>>

\* What was restored from is VERIFIED; if this fails, so has the restore.
Exercised(c) ==
    /\ BkAt(c, "exercised")
    /\ \/ SetStatusOf(bkCall[c].b, "VERIFIED") /\ BkGo(c, "done")
       \/ BkSet(c, [NoBkCall EXCEPT !.restore = "FAILED", !.pc = "done"]) /\ UNCHANGED backup
    /\ UNCHANGED <<object, held, weight, exposed, kept>>
-----------------------------------------------------------------------------
(* prune(), time and restarts                                               *)

Expired == {b \in Bks : backup[b].due /\ backup[b].status # "EXPIRED"}

Prune(c, i) ==
    /\ BkBegins(c) /\ Expired # {}
    /\ BkSet(c, [NoBkCall EXCEPT !.pc = "prune", !.op = "prune", !.on = i, !.due = Expired])
    /\ UNCHANGED <<backup, object, held, weight, exposed, kept>>

PruneRow(c) ==
    /\ BkAt(c, "prune")
    /\ \/ bkCall[c].due = {} /\ BkGo(c, "done") /\ UNCHANGED <<backup, exposed>>
       \/ \E b \in bkCall[c].due :
             /\ SetStatusOf(b, "EXPIRED") /\ exposed' = exposed \union {b}
             /\ BkSet(c, [bkCall[c] EXCEPT !.pc = "forget", !.b = b, !.due = @ \ {b}])
    /\ UNCHANGED <<object, held, weight, kept>>

Forget(c) ==
    /\ BkAt(c, "forget")
    /\ MapDelete(bkCall[c].on, bkCall[c].b)
    /\ kept' = [kept EXCEPT ![bkCall[c].on] = @ \ {bkCall[c].b}]
    /\ BkGo(c, "prune")
    /\ UNCHANGED <<backup, object, exposed>>

\* Retention is counted in days: no call that makes the backup is still going.
RetentionEnds(b) ==
    /\ backup[b].status \notin {"none", "EXPIRED"} /\ ~backup[b].due
    /\ \A c \in BkCalls : bkCall[c].op = "run" => bkCall[c].b # b
    /\ backup' = [backup EXCEPT ![b].due = TRUE]
    /\ UNCHANGED <<object, held, weight, bkCall, exposed, kept>>

\* The calls of an instance die with it, and what it held is gone.
HostRestarts(i) ==
    /\ held[i] # <<>> \/ \E c \in BkCalls : bkCall[c].on = i /\ bkCall[c].pc \notin BkOver
    /\ held' = [held EXCEPT ![i] = <<>>] /\ weight' = [weight EXCEPT ![i] = 0]
    /\ kept' = [kept EXCEPT ![i] = {}]
    /\ bkCall' = [c \in BkCalls |->
                    IF bkCall[c].on = i /\ bkCall[c].pc \notin BkOver
                    THEN [NoBkCall EXCEPT !.pc = "done", !.restore = bkCall[c].restore] ELSE bkCall[c]]
    /\ exposed' = exposed \union {b \in Bks : backup[b].status # "none" /\ backup[b].by = i}
    /\ UNCHANGED <<backup, object>>

BkNext ==
    \/ \E c \in BkCalls :
          \/ \E i \in BkHosts : RunBackup(c, i) \/ Verify(c, i) \/ Restore(c, i) \/ PointInTime(c, i) \/ Prune(c, i)
          \/ Upload(c) \/ RecordBackup(c) \/ KeepArtefact(c)
          \/ ReadArtefact(c) \/ Verdict(c) \/ FinishRestore(c) \/ Exercised(c)
          \/ PruneRow(c) \/ Forget(c)
    \/ \E b \in Bks : RetentionEnds(b)
    \/ \E i \in BkHosts : HostRestarts(i)

BkSpec == BkInit /\ [][BkNext]_bkVars
-----------------------------------------------------------------------------
\* Rows, maps and calls are of their types; a map's weight is that of what it holds.
BkTypeOK ==
    /\ backup \in [Bks -> [status : {"none", "RUNNING", "SUCCEEDED", "VERIFIED", "CORRUPT", "FAILED", "EXPIRED"},
                           stored : BOOLEAN, size : BodySizes \union {0}, due : BOOLEAN, by : BkHosts]]
    /\ \A i \in BkHosts : Among(held[i]) \subseteq kept[i] /\ kept[i] \subseteq Bks
    /\ \A i \in BkHosts : Cardinality(Among(held[i])) = Len(held[i]) /\ weight[i] = SizeOf(Among(held[i]))
    /\ exposed \subseteq Bks
    /\ bkCall \in [BkCalls -> [pc : {"idle", "export", "record", "failed", "keep", "read", "verdict",
                                     "finish", "exercised", "prune", "forget", "done"},
                               op : {"run", "verify", "restore", "prune"}, on : BkHosts,
                               b : Bks \union {NoBk}, stored : BOOLEAN, readable : BOOLEAN, dry : BOOLEAN,
                               due : SUBSET Bks, restore : {"none", "RUNNING", "SUCCEEDED", "FAILED"}]]

\* A backup is declared CORRUPT only for a reason: it was looked for on another
\* instance, before it was kept or past its retention, its instance restarted
\* or kept more after it than its map holds, or the verdict could not be written;
\* so the newest of an instance is never lost, whatever its size (readArtefact() finds nothing under the location that
\* run() records).
CorruptHasACause == \A b \in Bks : backup[b].status = "CORRUPT" => b \in exposed
=============================================================================

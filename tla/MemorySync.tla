----------------------------- MODULE MemorySync -----------------------------
(***************************************************************************)
(* One record of the memory that spans machines (MemorySyncService): the  *)
(* shard row with its version and vector clock, the log of operations     *)
(* that replicates it, and the cursor of each node.  put() writes here,   *)
(* apply() takes a write that a node made, pull() hands a node what it    *)
(* has not seen.                                                          *)
(*                                                                        *)
(* Every statement is a step.  The number of a log entry is drawn before  *)
(* its insert commits, so entries may become visible out of order.  A     *)
(* shard is updated where it is not deleted and read back afterwards, and *)
(* both throw when it is (BaseRepository.update); remove() has no caller. *)
(* Nodes are external: a node writes from what it knows, repeats what it  *)
(* sent, and learns from the answers to its pulls.                        *)
(***************************************************************************)
EXTENDS Naturals, FiniteSets

CONSTANTS
    MsNodes, ControlPlane,
    MaxMsCalls,   \* bound: calls of put, apply and pull, numbered as they are made
    MaxClock,     \* bound: writes of one writer
    PULL_BATCH

MsCalls   == 1 .. MaxMsCalls      \* a call also names the value it writes
NoWrite   == 0
Writers   == MsNodes \union {ControlPlane}
Scopes    == {"SHARED", "GLOBAL"}
Clock     == [Writers -> 0 .. MaxClock]
Version   == Nat                  \* a clock may go back where its version does not

ASSUME MemorySyncAssumption ==
    /\ ControlPlane \notin MsNodes /\ MaxMsCalls \in Nat
    /\ MaxClock \in Nat /\ PULL_BATCH \in Nat \ {0}

VARIABLES
    shard,      \* the row
    opLog,      \* the committed log entries
    nextSeq,    \* the sequence they are numbered from
    cursor,     \* cursor[n][scope], of node_sync_states
    known,      \* what each node has seen and written, as the next write says it
    sent,       \* the last write each node sent
    msCall,
    delivered,  \* history: the entries each node received
    gone,       \* history: the entries whose answer a node never received
    late        \* history: entries committed after a later one

msVars == <<shard, opLog, nextSeq, cursor, known, sent, msCall, delivered, gone, late>>

Zero    == [w \in Writers |-> 0]
NoShard == [exists |-> FALSE, value |-> NoWrite, version |-> 0, clock |-> Zero, deleted |-> FALSE]
Nothing == [op |-> "PUT", value |-> NoWrite, version |-> 0, clock |-> Zero]

MsInit ==
    /\ shard = NoShard /\ opLog = {} /\ nextSeq = 1
    /\ cursor = [n \in MsNodes |-> [s \in Scopes |-> 0]]
    /\ known = [n \in MsNodes |-> [version |-> 0, clock |-> Zero]]
    /\ sent = [n \in MsNodes |-> Nothing]
    /\ msCall = [c \in MsCalls |-> [pc |-> "idle", by |-> ControlPlane, held |-> NoShard, in |-> Nothing,
                                    status |-> "APPLIED", won |-> FALSE, seq |-> 0, ops |-> {},
                                    left |-> {}, upTo |-> 0]]
    /\ delivered = [n \in MsNodes |-> {}]
    /\ gone = [n \in MsNodes |-> {}]
    /\ late = {}

MsAt(c, step) == msCall[c].pc = step
MsNew(c)      == MsAt(c, "idle") /\ \A d \in MsCalls : d < c => ~MsAt(d, "idle")
MsSet(c, r)   == msCall' = [msCall EXCEPT ![c] = r]
MsGo(c, step) == MsSet(c, [msCall[c] EXCEPT !.pc = step])
MsHistory     == <<delivered, gone, late>>
-----------------------------------------------------------------------------
(* Vector clocks                                                            *)

TickOf(clock, w) == [clock EXCEPT ![w] = @ + 1]
MergeOf(a, b)    == [w \in Writers |-> IF a[w] > b[w] THEN a[w] ELSE b[w]]
Dominates(a, b)  == (\A w \in Writers : a[w] >= b[w]) /\ \E w \in Writers : a[w] > b[w]
LargerOf(x, y)   == IF x > y THEN x ELSE y
-----------------------------------------------------------------------------
(* put()                                                                    *)

PutBegin(c) ==
    /\ MsNew(c)
    /\ \E w \in Writers :
          MsSet(c, [msCall[c] EXCEPT !.pc = "putWrite", !.by = w, !.held = shard, !.in.value = c])
    /\ UNCHANGED <<shard, opLog, nextSeq, cursor, known, sent, MsHistory>>

\* apply() found nothing and calls put(), which reads for itself.
PutRead(c) ==
    /\ MsAt(c, "putRead")
    /\ MsSet(c, [msCall[c] EXCEPT !.pc = "putWrite", !.held = shard])
    /\ UNCHANGED <<shard, opLog, nextSeq, cursor, known, sent, MsHistory>>

\* Update what was found, or create; the key is unique.
PutWrite(c) ==
    LET m == msCall[c] IN
    /\ MsAt(c, "putWrite")
    /\ m.held.clock[m.by] < MaxClock
    /\ \/ /\ IF m.held.exists THEN ~shard.deleted ELSE ~shard.exists
          /\ shard' = [exists |-> TRUE, value |-> m.in.value, version |-> m.held.version + 1,
                       clock |-> TickOf(m.held.clock, m.by), deleted |-> FALSE]
          /\ MsSet(c, [m EXCEPT !.pc = IF m.held.exists THEN "readBack" ELSE "draw",
                                !.in.version = m.held.version + 1,
                                !.in.clock = TickOf(m.held.clock, m.by)])
       \/ /\ IF m.held.exists THEN shard.deleted ELSE shard.exists
          /\ MsGo(c, "thrown")
          /\ UNCHANGED shard
    /\ UNCHANGED <<opLog, nextSeq, cursor, known, sent, MsHistory>>

\* update() reads the row back, not deleted; put() then appends.
ReadBack(c) ==
    /\ MsAt(c, "readBack")
    /\ MsGo(c, IF shard.deleted THEN "thrown" ELSE "draw")
    /\ UNCHANGED <<shard, opLog, nextSeq, cursor, known, sent, MsHistory>>

\* appendOp(): the number is drawn, then the insert commits.
Draw(c) ==
    /\ MsAt(c, "draw")
    /\ MsSet(c, [msCall[c] EXCEPT !.pc = "append", !.seq = nextSeq])
    /\ nextSeq' = nextSeq + 1
    /\ UNCHANGED <<shard, opLog, cursor, known, sent, MsHistory>>

AppendOp(c) ==
    LET m == msCall[c] IN
    /\ MsAt(c, "append")
    /\ opLog' = opLog \union {[seq |-> m.seq, write |-> m.in, status |-> m.status]}
    /\ late' = late \union {q \in {m.seq} : \E o \in opLog : o.seq > q}
    /\ MsGo(c, IF m.status = "CONFLICT" THEN "commit" ELSE "done")
    /\ UNCHANGED <<shard, nextSeq, cursor, known, sent, delivered, gone>>
-----------------------------------------------------------------------------
(* apply()                                                                  *)

\* A node writes from what it knows, or repeats its last write.
Incoming(n) ==
    ({sent[n]} \ {Nothing}) \union
    {[op |-> o, value |-> NoWrite, version |-> known[n].version + 1,
      clock |-> TickOf(known[n].clock, n)] : o \in {o \in {"PUT", "DELETE"} : known[n].clock[n] < MaxClock}}

Resolved(m, row) ==
    CASE ~row.exists /\ m.op = "DELETE"                  -> {"none"}
      [] ~row.exists /\ m.op = "PUT"                     -> {"new"}
      [] row.exists /\ Dominates(m.clock, row.clock)     -> {"forward"}
      [] row.exists /\ Dominates(row.clock, m.clock)     -> {"behind"}
      [] row.exists /\ ~Dominates(m.clock, row.clock) /\ ~Dominates(row.clock, m.clock) ->
            IF m.version > row.version THEN {"won"}
            ELSE IF m.version < row.version THEN {"lost"} ELSE {"won", "lost"}

ApplyRead(c) ==
    /\ MsNew(c)
    /\ \E n \in MsNodes : \E i \in Incoming(n) :
          LET in == IF i.value = NoWrite THEN [i EXCEPT !.value = c] ELSE i IN
          /\ sent' = [sent EXCEPT ![n] = in]
          /\ known' = [known EXCEPT ![n] = [version |-> LargerOf(@.version, in.version),
                                            clock |-> MergeOf(@.clock, in.clock)]]
          /\ \E v \in Resolved(in, shard) :
                MsSet(c, [msCall[c] EXCEPT
                    !.by = n, !.held = shard, !.in = in, !.won = v # "lost",
                    !.status = CASE v = "behind" -> "SUPERSEDED" [] v \in {"won", "lost"} -> "CONFLICT"
                                 [] OTHER -> "APPLIED",
                    !.pc = CASE v = "none" -> "done" [] v = "new" -> "putRead"
                             [] v = "forward" -> "commit" [] OTHER -> "draw"])
    /\ UNCHANGED <<shard, opLog, nextSeq, cursor, MsHistory>>

\* commit(), or the update of the clock alone when the local side won.  The
\* tombstone is written, but cannot be read back.
Committed(c) ==
    LET m == msCall[c]
        clock == IF m.status = "CONFLICT" THEN MergeOf(m.held.clock, m.in.clock) ELSE m.in.clock
    IN  IF ~m.won THEN [shard EXCEPT !.clock = clock]
        ELSE [shard EXCEPT !.version = LargerOf(m.held.version, m.in.version), !.clock = clock,
                           !.value = IF m.in.op = "PUT" THEN m.in.value ELSE @,
                           !.deleted = m.in.op = "DELETE"]
Commit(c) ==
    /\ MsAt(c, "commit")
    /\ \/ /\ ~shard.deleted
          /\ shard' = Committed(c)
          /\ MsGo(c, "readCommitted")
       \/ shard.deleted /\ MsGo(c, "thrown") /\ UNCHANGED shard
    /\ UNCHANGED <<opLog, nextSeq, cursor, known, sent, MsHistory>>

ReadCommitted(c) ==
    /\ MsAt(c, "readCommitted")
    /\ MsGo(c, IF shard.deleted THEN "thrown" ELSE "done")
    /\ UNCHANGED <<shard, opLog, nextSeq, cursor, known, sent, MsHistory>>
-----------------------------------------------------------------------------
(* pull(), which recover() repeats                                          *)

SmallestOf(S) == CHOOSE x \in S : \A y \in S : x <= y
LargestOf(S)  == CHOOSE x \in S : \A y \in S : y <= x

PullBegin(c) ==
    /\ MsNew(c)
    /\ \E n \in MsNodes, S \in (SUBSET Scopes) \ {{}} :
          MsSet(c, [msCall[c] EXCEPT !.pc = "pullOps", !.by = n, !.left = S,
                                     !.upTo = SmallestOf({cursor[n][s] : s \in S})])
    /\ UNCHANGED <<shard, opLog, nextSeq, cursor, known, sent, MsHistory>>

\* The next entries after the cursor, in order; the record is a SHARED one.
Since(after, S) ==
    LET unseen == {o \in opLog : o.seq > after /\ "SHARED" \in S} IN
    {o \in unseen : Cardinality({p \in unseen : p.seq < o.seq}) < PULL_BATCH}

\* (mutant) the cursor is set to the latest entry there is
AdvancedToLatest(after, ops) ==
    IF opLog = {} THEN after ELSE CHOOSE q \in {o.seq : o \in opLog} : \A o \in opLog : o.seq <= q
Advanced(after, ops) ==
    IF ops = {} THEN after ELSE CHOOSE q \in {o.seq : o \in ops} : \A o \in ops : o.seq <= q

PullOps(c) ==
    LET m == msCall[c]
        ops == Since(m.upTo, m.left)
    IN
    /\ MsAt(c, "pullOps")
    /\ MsSet(c, [m EXCEPT !.pc = "advance", !.ops = ops, !.upTo = Advanced(m.upTo, ops)])
    /\ UNCHANGED <<shard, opLog, nextSeq, cursor, known, sent, MsHistory>>

\* One upsert per scope.
Advance(c) ==
    LET m == msCall[c] IN
    /\ MsAt(c, "advance")
    /\ \E s \in m.left :
          /\ cursor' = [cursor EXCEPT ![m.by][s] = m.upTo]
          /\ MsSet(c, [m EXCEPT !.left = @ \ {s}, !.pc = IF m.left = {s} THEN "answer" ELSE "advance"])
    /\ UNCHANGED <<shard, opLog, nextSeq, known, sent, MsHistory>>

\* The answer reaches the node, or is lost; the cursor has moved already.
Seqs(ops) == {o.seq : o \in ops}
Answer(c) ==
    LET m == msCall[c] IN
    /\ MsAt(c, "answer")
    /\ MsGo(c, "done")
    /\ \/ /\ delivered' = [delivered EXCEPT ![m.by] = @ \union Seqs(m.ops)]
          /\ known' = [known EXCEPT ![m.by] =
                [version |-> LargestOf({@.version} \union {o.write.version : o \in m.ops}),
                 clock |-> [w \in Writers |-> LargestOf({@.clock[w]} \union {o.write.clock[w] : o \in m.ops})]]]
          /\ UNCHANGED gone
       \/ /\ gone' = [gone EXCEPT ![m.by] = @ \union Seqs(m.ops)]
          /\ UNCHANGED <<delivered, known>>
    /\ UNCHANGED <<shard, opLog, nextSeq, cursor, sent, late>>

MsNext ==
    \E c \in MsCalls :
        \/ PutBegin(c) \/ PutRead(c) \/ PutWrite(c) \/ ReadBack(c) \/ Draw(c) \/ AppendOp(c)
        \/ ApplyRead(c) \/ Commit(c) \/ ReadCommitted(c)
        \/ PullBegin(c) \/ PullOps(c) \/ Advance(c) \/ Answer(c)

MsSpec == MsInit /\ [][MsNext]_msVars
-----------------------------------------------------------------------------
Write == [op : {"PUT", "DELETE"}, value : 0 .. MaxMsCalls, version : Version, clock : Clock]
ShardRow   == [exists : BOOLEAN, value : 0 .. MaxMsCalls, version : Version, clock : Clock,
          deleted : BOOLEAN]
Entry == [seq : Nat, write : Write, status : {"APPLIED", "SUPERSEDED", "CONFLICT"}]

\* The row, the log, cursors and calls are of their types.
MsTypeOK ==
    /\ shard \in ShardRow /\ \A o \in opLog : o \in Entry
    /\ nextSeq \in Nat
    /\ cursor \in [MsNodes -> [Scopes -> Nat]]
    /\ known \in [MsNodes -> [version : Version, clock : Clock]]
    /\ sent \in [MsNodes -> Write]
    /\ \A c \in MsCalls :
          /\ msCall[c].pc \in {"idle", "putRead", "putWrite", "readBack", "draw", "append", "commit",
                               "readCommitted", "pullOps", "advance", "answer", "done", "thrown"}
          /\ msCall[c].by \in Writers /\ msCall[c].held \in ShardRow /\ msCall[c].in \in Write
          /\ msCall[c].ops \subseteq opLog
    /\ \A n \in MsNodes : delivered[n] \subseteq Nat /\ gone[n] \subseteq Nat
    /\ late \subseteq Nat

MsQuiet == \A c \in MsCalls : msCall[c].pc \in {"idle", "done", "thrown"}

\* A cursor never moves past an entry the node was not given: whatever batches,
\* scopes and overlapping pulls of one node move it.  Excepted are entries whose
\* answer was lost, and entries that became visible after a later one.
NothingSkipped ==
    \A n \in MsNodes :
        (\A c \in MsCalls : msCall[c].by = n => msCall[c].pc \notin {"pullOps", "advance", "answer"}) =>
        \A o \in opLog : o.seq <= cursor[n]["SHARED"] => o.seq \in delivered[n] \union gone[n] \union late

\* "Every write to a shard appends one op" (schema.prisma, MemorySyncOp): what
\* the row holds can be found in the log once the calls are over, if none failed.
EveryWriteLogged ==
    MsQuiet /\ shard.exists /\ (\A c \in MsCalls : ~MsAt(c, "thrown")) =>
        \E o \in opLog : o.write.value = shard.value
=============================================================================

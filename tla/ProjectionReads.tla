--------------------------- MODULE ProjectionReads ---------------------------
(***************************************************************************)
(* Reads of a projection through snapshots: LocalProjector of              *)
(* platform/projections/runtime.ts as dashboard/rms-view.ts uses it for    *)
(* the decisions register, and the signal projection that                  *)
(* runtime/agents/rohan-backtest-harness.ts builds in the same way.        *)
(*                                                                         *)
(* Each projection has a stream of snapshots and accepts one type of       *)
(* event.  Its state is the set of the events folded: the register is      *)
(* keyed by decision ids, and the backtest's list of signals is read with  *)
(* each event id counted once, so that folding an event again changes      *)
(* nothing.  How many folds it took is kept beside it, for the backtest    *)
(* uses that number as a sequence.                                         *)
(*                                                                         *)
(* The backtest reads the signals of one entity and, by its provenance     *)
(* filter, of some provenances; reclassifyEntity and reclassifyProvenance  *)
(* rewrite both in place.  The register reads every entity and, in mode    *)
(* "combined", every provenance.                                           *)
(***************************************************************************)
EXTENDS SnapshotTable, Sequences

CONSTANTS
    Registers,      \* processes that read the decisions register
    Backtests,      \* processes that run backtests
    KeepN,          \* snapshots kept per stream (5)
    EveryK,         \* the cadence: events per snapshot
    Ahead,          \* how far the as_of of an event may lie ahead of the clock
    MaxSeq,         \* bound on appended events
    MaxTime,        \* bound on the clock
    MaxArchives,    \* bound on archived events
    MaxReads        \* bound on reads begun

Readers == Registers \cup Backtests
Streams == {"register", "signals"}
Types   == {"decision", "signal"}
Times   == 0..MaxTime

ASSUME ReadsAssumption ==
    /\ Registers \cap Backtests = {}
    /\ {KeepN, EveryK} \subseteq Nat \ {0}
    /\ {Ahead, MaxSeq, MaxTime, MaxArchives, MaxReads} \subseteq Nat

VARIABLES
    now,            \* the clock
    log,            \* every event appended, by sequence
    hot,            \* the sequences in the hot table
    apart,          \* the signals whose entity and provenance are not the backtest's
    table,          \* per stream: its rows of the table `snapshots`
    reads,          \* history: how many reads have begun
    reader,         \* per process: its program counter and locals
    written,        \* history: per stream, the as_of and upto of every row inserted
                    \* and what was apart when it was folded
    reloaded        \* history: the streams on which a read met another snapshot
                    \* in replayFromSnapshot than in loadSnapshot

env  == <<now, log, hot, apart>>
vars == <<env, table, reads, reader, written, reloaded>>

Stream(p) == IF p \in Registers THEN "register" ELSE "signals"

Row == [id : Nat, asOf : Times, upto : Nat, state : SUBSET Nat, folded : Nat]

Idle == [pc |-> "idle", asOf |-> 0, cursor |-> 0, snap |-> {}, from |-> 0,
         state |-> {}, folded |-> 0, passed |-> {}, missed |-> {}]

-----------------------------------------------------------------------------
(***************************************************************************)
(* The rest of the system.                                                 *)
(***************************************************************************)

Clock ==
    /\ now < MaxTime
    /\ now' = now + 1
    /\ UNCHANGED <<log, hot, apart, table, reads, reader, written, reloaded>>

\* Another process appends an event, dated and tagged by its maker.
AppendEvent(type, asOf, elsewhere) ==
    /\ Len(log) < MaxSeq
    /\ asOf <= now + Ahead
    /\ log' = Append(log, [type |-> type, asOf |-> asOf])
    /\ hot' = hot \cup {Len(log) + 1}
    /\ elsewhere => type = "signal"
    /\ apart' = IF elsewhere THEN apart \cup {Len(log) + 1} ELSE apart
    /\ UNCHANGED <<now, table, reads, reader, written, reloaded>>

\* reclassifyEntity and reclassifyProvenance move a signal out of the backtest's
\* stream, or into it.
Retag(n) ==
    /\ n \in hot
    /\ log[n].type = "signal"
    /\ apart' = IF n \in apart THEN apart \ {n} ELSE apart \cup {n}
    /\ UNCHANGED <<now, log, hot, table, reads, reader, written, reloaded>>

\* archiveEventsOlderThan moves the oldest events to the cold tier.
Archive(cutoff) ==
    /\ Cardinality(1..Len(log) \ hot) < MaxArchives
    /\ cutoff \in hot
    /\ \A n \in hot : cutoff <= n
    /\ hot' = hot \ {cutoff}
    /\ UNCHANGED <<now, log, apart, table, reads, reader, written, reloaded>>

-----------------------------------------------------------------------------
(***************************************************************************)
(* A read.                                                                 *)
(***************************************************************************)

\* What the filters of this process pass over.
Passed(p) == IF p \in Registers THEN {} ELSE apart

\* What replay({fromSequence, asOf}) yields to the projection of this process.
Replay(p, from, asOf) ==
    {n \in hot \ Passed(p) :
       /\ from <= n
       /\ log[n].asOf <= asOf
       /\ log[n].type = IF p \in Registers THEN "decision" ELSE "signal"}

Quiet == UNCHANGED <<env, table, reads, written, reloaded>>

Begin ==
    /\ reads < MaxReads
    /\ reads' = reads + 1
    /\ UNCHANGED <<env, table, written, reloaded>>

\* buildRmsRegistersFold: asOf = now().
BeginRegister(p) ==
    /\ p \in Registers
    /\ reader[p].pc = "idle"
    /\ reader' = [reader EXCEPT ![p] = [Idle EXCEPT !.pc = "begun", !.asOf = now]]
    /\ Begin

\* uptoSequence = store.count(), before the fold.
TakeCursor(p) ==
    /\ reader[p].pc = "begun"
    /\ reader' = [reader EXCEPT ![p].pc = "load", ![p].cursor = Cardinality(hot)]
    /\ Quiet

\* buildSignalProjection, out to the last horizon of the request.
BeginBacktest(p, horizonEnd) ==
    /\ p \in Backtests
    /\ reader[p].pc = "idle"
    /\ reader' = [reader EXCEPT ![p] = [Idle EXCEPT !.pc = "load", !.asOf = horizonEnd]]
    /\ Begin

\* The first loadSnapshot.
Load(p) ==
    LET found == LoadSnapshot(table[Stream(p)], reader[p].asOf) IN
    /\ reader[p].pc = "load"
    /\ reader' = [reader EXCEPT ![p].pc = IF found = {} THEN "naive" ELSE "reload",
                                ![p].snap = found]
    /\ Quiet

\* No snapshot: fold the whole table.
FoldNaive(p) ==
    LET events == Replay(p, 1, reader[p].asOf) IN
    /\ reader[p].pc = "naive"
    /\ reader' = [reader EXCEPT ![p] =
         [@ EXCEPT !.pc = "folded", !.state = events, !.folded = Cardinality(events),
                   !.passed = Passed(p)]]
    /\ Quiet

\* replayFromSnapshot looks the snapshot up again.
Reload(p) ==
    LET found == LoadSnapshot(table[Stream(p)], reader[p].asOf) IN
    /\ reader[p].pc = "reload"
    /\ reader' = [reader EXCEPT
         ![p].pc = "delta",
         ![p].from = IF found = {} THEN 1 ELSE (CHOOSE row \in found : TRUE).upto + 1]
    /\ reloaded' = reloaded \cup (IF found = reader[p].snap THEN {} ELSE {Stream(p)})
    /\ UNCHANGED <<env, table, reads, written>>

\* ... and the delta is folded onto the snapshot found first.
FoldDelta(p) ==
    LET seed  == CHOOSE row \in reader[p].snap : TRUE
        delta == Replay(p, reader[p].from, reader[p].asOf)
    IN /\ reader[p].pc = "delta"
       /\ reader' = [reader EXCEPT ![p] =
            [@ EXCEPT !.pc = "folded", !.snap = {}, !.from = 0,
                      !.state = seed.state \cup delta,
                      !.folded = seed.folded + Cardinality(delta),
                      !.passed = Passed(p),
                      !.missed = Replay(p, 1, reader[p].asOf) \ (seed.state \cup delta)]]
       /\ Quiet

-----------------------------------------------------------------------------
(***************************************************************************)
(* maybeSnapshot, and the same in runEclBacktest.                          *)
(***************************************************************************)

\* Mutant of Upto: the count is taken when the snapshot is written.
UptoAfterFold(p) == IF p \in Registers THEN Cardinality(hot) ELSE reader[p].folded

\* The uptoSequence the snapshot is given.
Upto(p) == IF p \in Registers THEN reader[p].cursor ELSE reader[p].folded

\* shouldSnapshot answers true, as it may at any time; snapshot() looks for a row of
\* the same triple, and is done if there is one.
Snapshot(p) ==
    LET existing == SameSnapshot(table[Stream(p)], reader[p].asOf, Upto(p)) IN
    /\ reader[p].pc = "folded"
    /\ p \in Backtests => reader[p].state # {}
    /\ reader' = [reader EXCEPT ![p] = IF existing # {} THEN Idle
                                       ELSE [@ EXCEPT !.pc = "insert", !.missed = {}]]
    /\ Quiet

\* shouldSnapshot answers false, or a backtest has nothing to save.
NoSnapshot(p) ==
    /\ reader[p].pc = "folded"
    /\ \/ ~ SnapshotDue(table[Stream(p)], hot, EveryK)
       \/ p \in Backtests /\ reader[p].state = {}
    /\ reader' = [reader EXCEPT ![p] = Idle]
    /\ Quiet

\* snapshot() inserts its row.
Insert(p) ==
    LET st  == Stream(p)
        row == [id |-> NextId(table[st]), asOf |-> reader[p].asOf, upto |-> Upto(p),
                state |-> reader[p].state, folded |-> reader[p].folded]
    IN /\ reader[p].pc = "insert"
       /\ SameSnapshot(table[st], row.asOf, row.upto) = {}
       /\ table' = [table EXCEPT ![st] = @ \cup {row}]
       /\ written' = [written EXCEPT ![st] =
            @ \cup {[asOf |-> row.asOf, upto |-> row.upto, passed |-> reader[p].passed]}]
       /\ reader' = [reader EXCEPT ![p] = [Idle EXCEPT !.pc = "prune"]]
       /\ UNCHANGED <<env, reads, reloaded>>

\* Another process inserted that triple in between, and UNIQUE makes the INSERT
\* throw: out of the register's read, to a catch in the backtest's.
InsertThrows(p) ==
    /\ reader[p].pc = "insert"
    /\ SameSnapshot(table[Stream(p)], reader[p].asOf, Upto(p)) # {}
    /\ reader' = [reader EXCEPT ![p] = Idle]
    /\ Quiet

Prune(p, kept) ==
    /\ reader[p].pc = "prune"
    /\ kept \in Pruned(table[Stream(p)], KeepN)
    /\ table' = [table EXCEPT ![Stream(p)] = kept]
    /\ reader' = [reader EXCEPT ![p] = Idle]
    /\ UNCHANGED <<env, reads, written, reloaded>>

\* The process dies.
Crash(p) ==
    /\ reader[p].pc # "idle"
    /\ reader' = [reader EXCEPT ![p] = Idle]
    /\ Quiet

-----------------------------------------------------------------------------
Init ==
    /\ now = 0
    /\ log = << >>
    /\ hot = {}
    /\ apart = {}
    /\ table = [st \in Streams |-> {}]
    /\ reads = 0
    /\ reader = [p \in Readers |-> Idle]
    /\ written = [st \in Streams |-> {}]
    /\ reloaded = {}

Next ==
    \/ Clock
    \/ \E type \in Types, asOf \in 0..(MaxTime + Ahead), elsewhere \in BOOLEAN :
         AppendEvent(type, asOf, elsewhere)
    \/ \E n \in hot : Retag(n)
    \/ \E cutoff \in hot : Archive(cutoff)
    \/ \E p \in Readers :
         \/ BeginRegister(p)
         \/ TakeCursor(p)
         \/ \E horizonEnd \in Times : BeginBacktest(p, horizonEnd)
         \/ Load(p)
         \/ FoldNaive(p)
         \/ Reload(p)
         \/ FoldDelta(p)
         \/ Snapshot(p)
         \/ NoSnapshot(p)
         \/ Insert(p)
         \/ InsertThrows(p)
         \/ \E kept \in SUBSET table[Stream(p)] : Prune(p, kept)
         \/ Crash(p)

Spec == Init /\ [][Next]_vars

-----------------------------------------------------------------------------
(***************************************************************************)
(* Properties.                                                             *)
(***************************************************************************)

\* Types; and the UNIQUE constraint on the table.
TypeOK ==
    /\ now \in Times
    /\ Len(log) <= MaxSeq
    /\ hot \cup apart \subseteq 1..Len(log)
    /\ \A st \in Streams :
         /\ \A row \in table[st] : row \in Row
         /\ \A a, b \in table[st] : a.asOf = b.asOf /\ a.upto = b.upto => a = b
    /\ \A p \in Readers : reader[p].pc = "delta" => reader[p].snap # {}

\* A read as of some time contains no event dated later, whatever the snapshot it
\* started from was taken for.
NothingFromTheFuture ==
    \A p \in Readers : reader[p].pc = "folded" =>
        \A n \in reader[p].state : log[n].asOf <= reader[p].asOf

\* Why an event may be missed: a snapshot covers its sequence, for an earlier as_of
\* than the event's, or folded while the event was tagged out of the stream.
Excused(st, n) ==
    \E row \in written[st] : n <= row.upto /\ (row.asOf < log[n].asOf \/ n \in row.passed)

\* The two ways in which a read through snapshots falls behind a full replay, as long
\* as both of its look-ups find the same row: the event had been appended when the
\* cursor of some snapshot was taken, with an as_of later than that snapshot's; or a
\* snapshot that covers it was folded before it was tagged into the stream.  In
\* particular nothing is lost to pruning, to archiving, to events appended during a
\* fold, to a backtest's use of a number of folds as a sequence, or to a row that
\* another process wrote under the same triple.
MissesOnlyLaterDated ==
    \A p \in Readers : reader[p].pc = "folded" /\ Stream(p) \notin reloaded =>
        \A n \in reader[p].missed : Excused(Stream(p), n)

-----------------------------------------------------------------------------
(***************************************************************************)
(* The inductive invariants behind them.                                   *)
(***************************************************************************)

Read == [pc : {"idle", "begun", "load", "naive", "reload", "delta", "folded", "insert",
               "prune"},
         asOf : Times, cursor : Nat, snap : SUBSET Row, from : Nat,
         state : SUBSET Nat, folded : Nat, passed : SUBSET Nat, missed : SUBSET Nat]

Event == [type : Types, asOf : Nat]

LogInv ==
    /\ now \in Times
    /\ log \in Seq(Event) /\ Len(log) <= MaxSeq
    /\ hot \subseteq 1..Len(log)
    /\ apart \subseteq 1..Len(log)

Accepts(st, n) == log[n].type = IF st = "register" THEN "decision" ELSE "signal"

\* Nothing in the state is dated after asOf.
Dated(state, asOf) == state \subseteq {n \in 1..Len(log) : log[n].asOf <= asOf}

\* The state of a projection as of some time holds every event up to here that is hot
\* still, or there is an excuse, or its fold passed over it.
Complete(st, state, asOf, upto, passed) ==
    /\ upto <= Len(log)
    /\ \A n \in hot : n <= upto /\ Accepts(st, n) /\ log[n].asOf <= asOf /\ n \notin state =>
         Excused(st, n) \/ n \in passed

\* A backtest's rows say how many folds they took, which is no more than the sequence.
RowOK(st, row) ==
    /\ row \in Row
    /\ Dated(row.state, row.asOf)
    /\ \E w \in written[st] : w.asOf = row.asOf /\ w.upto = row.upto
    /\ st = "signals" => row.folded = row.upto
    /\ st \notin reloaded => Complete(st, row.state, row.asOf, row.upto, {})

\* The row inserted last has the largest id.
Newest(rows) == rows # {} => \E row \in rows : \A other \in rows : other.id <= row.id

TableInv ==
    /\ table \in [Streams -> SUBSET Row]
    /\ written \in [Streams -> SUBSET [asOf : Times, upto : Nat, passed : SUBSET Nat]]
    /\ \A st \in Streams : \A row \in table[st] : RowOK(st, row)
    /\ \A st \in Streams : \A a, b \in table[st] : a.asOf = b.asOf /\ a.upto = b.upto => a = b
    /\ \A st \in Streams : Newest(table[st])

Missing(p) ==
    /\ reader[p].missed \subseteq 1..Len(log)
    /\ Stream(p) \notin reloaded => \A n \in reader[p].missed : Excused(Stream(p), n)

\* A read holds rows that were in the table, folds on from where its seed ends, and has
\* folded a state that is complete up to what it will label it with.
ReadInv ==
    /\ reader \in [Readers -> Read]
    /\ \A p \in Readers :
         /\ \A row \in reader[p].snap : RowOK(Stream(p), row)
         /\ \A row \in reader[p].snap : row.asOf <= reader[p].asOf
         /\ reader[p].pc \in {"reload", "delta"} => reader[p].snap # {}
         /\ reader[p].pc = "delta" /\ Stream(p) \notin reloaded =>
              reader[p].from = (CHOOSE row \in reader[p].snap : TRUE).upto + 1
         /\ p \in Registers => reader[p].cursor <= Len(log)
         /\ reader[p].pc \in {"folded", "insert"} =>
              /\ Dated(reader[p].state, reader[p].asOf)
              /\ Stream(p) \notin reloaded =>
                   Complete(Stream(p), reader[p].state, reader[p].asOf, Upto(p),
                            reader[p].passed)
         /\ Missing(p)
         /\ reader[p].pc # "folded" => reader[p].missed = {}

ReadsInv == LogInv /\ TableInv /\ ReadInv
=============================================================================

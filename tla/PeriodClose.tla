----------------------------- MODULE PeriodClose -----------------------------
(***************************************************************************)
(* One accounting period of one entity: the orchestration of               *)
(* platform/accounting/period-close.ts (and of the interim balances of     *)
(* period-close-handler.ts), the trial balance read through the output     *)
(* cache of platform/projections/output-snapshot-cache.ts, and the         *)
(* handler runtime/agents/bea-period-close.ts that opens and closes the    *)
(* period.  Others post to the ledger, archive events and read balances    *)
(* meanwhile.  closePeriodV2 takes the same steps as closePeriod, with     *)
(* another fold for its trial balance.                                     *)
(*                                                                         *)
(* A trial balance is the set of the postings folded into it; a call reads *)
(* and writes the hot table only, one statement at a time.  An event is    *)
(* known by its sequence.  There is one writer per period, as the header   *)
(* of period-close.ts assumes: openPeriod and closePeriod calls do not     *)
(* overlap one another.                                                    *)
(*                                                                         *)
(* The as_of of an opening and closedAt are their callers': one clock that *)
(* never goes back gives them here, as openPeriod's comment on asOf and    *)
(* closePeriod's on closedAt ask for.  Nothing in the code enforces it.    *)
(* Postings keep their entity and provenance once they are appended.       *)
(***************************************************************************)
EXTENDS SnapshotTable, Sequences

CONSTANTS
    Closer,         \* the process that opens and closes the period
    Readers,        \* the processes that take interim balances
    PeriodEnd,      \* the last calendar day of the period
    KeepN,          \* snapshots kept per stream (5)
    EveryK,         \* the cadence: events per snapshot
    MaxTime,        \* bound on the clock
    MaxOutside      \* bound on postings, archived events, reopens, interim balances
                    \* begun and crashes, taken together

Procs == {Closer} \cup Readers

ASSUME CloseAssumption ==
    /\ Closer \notin Readers
    /\ {KeepN, EveryK} \subseteq Nat \ {0}
    /\ {PeriodEnd, MaxTime, MaxOutside} \subseteq Nat

VARIABLES
    now,            \* the clock
    log,            \* every event appended, by sequence
    hot,            \* the sequences in the hot table
    cache,          \* rows of the stream trial-balance:<entity>:<window>
    ends,           \* rows of the stream <entity>|accounting-period
    proc,           \* per process: its program counter and locals
    outside         \* history: how many of the steps MaxOutside bounds were taken

vars == <<now, log, hot, cache, ends, proc, outside>>

Archived == 1..Len(log) \ hot

Idle == [pc |-> "idle", closedAt |-> 0, count |-> 0, balance |-> {}, tb |-> 0,
         cursor |-> 0, floor |-> {}, archived |-> 0, exact |-> TRUE]

\* Replays of the hot table, by type.
OfType(type) == {n \in hot : log[n].type = type}

Latest(S) == CHOOSE n \in S : \A m \in S : m <= n

FromOutside ==
    /\ outside < MaxOutside
    /\ outside' = outside + 1

AppendEvent(event) ==
    /\ log' = Append(log, event)
    /\ hot' = hot \cup {Len(log) + 1}

Goto(p, pc) == proc' = [proc EXCEPT ![p].pc = pc]

-----------------------------------------------------------------------------
(***************************************************************************)
(* The rest of the system.                                                 *)
(***************************************************************************)

Clock ==
    /\ now < MaxTime
    /\ now' = now + 1
    /\ UNCHANGED <<log, hot, cache, ends, proc, outside>>

\* A posting, dated inside the period's window or outside of it.
Post(inside) ==
    /\ FromOutside
    /\ AppendEvent([type |-> "posting", inside |-> inside])
    /\ UNCHANGED <<now, cache, ends, proc>>

\* archiveEventsOlderThan moves the oldest events to the cold tier, and leaves the
\* newest ones.
Archive ==
    /\ Cardinality(hot) > 1
    /\ FromOutside
    /\ hot' = hot \ {CHOOSE n \in hot : \A m \in hot : n <= m}
    /\ UNCHANGED <<now, log, cache, ends, proc>>

-----------------------------------------------------------------------------
(***************************************************************************)
(* openPeriod: always called with the same payload.                        *)
(***************************************************************************)

\* The first opening, by the handler on any day of the month or by an operator.  A
\* period that is open already is left alone, and one that was closed is refused.
Open ==
    /\ proc[Closer].pc = "idle"
    /\ {n \in OfType("opened") : log[n].reopenOf = 0} = {}
    /\ OfType("closed") = {}
    /\ AppendEvent([type |-> "opened", asOf |-> now, reopenOf |-> 0])
    /\ UNCHANGED <<now, cache, ends, proc, outside>>

\* A reopening names the last close.
Reopen ==
    /\ proc[Closer].pc = "idle"
    /\ OfType("closed") # {}
    /\ FromOutside
    /\ AppendEvent([type |-> "opened", asOf |-> now, reopenOf |-> Latest(OfType("closed"))])
    /\ UNCHANGED <<now, cache, ends, proc>>

-----------------------------------------------------------------------------
(***************************************************************************)
(* computeTrialBalance, through readWithOutputSnapshot.                    *)
(***************************************************************************)

\* What computeTrialBalanceUncached folds.
Postings == {n \in OfType("posting") : log[n].inside}

\* currentCount = store.count().
Count(p) ==
    /\ proc[p].pc = "count"
    /\ proc' = [proc EXCEPT ![p] =
         [@ EXCEPT !.pc = "load", !.count = Cardinality(hot), !.floor = Postings,
                   !.archived = Cardinality(Archived)]]
    /\ UNCHANGED <<now, log, hot, cache, ends, outside>>

\* The envelope was written for this population.
Fresh(p, row) == row.upto = proc[p].count

\* loadSnapshot, and the cached output if it is fresh.
LoadCached(p) ==
    LET hits == {row \in LoadSnapshot(cache, 0) : Fresh(p, row)} IN
    /\ proc[p].pc = "load"
    /\ proc' = [proc EXCEPT ![p] =
         [@ EXCEPT !.pc = IF hits = {} THEN "compute" ELSE "have",
                   !.balance = UNION {row.balance : row \in hits},
                   !.exact = \A row \in hits : row.archived = proc[p].archived]]
    /\ UNCHANGED <<now, log, hot, cache, ends, outside>>

Compute(p) ==
    /\ proc[p].pc = "compute"
    /\ proc' = [proc EXCEPT ![p].pc = "save", ![p].balance = Postings]
    /\ UNCHANGED <<now, log, hot, cache, ends, outside>>

\* shouldSnapshot answers true, as it may at any time; snapshot() returns the row of
\* the same triple if there is one.
Save(p) ==
    /\ proc[p].pc = "save"
    /\ Goto(p, IF SameSnapshot(cache, 0, proc[p].count) = {} THEN "insert" ELSE "have")
    /\ UNCHANGED <<now, log, hot, cache, ends, outside>>

\* shouldSnapshot answers false.
SkipSave(p) ==
    /\ proc[p].pc = "save"
    /\ ~ SnapshotDue(cache, hot, EveryK)
    /\ Goto(p, "have")
    /\ UNCHANGED <<now, log, hot, cache, ends, outside>>

\* Mutant of InsertCached: the count is taken again for the envelope.
InsertRecounted(p) ==
    /\ proc[p].pc = "insert"
    /\ SameSnapshot(cache, 0, Cardinality(hot)) = {}
    /\ cache' = cache \cup {[id |-> NextId(cache), asOf |-> 0, upto |-> Cardinality(hot),
                             balance |-> proc[p].balance, archived |-> Cardinality(Archived)]}
    /\ Goto(p, "prune")
    /\ UNCHANGED <<now, log, hot, ends, outside>>

InsertCached(p) ==
    /\ proc[p].pc = "insert"
    /\ SameSnapshot(cache, 0, proc[p].count) = {}
    /\ cache' = cache \cup {[id |-> NextId(cache), asOf |-> 0, upto |-> proc[p].count,
                             balance |-> proc[p].balance, archived |-> proc[p].archived]}
    /\ Goto(p, "prune")
    /\ UNCHANGED <<now, log, hot, ends, outside>>

\* Another process inserted that triple in between: the INSERT throws, and with it
\* the call.
InsertThrows(p) ==
    /\ proc[p].pc = "insert"
    /\ SameSnapshot(cache, 0, proc[p].count) # {}
    /\ proc' = [proc EXCEPT ![p] = Idle]
    /\ UNCHANGED <<now, log, hot, cache, ends, outside>>

PruneCached(p) ==
    /\ proc[p].pc = "prune"
    /\ cache' \in Pruned(cache, KeepN)
    /\ Goto(p, "have")
    /\ UNCHANGED <<now, log, hot, ends, outside>>

-----------------------------------------------------------------------------
(***************************************************************************)
(* snapshotTrialBalance.                                                   *)
(***************************************************************************)

BeginInterim(p) ==
    /\ p \in Readers
    /\ proc[p].pc = "idle"
    /\ OfType("opened") # {}
    /\ FromOutside
    /\ Goto(p, "count")
    /\ UNCHANGED <<now, log, hot, cache, ends>>

EndInterim(p) ==
    /\ p \in Readers
    /\ proc[p].pc = "have"
    /\ AppendEvent([type |-> "balance", kind |-> "interim", rows |-> proc[p].balance])
    /\ proc' = [proc EXCEPT ![p] = Idle]
    /\ UNCHANGED <<now, cache, ends, outside>>

-----------------------------------------------------------------------------
(***************************************************************************)
(* closePeriod.                                                            *)
(***************************************************************************)

\* Mutant of MayClose: > for >=.
MayCloseSameTime ==
    /\ OfType("opened") # {}
    /\ \A n \in OfType("closed") : ~ log[n].asOf > log[Latest(OfType("opened"))].asOf

\* There is an open, and no close dated like it or later.
MayClose ==
    /\ OfType("opened") # {}
    /\ \A n \in OfType("closed") : log[n].asOf < log[Latest(OfType("opened"))].asOf

BeginClose ==
    /\ proc[Closer].pc = "idle"
    /\ MayClose
    /\ proc' = [proc EXCEPT ![Closer].pc = "count", ![Closer].closedAt = now]
    /\ UNCHANGED <<now, log, hot, cache, ends, outside>>

\* The handler of the scheduled run: there is a posting, this is the last calendar day
\* of the period and no close of it is seen.  A run of a later day looks at the period
\* of its own month, and never at this one again.
HandlerCloses ==
    /\ Postings # {}
    /\ now = PeriodEnd
    /\ OfType("closed") = {}
    /\ BeginClose

\* An operator closes the period: after a reopen, ahead of its end, or because the
\* handler's last day has gone by.
OperatorCloses == BeginClose

\* Mutant of AppendBalance: a retry takes up the balance of the attempt before.
AppendBalanceOnce ==
    LET earlier == {n \in OfType("balance") : log[n].kind = "close"} IN
    /\ proc[Closer].pc = "have"
    /\ IF earlier = {}
       THEN /\ AppendEvent([type |-> "balance", kind |-> "close", rows |-> proc[Closer].balance])
            /\ proc' = [proc EXCEPT ![Closer].pc = "mark", ![Closer].tb = Len(log) + 1]
       ELSE /\ proc' = [proc EXCEPT ![Closer].pc = "mark", ![Closer].tb = Latest(earlier)]
            /\ UNCHANGED <<log, hot>>
    /\ UNCHANGED <<now, cache, ends, outside>>

\* TrialBalanceSnapshotted, kind "close".
AppendBalance ==
    /\ proc[Closer].pc = "have"
    /\ AppendEvent([type |-> "balance", kind |-> "close", rows |-> proc[Closer].balance])
    /\ proc' = [proc EXCEPT ![Closer].pc = "mark", ![Closer].tb = Len(log) + 1]
    /\ UNCHANGED <<now, cache, ends, outside>>

\* Mutant of HighWatermark: the number of rows.
RowCount == Cardinality(hot)

HighWatermark == IF hot = {} THEN 0 ELSE Latest(hot)

\* closedAtSequence.
TakeWatermark ==
    /\ proc[Closer].pc = "mark"
    /\ proc' = [proc EXCEPT ![Closer].pc = "end", ![Closer].cursor = HighWatermark]
    /\ UNCHANGED <<now, log, hot, cache, ends, outside>>

\* snapshot() on the stream of period ends.  Only closes write to it, so that its
\* statements need not be told apart.
SnapshotEnd ==
    LET call == proc[Closer]
        upto == Cardinality(call.balance)
        row  == [id |-> NextId(ends), asOf |-> call.closedAt, upto |-> upto, tb |-> call.tb]
    IN /\ call.pc = "end"
       /\ IF SameSnapshot(ends, call.closedAt, upto) = {}
          THEN ends' \in Pruned(ends \cup {row}, KeepN)
          ELSE ends' = ends
       /\ Goto(Closer, "closed")
       /\ UNCHANGED <<now, log, hot, cache, outside>>

AppendClosed ==
    LET call == proc[Closer] IN
    /\ call.pc = "closed"
    /\ AppendEvent([type |-> "closed", asOf |-> call.closedAt, tb |-> call.tb,
                    eventSequence |-> call.cursor])
    /\ proc' = [proc EXCEPT ![Closer] = Idle]
    /\ UNCHANGED <<now, cache, ends, outside>>

\* The process of a call dies.
Crash(p) ==
    /\ proc[p].pc # "idle"
    /\ FromOutside
    /\ proc' = [proc EXCEPT ![p] = Idle]
    /\ UNCHANGED <<now, log, hot, cache, ends>>

-----------------------------------------------------------------------------
Init ==
    /\ now = 0
    /\ log = << >>
    /\ hot = {}
    /\ cache = {}
    /\ ends = {}
    /\ proc = [p \in Procs |-> Idle]
    /\ outside = 0

\* The steps of a trial balance.
BalanceStep(p) ==
    \/ Count(p)
    \/ LoadCached(p)
    \/ Compute(p)
    \/ Save(p)
    \/ SkipSave(p)
    \/ InsertCached(p)
    \/ InsertThrows(p)
    \/ PruneCached(p)

\* The steps of a close in progress.
CloseStep ==
    \/ BalanceStep(Closer)
    \/ AppendBalance
    \/ TakeWatermark
    \/ SnapshotEnd
    \/ AppendClosed

Next ==
    \/ Clock
    \/ \E inside \in BOOLEAN : Post(inside)
    \/ Archive
    \/ Open
    \/ Reopen
    \/ HandlerCloses
    \/ OperatorCloses
    \/ CloseStep
    \/ \E p \in Readers : BeginInterim(p) \/ BalanceStep(p) \/ EndInterim(p)
    \/ \E p \in Procs : Crash(p)

Spec == Init /\ [][Next]_vars

-----------------------------------------------------------------------------
(***************************************************************************)
(* Properties.                                                             *)
(***************************************************************************)

\* Types; and UNIQUE on both streams of snapshots.
TypeOK ==
    /\ now \in 0..MaxTime
    /\ hot \subseteq 1..Len(log)
    /\ \A p \in Procs : proc[p].balance \subseteq 1..Len(log)
    /\ \A rows \in {cache, ends} :
         \A a, b \in rows : a.asOf = b.asOf /\ a.upto = b.upto => a = b

\* A trial balance read through the cache misses no posting that was in the table
\* when the read began and still is, and holds none that does not belong: whatever
\* other reads computed, saved and pruned meanwhile, in whatever order, and whatever
\* was posted between a count() and the fold it labels.  The exception is a row
\* labelled before an archive that this read came after; a posting retagged out of the
\* entity or the provenance after it was folded is outside of the model.
BalanceComplete ==
    \A p \in Procs : proc[p].pc \in {"save", "insert", "prune", "have"} /\ proc[p].exact =>
        /\ proc[p].floor \cap hot \subseteq proc[p].balance
        /\ \A n \in proc[p].balance : log[n].type = "posting" /\ log[n].inside

\* No two closes of a period without an opening in between, whatever crashes and
\* retries there were: "this rule catches double-close while permitting reopen-reclose".
OneClosePerOpen ==
    \A m, n \in 1..Len(log) :
        m < n /\ log[m].type = "closed" /\ log[n].type = "closed" =>
            \E k \in m..n : log[k].type = "opened"

\* The frozen cursor of a close covers the trial balance it names and every posting
\* folded into it: subscribers that replay up to it see no less than the close did.
CursorCoversBalance ==
    \A n \in 1..Len(log) : log[n].type = "closed" =>
        LET tb == log[n].tb IN
        /\ log[tb].type = "balance" /\ log[tb].kind = "close"
        /\ tb <= log[n].eventSequence /\ log[n].eventSequence < n
        /\ \A k \in log[tb].rows : k <= log[n].eventSequence

\* A close is of the attempt that appends it: the balance it names holds every posting
\* of the window that was there when this attempt began its trial balance and still is,
\* whatever an attempt that was cut short left behind.  The exception is
\* BalanceComplete's.
ClosesOnWhatWasThere ==
    [][ (Len(log') > Len(log) /\ log'[Len(log')].type = "closed" /\ proc[Closer].exact) =>
          proc[Closer].floor \cap hot \subseteq log'[log'[Len(log')].tb].rows ]_vars

-----------------------------------------------------------------------------
(***************************************************************************)
(* The inductive invariants behind them.                                   *)
(***************************************************************************)

Event ==
         [type : {"posting"}, inside : BOOLEAN]
    \cup [type : {"opened"}, asOf : Nat, reopenOf : Nat]
    \cup [type : {"balance"}, kind : {"interim", "close"}, rows : SUBSET Nat]
    \cup [type : {"closed"}, asOf : Nat, tb : Nat, eventSequence : Nat]

Call == [pc : {"idle", "count", "load", "compute", "save", "insert", "prune", "have",
               "mark", "end", "closed"},
         closedAt : Nat, count : Nat, balance : SUBSET Nat, tb : Nat, cursor : Nat,
         floor : SUBSET Nat, archived : Nat, exact : BOOLEAN]

\* The hot table is the newest part of the log, and never empty again.
LogInv ==
    /\ now \in 0..MaxTime
    /\ log \in Seq(Event)
    /\ hot \subseteq 1..Len(log)
    /\ \A n \in hot : n..Len(log) \subseteq hot
    /\ Len(log) > 0 => Len(log) \in hot
    /\ \A n \in 1..Len(log) : log[n].type \in {"opened", "closed"} => log[n].asOf \in 0..now

Unique(rows) == \A a, b \in rows : a.asOf = b.asOf /\ a.upto = b.upto => a = b

Inside(n) == log[n].type = "posting" /\ log[n].inside

\* A balance is one of postings of the window, and lacks none up to here that is hot.
Covers(balance, upto) ==
    /\ balance \subseteq {n \in 1..Len(log) : Inside(n)}
    /\ {n \in hot : n <= upto /\ Inside(n)} \subseteq balance

\* A count and the number of archived events make the sequence that the balance is for.
BalanceInv ==
    /\ Unique(cache) /\ Unique(ends)
    /\ \A row \in cache :
         /\ row.upto \in Nat /\ row.archived \in Nat /\ row.upto + row.archived <= Len(log)
         /\ Covers(row.balance, row.upto + row.archived)
    /\ proc \in [Procs -> Call]
    /\ \A p \in Procs : proc[p].balance \subseteq 1..Len(log)
    /\ \A p \in Procs : proc[p].pc \in {"load", "compute", "save", "insert", "prune", "have"} =>
         LET upto == proc[p].count + proc[p].archived IN
         /\ upto <= Len(log)
         /\ proc[p].floor \subseteq {n \in 1..upto : Inside(n)}
         /\ proc[p].pc \in {"save", "insert"} => Covers(proc[p].balance, upto)
         /\ proc[p].pc \in {"prune", "have"} /\ proc[p].exact => Covers(proc[p].balance, upto)

\* A close in progress follows an opening that no close has followed, is dated no
\* earlier than any opening, and names its own trial balance and a cursor that covers it.
CloseInv ==
    /\ \A k, m \in 1..Len(log) : k < m /\ log[k].type = "opened" /\ log[m].type = "closed" =>
         log[k].asOf <= log[m].asOf
    /\ proc[Closer].pc # "idle" =>
         /\ proc[Closer].closedAt <= now
         /\ \A k \in 1..Len(log) : log[k].type = "opened" => log[k].asOf <= proc[Closer].closedAt
         /\ \E k \in 1..Len(log) : /\ log[k].type = "opened"
                                   /\ \A m \in k..Len(log) : log[m].type # "closed"
    /\ proc[Closer].pc \in {"mark", "end", "closed"} =>
         LET tb == proc[Closer].tb IN
         /\ tb \in 1..Len(log) /\ log[tb].type = "balance" /\ log[tb].kind = "close"
         /\ log[tb].rows \subseteq 1..Len(log)
         /\ proc[Closer].floor \subseteq 1..Len(log)
         /\ proc[Closer].exact => proc[Closer].floor \cap hot \subseteq log[tb].rows
         /\ proc[Closer].pc # "mark" =>
              /\ tb <= proc[Closer].cursor /\ proc[Closer].cursor <= Len(log)
              /\ \A k \in log[tb].rows : k <= proc[Closer].cursor
    /\ \A n \in 1..Len(log) : log[n].type = "closed" => log[n].tb \in 1..n
    /\ OneClosePerOpen
    /\ CursorCoversBalance

PeriodInv == LogInv /\ BalanceInv /\ CloseInv
=============================================================================

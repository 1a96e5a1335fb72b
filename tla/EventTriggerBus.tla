--------------------------- MODULE EventTriggerBus ---------------------------
(***************************************************************************)
(* The event-trigger bus of platform/event-trigger-bus/bus.ts: processes   *)
(* that walk the hot event table and invoke the handlers subscribed to     *)
(* each event, deduplicated by the table `bus_dispatch_claims` and audited *)
(* by `BusDispatched` events.                                              *)
(*                                                                         *)
(* A ticker is one `bus:tick` after another: open the store, read the      *)
(* cursor file, tick, write the cursor file, exit.  A runner is a process  *)
(* that runs agents (or serves the dashboard): it keeps the store open and *)
(* ticks from the watermark its run began at, without the cursor file.     *)
(*                                                                         *)
(* Every SQL statement or transaction is atomic, and so is every step      *)
(* here; the other processes act between the steps of a tick.  An event's  *)
(* type is abstracted to the handlers subscribed to it.                    *)
(***************************************************************************)
EXTENDS Integers, FiniteSets

CONSTANTS
    Tickers,        \* bus:tick processes
    Runners,        \* agent-running processes
    Events,         \* event ids, SubstrateAlert events included
    Handlers,       \* keys of the event-driven handlers
    SubscribersOf,  \* the handlers subscribed to each event's type
    NoHandler,      \* marks a source event in the event table
    NoPair,         \* "no dispatch in progress"
    MaxSeq,         \* bound on publishing: no source event above this sequence
    MaxFaults       \* bound on crashes and failing statements

Procs == Tickers \cup Runners
Pairs == Events \X Handlers

ASSUME BusAssumption ==
    /\ Tickers \cap Runners = {}
    /\ SubscribersOf \in [Events -> SUBSET Handlers]
    /\ NoHandler \notin Handlers
    /\ NoPair \notin Pairs
    /\ MaxSeq \in Nat
    /\ MaxFaults \in Nat

VARIABLES
    hot,            \* rows of the hot `events` table: source events and audits
    lastSeq,        \* sqlite_sequence: last AUTOINCREMENT value handed out
    claims,         \* rows of `bus_dispatch_claims`
    cursorFile,     \* .local/bus-cursor.json; 0 when missing or unreadable
    tick,           \* per process: the tick in progress and its locals
    invocations,    \* history: how often each pair's handler was invoked
    published,      \* history: event ids ever in use
    audited,        \* history: pairs that ever got a BusDispatched row
    faults          \* history: crashes and failing statements so far

vars == <<hot, lastSeq, claims, cursorFile, tick, invocations, published, audited,
          faults>>

\* A row of `events`: a source event, or the BusDispatched audit of a pair.
Row == [seq : Nat \ {0}, event : Events, handler : Handlers \cup {NoHandler}]

SourceRows == {r \in hot : r.handler = NoHandler}
AuditRows  == {r \in hot : r.handler # NoHandler}
PairOf(r)  == <<r.event, r.handler>>
AuditPairs == {PairOf(r) : r \in AuditRows}
HotEvents  == {r.event : r \in SourceRows}
Seqs       == {r.seq : r \in hot}

\* A dispatch to come: a walked source event and one of its subscribers.
Dispatch == [seq : Nat \ {0}, event : Events, handler : Handlers]

Tick == [pc : {"closed", "open", "fold", "snapshot", "walk", "dispatch",
               "claimed", "ok", "failed", "alert", "rescue"},
         from : Nat, snap : Nat, seen : SUBSET Pairs, todo : SUBSET Dispatch,
         cur : Pairs \cup {NoPair}]

At(pc, from) == [pc |-> pc, from |-> from, snap |-> 0, seen |-> {}, todo |-> {},
                 cur |-> NoPair]

\* The tick is between a won claim and its audit.
Working(p) == tick[p].pc \in {"claimed", "ok", "failed"}

\* Mutant of IsHighWatermark: count() in its place.
IsRowCount(n) == n = Cardinality(hot)

\* highWatermark() returns n: MAX(sequence), or 0 for an empty table.
IsHighWatermark(n) ==
    /\ \A r \in hot : r.seq <= n
    /\ n = 0 \/ n \in Seqs

\* One INSERT into `events`.
Insert(event, handler) ==
    /\ hot' = hot \cup {[seq |-> lastSeq + 1, event |-> event, handler |-> handler]}
    /\ lastSeq' = lastSeq + 1

-----------------------------------------------------------------------------
(***************************************************************************)
(* The rest of the system, as far as the bus sees it.                      *)
(***************************************************************************)

\* Some process appends an event: a new one, or one that was archived here and
\* is pulled back by the Postgres sync (UNIQUE event_id only spans the hot table).
Publish(e) ==
    /\ lastSeq < MaxSeq
    /\ e \notin HotEvents
    /\ Insert(e, NoHandler)
    /\ published' = published \cup {e}
    /\ UNCHANGED <<claims, cursorFile, tick, invocations, audited, faults>>

\* An archive or extraction call moves rows to the cold tier.
Evict(p, rows) ==
    /\ p \in Runners
    /\ tick[p].pc = "open"
    /\ rows # {}
    /\ hot' = hot \ rows
    /\ UNCHANGED <<lastSeq, claims, cursorFile, tick, invocations, published,
                   audited, faults>>

-----------------------------------------------------------------------------
(***************************************************************************)
(* A process: opening the store, and where its tick begins.                *)
(***************************************************************************)

\* The EventStore constructor: backfillDispatchClaims claims every audited pair.
Open(p) ==
    /\ tick[p].pc = "closed"
    /\ claims' = claims \cup AuditPairs
    /\ tick' = [tick EXCEPT ![p] = At("open", 0)]
    /\ UNCHANGED <<hot, lastSeq, cursorFile, invocations, published, audited,
                   faults>>

\* bus-tick.ts: readCursor, then tick(cursor).
ReadCursor(p) ==
    /\ p \in Tickers
    /\ tick[p].pc = "open"
    /\ tick' = [tick EXCEPT ![p] = At("fold", cursorFile)]
    /\ UNCHANGED <<hot, lastSeq, claims, cursorFile, invocations, published,
                   audited, faults>>

\* run.ts: seqBefore = highWatermark(); the agent runs; then tick(seqBefore + 1).
StartRun(p, seqBefore) ==
    /\ p \in Runners
    /\ tick[p].pc = "open"
    /\ IsHighWatermark(seqBefore)
    /\ tick' = [tick EXCEPT ![p] = At("fold", seqBefore + 1)]
    /\ UNCHANGED <<hot, lastSeq, claims, cursorFile, invocations, published,
                   audited, faults>>

-----------------------------------------------------------------------------
(***************************************************************************)
(* tick(fromSequence).                                                     *)
(***************************************************************************)

\* Fold the BusDispatched rows into the set `dispatched`.
Prefold(p) ==
    /\ tick[p].pc = "fold"
    /\ tick' = [tick EXCEPT ![p].pc = "snapshot", ![p].seen = AuditPairs]
    /\ UNCHANGED <<hot, lastSeq, claims, cursorFile, invocations, published,
                   audited, faults>>

\* snapshot = highWatermark().
Snapshot(p, watermark) ==
    /\ tick[p].pc = "snapshot"
    /\ IsHighWatermark(watermark)
    /\ tick' = [tick EXCEPT ![p].pc = "walk", ![p].snap = watermark]
    /\ UNCHANGED <<hot, lastSeq, claims, cursorFile, invocations, published,
                   audited, faults>>

\* Position, counted from 1, of the row at sequence n in replay({fromSequence}).
WalkPosition(from, n) == Cardinality((from..n) \cap Seqs)

\* The rows the walk yields before its budget of snapshot - from + 1 is spent.
WalkedRows(from, snap) ==
    {r \in hot : r.seq >= from /\ WalkPosition(from, r.seq) <= snap - from + 1}

\* Walk the table, skip the audits, pair the events with their subscribers. A
\* pair found in `dispatched` is skipped; an event is walked once, so what the
\* tick adds to `dispatched` later skips nothing.
Walk(p) ==
    LET walked == WalkedRows(tick[p].from, tick[p].snap) \cap SourceRows
        due    == {d \in [seq : Seqs, event : Events, handler : Handlers] :
                     /\ \E r \in walked : r.seq = d.seq /\ r.event = d.event
                     /\ d.handler \in SubscribersOf[d.event]
                     /\ PairOf(d) \notin tick[p].seen}
    IN
    /\ tick[p].pc = "walk"
    /\ tick' = [tick EXCEPT ![p].pc = "dispatch", ![p].seen = {}, ![p].todo = due]
    /\ UNCHANGED <<hot, lastSeq, claims, cursorFile, invocations, published,
                   audited, faults>>

\* The next dispatch in sequence order.
IsNextDispatch(p, d) ==
    /\ tick[p].pc = "dispatch"
    /\ d \in tick[p].todo
    /\ \A other \in tick[p].todo : d.seq <= other.seq

\* claimDispatch returns true: the row is inserted.
WinClaim(p, d) ==
    /\ IsNextDispatch(p, d)
    /\ PairOf(d) \notin claims
    /\ claims' = claims \cup {PairOf(d)}
    /\ tick' = [tick EXCEPT ![p].pc = "claimed", ![p].todo = @ \ {d},
                            ![p].cur = PairOf(d)]
    /\ UNCHANGED <<hot, lastSeq, cursorFile, invocations, published, audited,
                   faults>>

\* Mutant of LoseClaim: the loser goes on to append the audit row.
LoseClaimAudits(p, d) ==
    /\ IsNextDispatch(p, d)
    /\ PairOf(d) \in claims
    /\ tick' = [tick EXCEPT ![p].pc = "ok", ![p].todo = @ \ {d}, ![p].cur = PairOf(d)]
    /\ UNCHANGED <<hot, lastSeq, claims, cursorFile, invocations, published, audited,
                   faults>>

\* claimDispatch returns false: the pair is claimed already.
LoseClaim(p, d) ==
    /\ IsNextDispatch(p, d)
    /\ PairOf(d) \in claims
    /\ tick' = [tick EXCEPT ![p].todo = @ \ {d}]
    /\ UNCHANGED <<hot, lastSeq, claims, cursorFile, invocations, published,
                   audited, faults>>

\* The runner is awaited; it returns ok, returns not ok, or throws.
Invoke(p, outcome) ==
    /\ tick[p].pc = "claimed"
    /\ invocations' = [invocations EXCEPT ![tick[p].cur] = @ + 1]
    /\ tick' = [tick EXCEPT ![p].pc = outcome]
    /\ UNCHANGED <<hot, lastSeq, claims, cursorFile, published, audited, faults>>

\* What follows the BusDispatched append, whether or not it succeeded.
AfterAudit(p) ==
    tick' = [tick EXCEPT ![p].pc = IF @ = "failed" THEN "alert" ELSE "dispatch",
                         ![p].cur = NoPair]

\* Append the BusDispatched row.
Audit(p) ==
    /\ tick[p].pc \in {"ok", "failed"}
    /\ Insert(tick[p].cur[1], tick[p].cur[2])
    /\ audited' = audited \cup {tick[p].cur}
    /\ AfterAudit(p)
    /\ UNCHANGED <<claims, cursorFile, invocations, published, faults>>

\* The BusDispatched append throws; it is logged and the tick goes on.
AuditFails(p) ==
    /\ tick[p].pc \in {"ok", "failed"}
    /\ faults < MaxFaults
    /\ faults' = faults + 1
    /\ AfterAudit(p)
    /\ UNCHANGED <<hot, lastSeq, claims, cursorFile, invocations, published,
                   audited>>

\* After an alert: the loop goes on, or the run whose tick threw goes on.
AfterAlert(p) ==
    \/ tick[p].pc = "alert" /\ tick' = [tick EXCEPT ![p].pc = "dispatch"]
    \/ tick[p].pc = "rescue" /\ tick' = [tick EXCEPT ![p] = At("open", 0)]

\* After a failed dispatch, or in the catch block around a run's tick, append a
\* SubstrateAlert: a new event, and one that handlers subscribe to.
Alert(p, e) ==
    /\ e \notin published
    /\ AfterAlert(p)
    /\ Insert(e, NoHandler)
    /\ published' = published \cup {e}
    /\ UNCHANGED <<claims, cursorFile, invocations, audited, faults>>

\* The SubstrateAlert append throws; it is logged.
AlertFails(p) ==
    /\ AfterAlert(p)
    /\ UNCHANGED <<hot, lastSeq, claims, cursorFile, invocations, published,
                   audited,
                   faults>>

TickDone(p) == tick[p].pc = "dispatch" /\ tick[p].todo = {}

\* A run-coupled tick returns; its nextCursor is ignored.
FinishRun(p) ==
    /\ p \in Runners
    /\ TickDone(p)
    /\ tick' = [tick EXCEPT ![p] = At("open", 0)]
    /\ UNCHANGED <<hot, lastSeq, claims, cursorFile, invocations, published,
                   audited, faults>>

\* Mutants of NextCursor: one too far; the watermark when the tick returns.
NextCursorSkips(p) == tick[p].snap + 2
NextCursorNow(p) == 1 + CHOOSE n \in 0..lastSeq : IsHighWatermark(n)

\* The cursor a tick returns.
NextCursor(p) == tick[p].snap + 1

\* bus-tick.ts: writeCursor(nextCursor), and exit.
WriteCursor(p) ==
    /\ p \in Tickers
    /\ TickDone(p)
    /\ cursorFile' = NextCursor(p)
    /\ tick' = [tick EXCEPT ![p] = At("closed", 0)]
    /\ UNCHANGED <<hot, lastSeq, claims, invocations, published, audited, faults>>

-----------------------------------------------------------------------------
(***************************************************************************)
(* Failure.                                                                *)
(***************************************************************************)

\* A statement of tick throws outside its try blocks (claimDispatch rethrows what
\* is no constraint violation): bus:tick exits, leaving the cursor file as it was;
\* a run catches the error, appends an alert and goes on.
TickThrows(p) ==
    /\ tick[p].pc \in {"fold", "snapshot", "walk", "dispatch"}
    /\ faults < MaxFaults
    /\ faults' = faults + 1
    /\ tick' = [tick EXCEPT ![p] = At(IF p \in Tickers THEN "closed" ELSE "rescue", 0)]
    /\ UNCHANGED <<hot, lastSeq, claims, cursorFile, invocations, published,
                   audited>>

\* Mutant of Crash: a claim whose handler did not return is given back.
CrashReleasing(p) ==
    /\ tick[p].pc # "closed"
    /\ faults < MaxFaults
    /\ faults' = faults + 1
    /\ claims' = claims \ {tick[p].cur}
    /\ tick' = [tick EXCEPT ![p] = At("closed", 0)]
    /\ UNCHANGED <<hot, lastSeq, cursorFile, invocations, published, audited>>

\* The process dies; what it has committed stays.
Crash(p) ==
    /\ tick[p].pc # "closed"
    /\ faults < MaxFaults
    /\ faults' = faults + 1
    /\ tick' = [tick EXCEPT ![p] = At("closed", 0)]
    /\ UNCHANGED <<hot, lastSeq, claims, cursorFile, invocations, published,
                   audited>>

\* bus:tick dies inside writeFileSync: readCursor finds no JSON and returns 0.
CrashWriting(p) ==
    /\ p \in Tickers
    /\ TickDone(p)
    /\ faults < MaxFaults
    /\ faults' = faults + 1
    /\ cursorFile' = 0
    /\ tick' = [tick EXCEPT ![p] = At("closed", 0)]
    /\ UNCHANGED <<hot, lastSeq, claims, invocations, published, audited>>

-----------------------------------------------------------------------------
\* The store may hold the audits of dispatches made before claims existed: each
\* source event of this prefix was dispatched once and is audited, unclaimed.
LegacyRows(pairs) ==
    {[seq |-> 1, event |-> pair[1], handler |-> pair[2]] : pair \in pairs}

Init ==
    /\ \E legacy \in {{}} \cup {{pair} : pair \in Pairs} :
         /\ hot = LegacyRows(legacy)
         /\ lastSeq = Cardinality(legacy)
         /\ audited = legacy
         /\ published = {pair[1] : pair \in legacy}
         /\ invocations = [pair \in Pairs |-> IF pair \in legacy THEN 1 ELSE 0]
    /\ claims = {}
    /\ cursorFile = 0
    /\ tick = [p \in Procs |-> At("closed", 0)]
    /\ faults = 0

\* The steps a process takes by itself.
Step(p) ==
    \/ Open(p)
    \/ ReadCursor(p)
    \/ Prefold(p)
    \/ \E watermark \in 0..lastSeq : Snapshot(p, watermark)
    \/ Walk(p)
    \/ \E d \in tick[p].todo : WinClaim(p, d) \/ LoseClaim(p, d)
    \/ \E outcome \in {"ok", "failed"} : Invoke(p, outcome)
    \/ Audit(p)
    \/ \E e \in Events : Alert(p, e)
    \/ AlertFails(p)
    \/ FinishRun(p)
    \/ WriteCursor(p)

Fault(p) == AuditFails(p) \/ TickThrows(p) \/ Crash(p) \/ CrashWriting(p)

Next ==
    \/ \E e \in Events : Publish(e)
    \/ \E p \in Procs :
        \/ \E rows \in SUBSET hot : Evict(p, rows)
        \/ \E seqBefore \in 0..lastSeq : StartRun(p, seqBefore)
        \/ Step(p)
        \/ Fault(p)

Spec == Init /\ [][Next]_vars

\* bus:tick is run again and again (the "standalone bus:tick cron"), and a running
\* process is scheduled.
FairSpec == Spec /\ \A p \in Tickers : WF_vars(Step(p))

-----------------------------------------------------------------------------
(***************************************************************************)
(* Properties.                                                             *)
(***************************************************************************)

\* Types: in particular no tick begins, and no cursor is written, beyond the
\* sequences handed out, and a tick holds a pair exactly while it works on it.
TypeOK ==
    /\ hot \subseteq Row
    /\ lastSeq \in Nat
    /\ claims \subseteq Pairs
    /\ cursorFile \in 0..(lastSeq + 1)
    /\ tick \in [Procs -> Tick]
    /\ \A p \in Procs : /\ tick[p].from <= lastSeq + 1 /\ tick[p].snap <= lastSeq
                        /\ Working(p) <=> tick[p].cur # NoPair
    /\ invocations \in [Pairs -> Nat]
    /\ published \subseteq Events
    /\ audited \subseteq Pairs
    /\ faults \in 0..MaxFaults

\* "at most one invocation per pair, ever": no handler is invoked twice for an
\* event, whatever ticks run at once, crash, start from an old cursor, or meet the
\* event again after it was archived and pulled back.
AtMostOnceInvoked == \A pair \in Pairs : invocations[pair] <= 1

\* "no duplicate BusDispatched{ok}": an audit row is only ever appended for a pair
\* that never had one.
AuditedOnce ==
    [][\A r \in hot' \ hot : r.handler # NoHandler => PairOf(r) \notin audited]_vars

Dispatches == INSTANCE AtMostOnce
              WITH Jobs <- Pairs, begun <- claims \cup audited, runs <- invocations

\* A handler is invoked only for a pair that was won, once, and a pair is won once:
\* no step of any process, and no crash, gives back a claim or wins what an earlier
\* program version dispatched and only audited.
ImplementsAtMostOnce == Dispatches!Spec

\* Every dispatch due for hot events below sequence n has been claimed.
Covered(n) ==
    \A r \in SourceRows : r.seq < n =>
        \A h \in SubscribersOf[r.event] : <<r.event, h>> \in claims

\* The cursor file never runs ahead of the dispatches: bus:tick reads on from
\* there and will not look at the events below it again.
CursorSafe == Covered(cursorFile)

\* A dispatch that is due is claimed, unless its event is moved to the cold tier
\* first, where the bus never looks.
EventuallyDispatched ==
    \A pair \in Pairs :
        pair[1] \in HotEvents /\ pair[2] \in SubscribersOf[pair[1]]
          ~> pair \in claims \/ pair[1] \notin HotEvents

\* "BusDispatched append failed [...] the next tick will retry the dispatch": a
\* dispatch that was made and not audited is, in the end, made again and audited.
LostAuditRetried ==
    \A pair \in Pairs : (invocations[pair] > 0 /\ pair \notin audited) ~> pair \in audited

-----------------------------------------------------------------------------
(***************************************************************************)
(* The inductive invariants behind AtMostOnceInvoked, AuditedOnce and      *)
(* CursorSafe.                                                             *)
(***************************************************************************)

HasWalked(p) == tick[p].pc \in {"dispatch", "claimed", "ok", "failed", "alert"}

\* Pairs whose handler was invoked or whose dispatch was audited.
Dispatched == {pair \in Pairs : invocations[pair] > 0} \cup audited

\* The pair a process works on is claimed, by it alone, and not yet audited; a
\* process that has the store open has seen to it that what was dispatched is
\* claimed.
DispatchOf(p) ==
    /\ Working(p) => tick[p].cur \in claims \ audited
    /\ tick[p].pc = "claimed" => invocations[tick[p].cur] = 0
    /\ tick[p].pc # "closed" => Dispatched \subseteq claims

DispatchInv ==
    /\ AtMostOnceInvoked
    /\ AuditPairs \subseteq audited
    /\ Dispatched \subseteq claims \cup AuditPairs
    /\ \A p \in Procs : DispatchOf(p)
    /\ \A p, q \in Procs :
          Working(p) /\ Working(q) /\ p # q => tick[p].cur # tick[q].cur

\* What a bus:tick will not look at again is claimed, or still on its list.
CursorOf(p) ==
    /\ tick[p].seen \subseteq claims
    /\ p \in Tickers => Covered(tick[p].from)
    /\ p \in Tickers /\ HasWalked(p) =>
         \A r \in SourceRows : r.seq <= tick[p].snap =>
           \A h \in SubscribersOf[r.event] :
             <<r.event, h>> \in claims \cup {PairOf(d) : d \in tick[p].todo}

CursorInv ==
    /\ \A r \in hot : r.seq <= lastSeq
    /\ CursorSafe
    /\ \A p \in Procs : CursorOf(p)
=============================================================================

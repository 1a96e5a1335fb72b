------------------------------ MODULE AgentRun ------------------------------
(***************************************************************************)
(* runAgent of runtime/run.ts: the life-cycle events of a run, the         *)
(* worktree boundary that platform/agent-runtime/runner-worker.ts installs *)
(* in the host process, and the filing of the run's deliverable by         *)
(* runtime/lib/record-deliverable.ts.                                      *)
(*                                                                         *)
(* A process runs JavaScript: between two awaits a run cannot be           *)
(* interrupted by another run of its process, but other processes append   *)
(* to the store meanwhile.  A handler is awaited, and so is the bus tick   *)
(* at the end of a run, which calls runAgent again for event-driven        *)
(* handlers.  A command-line process makes its top-level calls one after   *)
(* the other; in a server they overlap.                                    *)
(*                                                                         *)
(* Of the event store the model keeps the RecordFiled events, of the       *)
(* documents register and of the others, and per call the life-cycle       *)
(* events appended for it; no step below reads another event.  runAgent    *)
(* replays the hot table, from which the archiver and the extraction of    *)
(* another process take records away.  Records that a sync brings in from  *)
(* other hosts are left out, and so are dry runs, which record nothing.    *)
(***************************************************************************)
EXTENDS Integers, Sequences, FiniteSets

CONSTANTS
    Clis,           \* processes of scheduler-tick, bus:tick and run.ts itself
    Servers,        \* dashboard processes
    Relative,       \* those of both whose BANK_REPO_ROOT is not an absolute path
    Runs,           \* identifiers of calls
    Paths,          \* paths of deliverables
    NoRun, NoPath,
    MaxOwn,         \* bound on documents that handlers file themselves
    MaxActive,      \* bound on calls active at once
    MaxFaults       \* bound on failing store statements and installs, crashes, and
                    \* records that leave the hot table, taken together

Procs == Clis \cup Servers
Kinds == {"scheduled", "event-driven"}
Registers == {"documents", "agent-runs"}    \* "agent-runs" stands for each other one

ASSUME RunAssumption ==
    /\ Clis \cap Servers = {}
    /\ Relative \subseteq Procs
    /\ NoRun \notin Runs
    /\ NoPath \notin Paths
    /\ {MaxOwn, MaxActive, MaxFaults} \subseteq Nat

VARIABLES
    records,        \* the records filed, in order: "own" ones of a handler and
                    \* "central" ones of record-deliverable.ts
    archived,       \* those of them (by position) that have left the hot table
    lifecycle,      \* per call: its life-cycle events, in order
    depth,          \* per process: runnerWorkerDepth
    wrapped,        \* per process: process.chdir and node:fs are wrapped
    cwd,            \* per process: its working directory
    run,            \* per call: its program counter and locals
    leaked,         \* history: the processes in which a call threw past restoreWorker
    faults

vars == <<records, archived, lifecycle, depth, wrapped, cwd, run, leaked, faults>>

NotBegun == [pc |-> "new", proc |-> NoRun, parent |-> NoRun, kind |-> "scheduled",
             outer |-> FALSE, installed |-> FALSE, before |-> "host", since |-> 0,
             upto |-> 0, path |-> NoPath, window |-> {}, faulty |-> FALSE]

Active(r) == run[r].pc \notin {"new", "ended", "dead"}
ActiveIn(p) == {r \in Runs : Active(r) /\ run[r].proc = p}

\* No call of this process but r is between two awaits.
Scheduled(r) ==
    \A s \in ActiveIn(run[r].proc) \ {r} : run[s].pc \in {"handler", "tick"}

Children(r) == {s \in Runs : Active(s) /\ run[s].parent = r}

\* What is kept of a call that is over: with a deliverable, its window too.
Over(r, pc, faulty) ==
    LET filing == run[r].path # NoPath IN
    [NotBegun EXCEPT !.pc = pc, !.proc = run[r].proc, !.path = run[r].path,
                     !.since = IF filing THEN run[r].since ELSE 0,
                     !.upto = IF filing THEN run[r].upto ELSE 0, !.faulty = faulty]

Fault == faults < MaxFaults /\ faults' = faults + 1

Document(by, r, register, path) ==
    [by |-> by, run |-> r, register |-> register, path |-> path]

\* A best-effort append of a life-cycle event: it may fail, which is logged and
\* leaves no event.
Emit(type, r, ok) ==
    /\ lifecycle' = IF ok THEN [lifecycle EXCEPT ![r] = Append(@, type)] ELSE lifecycle
    /\ IF ok THEN faults' = faults ELSE Fault

-----------------------------------------------------------------------------
(***************************************************************************)
(* The call, up to its first await.                                        *)
(***************************************************************************)

\* A top-level call of a command-line process waits for the one before it; the bus
\* tick of a run calls one handler at a time; a server calls event-driven ones.
MayBegin(p, parent, kind) ==
    \/ /\ parent = NoRun
       /\ p \in Servers \/ ActiveIn(p) = {}
       /\ p \in Servers => kind = "event-driven"
    \/ /\ parent \in ActiveIn(p)
       /\ run[parent].pc = "tick"
       /\ run[parent].kind # "event-driven"
       /\ Children(parent) = {}
       /\ kind = "event-driven"

\* seqBefore, SubstrateAgentRunStarted, install() if no call is active, and the call
\* of the handler.
Begin(r, p, parent, kind, emitted, installed) ==
    LET outer == depth[p] = 0 IN
    /\ run[r].pc = "new"
    /\ Cardinality({s \in Runs : Active(s)}) < MaxActive
    /\ MayBegin(p, parent, kind)
    /\ \A s \in ActiveIn(p) : run[s].pc \in {"handler", "tick"}
    /\ outer => p \notin Relative
    /\ installed \/ (outer /\ emitted)
    /\ lifecycle' = [lifecycle EXCEPT ![r] = IF emitted THEN <<"started">> ELSE << >>]
    /\ IF emitted /\ installed THEN faults' = faults ELSE Fault
    /\ depth' = [depth EXCEPT ![p] = IF outer THEN 1 ELSE @ + 1]
    /\ wrapped' = [wrapped EXCEPT ![p] = @ \/ (outer /\ installed)]
    /\ cwd' = [cwd EXCEPT ![p] = IF outer /\ installed THEN "root" ELSE @]
    /\ run' = [run EXCEPT ![r] =
         [NotBegun EXCEPT !.pc = "handler", !.proc = p, !.parent = parent, !.kind = kind,
                          !.outer = outer, !.installed = outer /\ installed,
                          !.before = IF outer THEN cwd[p] ELSE "host",
                          !.since = Len(records), !.faulty = ~ emitted]]
    /\ UNCHANGED <<records, archived, leaked>>

\* The outermost call where the root is not absolute: createRunnerWorker throws, after
\* SubstrateAgentRunStarted and before the try and the counter, out of runAgent.
Refused(r, p, kind, emitted) ==
    /\ run[r].pc = "new"
    /\ MayBegin(p, NoRun, kind)
    /\ p \in Relative
    /\ depth[p] = 0
    /\ lifecycle' = [lifecycle EXCEPT ![r] = IF emitted THEN <<"started">> ELSE << >>]
    /\ IF emitted THEN faults' = faults ELSE Fault
    /\ run' = [run EXCEPT ![r] =
         [NotBegun EXCEPT !.pc = "ended", !.proc = p, !.faulty = ~ emitted]]
    /\ UNCHANGED <<records, archived, depth, wrapped, cwd, leaked>>

\* Mutant of RestoredDepth: the counter is reset.
ResetDepth(p) == 0

RestoredDepth(p) == IF depth[p] > 0 THEN depth[p] - 1 ELSE 0

\* Mutant of RestoreWorker: every call disposes of the boundary.
RestoreInner(r) ==
    LET p == run[r].proc IN
    /\ depth' = [depth EXCEPT ![p] = RestoredDepth(p)]
    /\ wrapped' = [wrapped EXCEPT ![p] = FALSE]
    /\ cwd' = [cwd EXCEPT ![p] = IF run[r].outer THEN run[r].before ELSE @]

\* Mutant of RestoreWorker: the working directory stays.
RestoreKeepingCwd(r) ==
    LET p == run[r].proc IN
    /\ depth' = [depth EXCEPT ![p] = RestoredDepth(p)]
    /\ wrapped' = [wrapped EXCEPT ![p] = @ /\ ~ run[r].installed]
    /\ UNCHANGED cwd

\* restoreWorker.
RestoreWorker(r) ==
    LET p == run[r].proc IN
    /\ depth' = [depth EXCEPT ![p] = RestoredDepth(p)]
    /\ wrapped' = [wrapped EXCEPT ![p] = @ /\ ~ run[r].installed]
    /\ cwd' = [cwd EXCEPT ![p] = IF run[r].outer THEN run[r].before ELSE @]

Host == UNCHANGED <<depth, wrapped, cwd>>

-----------------------------------------------------------------------------
(***************************************************************************)
(* The handler.                                                            *)
(***************************************************************************)

\* The handler files a record of its own.
SelfFile(r, register, path) ==
    /\ run[r].pc = "handler"
    /\ Scheduled(r)
    /\ Cardinality({n \in 1..Len(records) : records[n].by = "own"}) < MaxOwn
    /\ records' = Append(records, Document("own", r, register, path))
    /\ UNCHANGED <<archived, lifecycle, run, leaked, faults>>
    /\ Host

\* Mutant of Throws: without the closing event.
ThrowsSilently(r, ok) ==
    /\ run[r].pc = "handler"
    /\ Scheduled(r)
    /\ run' = [run EXCEPT ![r] = Over(r, "ended", run[r].faulty)]
    /\ RestoreWorker(r)
    /\ UNCHANGED <<records, archived, lifecycle, leaked, faults>>

\* The handler throws: SubstrateAgentRunFailed, and the worker is restored.
Throws(r, ok) ==
    /\ run[r].pc = "handler"
    /\ Scheduled(r)
    /\ Emit("failed", r, ok)
    /\ run' = [run EXCEPT ![r] = Over(r, "ended", run[r].faulty \/ ~ ok)]
    /\ RestoreWorker(r)
    /\ UNCHANGED <<records, archived, leaked>>

\* highWatermark() or replay() throws after the handler returned or threw, or in the
\* fan-out: out of runAgent, past restoreWorker.
StoreThrows(r) ==
    /\ \/ run[r].pc = "handler"
       \/ run[r].pc = "fanout" /\ run[r].kind # "event-driven"
    /\ Scheduled(r)
    /\ Fault
    /\ run' = [run EXCEPT ![r] = Over(r, "ended", TRUE)]
    /\ leaked' = leaked \cup {run[r].proc}
    /\ UNCHANGED <<records, archived, lifecycle>>
    /\ Host

\* The records in the hot table.
Hot == 1..Len(records) \ archived

\* Mutant of RunWindow: from the first event on.
WholeLog(r) == Hot

\* replay({fromSequence: seqBefore + 1}).
RunWindow(r) == {n \in Hot : n > run[r].since}

\* The handler returns, with the path of a deliverable or without:
\* newEventsThisRun, and SubstrateAgentRunCompleted.
Returns(r, path, ok) ==
    /\ run[r].pc = "handler"
    /\ Scheduled(r)
    /\ Emit("completed", r, ok)
    /\ run' = [run EXCEPT ![r] =
         [@ EXCEPT !.pc = IF path = NoPath THEN "fanout" ELSE "file",
                   !.path = path,
                   !.window = RunWindow(r),
                   !.upto = Len(records),
                   !.faulty = run[r].faulty \/ ~ ok]]
    /\ UNCHANGED <<records, archived, leaked>>
    /\ Host

-----------------------------------------------------------------------------
(***************************************************************************)
(* recordDeliverableFiled.                                                 *)
(***************************************************************************)

\* Mutant of PriorPaths: the records of earlier runs are not looked at.
NoPriorPaths == {}

\* replay({type: "RecordFiled"}).
PriorPaths == {records[n].path : n \in {m \in Hot : records[m].register = "documents"}}

\* Does this record pass for one that the handler filed for its deliverable?
SelfFiled(n, path) == records[n].register = "documents" \/ records[n].path = path

\* handlerSelfFiled over the window, and the look-up of the path.
File(r) ==
    /\ run[r].pc = "file"
    /\ run' = [run EXCEPT ![r].pc = IF \/ \E n \in run[r].window : SelfFiled(n, run[r].path)
                                       \/ run[r].path \in PriorPaths
                                    THEN "fanout" ELSE "record",
                            ![r].window = {}]
    /\ UNCHANGED <<records, archived, lifecycle, leaked, faults>>
    /\ Host

\* recordFiled; or the file is missing or empty, or an error: which is logged.
Record(r, ok) ==
    /\ run[r].pc = "record"
    /\ records' = IF ok THEN Append(records, Document("central", r, "documents", run[r].path))
                            ELSE records
    /\ IF ok THEN faults' = faults ELSE Fault
    /\ run' = [run EXCEPT ![r].pc = "fanout", ![r].faulty = run[r].faulty \/ ~ ok]
    /\ UNCHANGED <<archived, lifecycle, leaked>>
    /\ Host

\* The fan-out in shadow mode, up to the await of the bus tick.
Fanout(r) ==
    /\ run[r].pc = "fanout"
    /\ run' = [run EXCEPT ![r].pc = "tick"]
    /\ UNCHANGED <<records, archived, lifecycle, leaked, faults>>
    /\ Host

\* The bus tick, if there was one, is over: the worker is restored.
End(r) ==
    /\ run[r].pc = "tick"
    /\ Scheduled(r)
    /\ Children(r) = {}
    /\ run' = [run EXCEPT ![r] = Over(r, "ended", run[r].faulty)]
    /\ RestoreWorker(r)
    /\ UNCHANGED <<records, archived, lifecycle, leaked, faults>>

\* A process dies, and another one takes its place.
Crash(p) ==
    /\ ActiveIn(p) # {}
    /\ Fault
    /\ run' = [r \in Runs |-> IF r \in ActiveIn(p) THEN Over(r, "dead", TRUE)
                              ELSE run[r]]
    /\ depth' = [depth EXCEPT ![p] = 0]
    /\ wrapped' = [wrapped EXCEPT ![p] = FALSE]
    /\ cwd' = [cwd EXCEPT ![p] = "host"]
    /\ leaked' = leaked \ {p}
    /\ UNCHANGED <<records, archived, lifecycle>>

\* A record leaves the hot table, for the archive or for a partition.
Archive(n) ==
    /\ n \in Hot
    /\ Fault
    /\ archived' = archived \cup {n}
    /\ UNCHANGED <<records, lifecycle, run, leaked>>
    /\ Host

-----------------------------------------------------------------------------
Init ==
    /\ records = << >>
    /\ archived = {}
    /\ lifecycle = [r \in Runs |-> << >>]
    /\ depth = [p \in Procs |-> 0]
    /\ wrapped = [p \in Procs |-> FALSE]
    /\ cwd = [p \in Procs |-> "host"]
    /\ run = [r \in Runs |-> NotBegun]
    /\ leaked = {}
    /\ faults = 0

\* The steps of a call that has begun.
Step(r) ==
    \/ \E register \in Registers, path \in Paths : SelfFile(r, register, path)
    \/ \E ok \in BOOLEAN : Throws(r, ok)
    \/ StoreThrows(r)
    \/ \E path \in Paths \cup {NoPath}, ok \in BOOLEAN : Returns(r, path, ok)
    \/ File(r)
    \/ \E ok \in BOOLEAN : Record(r, ok)
    \/ Fanout(r)
    \/ End(r)

Next ==
    \/ \E r \in Runs, p \in Procs, parent \in Runs \cup {NoRun}, kind \in Kinds,
          emitted, installed \in BOOLEAN : Begin(r, p, parent, kind, emitted, installed)
    \/ \E r \in Runs, p \in Procs, kind \in Kinds, emitted \in BOOLEAN :
         Refused(r, p, kind, emitted)
    \/ \E r \in Runs : Step(r)
    \/ \E p \in Procs : Crash(p)
    \/ \E n \in 1..Len(records) : Archive(n)

Spec == Init /\ [][Next]_vars

-----------------------------------------------------------------------------
(***************************************************************************)
(* Properties.                                                             *)
(***************************************************************************)

\* Types; and runnerWorkerDepth counts the active calls of its process, those that
\* threw past restoreWorker included.
TypeOK ==
    /\ \A p \in Procs :
         /\ depth[p] \in Nat
         /\ wrapped[p] \in BOOLEAN
         /\ cwd[p] \in {"host", "root"}
         /\ p \notin leaked => depth[p] = Cardinality(ActiveIn(p))
    /\ \A r \in Runs : {run[r].since, run[r].upto} \subseteq 0..Len(records)

\* "the host process is never left with a stale wrapper": once no call is active,
\* the wrappers are gone, the working directory is the one of before and the next
\* call is outermost again, however calls were nested or overlapped, returned or
\* threw; unless a store statement threw past restoreWorker.
HostRestored ==
    \A p \in Procs \ leaked : ActiveIn(p) = {} =>
        depth[p] = 0 /\ ~ wrapped[p] /\ cwd[p] = "host"

\* While the call that installed the boundary is active, every handler of its
\* process runs inside: no call that begins, ends or throws meanwhile takes it away.
BoundaryHeld ==
    \A r \in Runs : Active(r) /\ run[r].installed =>
        wrapped[run[r].proc] /\ cwd[run[r].proc] = "root"

\* Every call is wrapped in SubstrateAgentRunStarted and one of Completed and Failed,
\* in this order, unless an append of its own failed or its process died; where the
\* root is not absolute, Started stays alone.
Paired ==
    \A r \in Runs :
        /\ run[r].pc = "ended" /\ ~ run[r].faulty =>
             IF run[r].proc \in Relative THEN lifecycle[r] = <<"started">>
             ELSE lifecycle[r] \in {<<"started", "completed">>, <<"started", "failed">>}
        /\ Children(r) # {} /\ ~ run[r].faulty => lifecycle[r] = <<"started", "completed">>

\* A deliverable gets a documents record, whatever earlier runs and runs of other
\* processes have filed and wherever their records are: unless the filing failed, or
\* while the handler ran a document was filed, by whomever, or a record of the same
\* path in another register; both pass for the handler's own document.
DeliverableFiled ==
    \A r \in Runs : run[r].pc = "ended" /\ run[r].path # NoPath /\ ~ run[r].faulty =>
        \/ \E n \in 1..Len(records) :
              records[n].register = "documents" /\ records[n].path = run[r].path
        \/ \E n \in run[r].since + 1..run[r].upto : SelfFiled(n, run[r].path)

\* A central filing follows no other documents record of its path from a run of its
\* process that is still in the hot table, whatever runs overlap there: only another
\* process can have filed it in between, or the archiver have hidden it.
FiledOnce ==
    \A n \in 1..Len(records) : records[n].by = "central" =>
        \A m \in (1..n - 1) \ archived :
            records[m].register = "documents" /\ records[m].path = records[n].path
                => run[records[m].run].proc # run[records[n].run].proc

-----------------------------------------------------------------------------
(***************************************************************************)
(* The inductive invariants behind them.                                   *)
(***************************************************************************)

Call == [pc : {"new", "handler", "file", "record", "fanout", "tick", "ended", "dead"},
         proc : Procs \cup {NoRun}, parent : Runs \cup {NoRun}, kind : Kinds,
         outer : BOOLEAN, installed : BOOLEAN, before : {"host", "root"}, since : Nat,
         upto : Nat, path : Paths \cup {NoPath}, window : SUBSET Nat, faulty : BOOLEAN]

CallInv ==
    /\ records \in Seq([by : {"own", "central"}, run : Runs, register : Registers,
                        path : Paths])
    /\ archived \subseteq 1..Len(records)
    /\ lifecycle \in [Runs -> Seq({"started", "completed", "failed"})]
    /\ depth \in [Procs -> Nat]
    /\ wrapped \in [Procs -> BOOLEAN]
    /\ cwd \in [Procs -> {"host", "root"}]
    /\ run \in [Runs -> Call]
    /\ IsFiniteSet({r \in Runs : Active(r)})
    /\ \A r \in Runs :
         /\ run[r].since <= Len(records) /\ run[r].upto <= Len(records)
         /\ run[r].pc # "new" => run[r].proc \in Procs
         /\ run[r].pc \in {"file", "record"} => run[r].path \in Paths
         /\ run[r].pc \in {"new", "handler"} => run[r].path = NoPath

\* No call gets as far as its handler where the root is not absolute.
RelativeInv == \A p \in Relative : ActiveIn(p) = {} /\ depth[p] = 0 /\ p \notin leaked

\* The counter of a process counts its active calls; of one in which a call threw past
\* restoreWorker, more.
DepthInv ==
    \A p \in Procs : IF p \in leaked THEN Cardinality(ActiveIn(p)) < depth[p]
                     ELSE depth[p] = Cardinality(ActiveIn(p))

\* A process has one outermost call, and what is not as before was put there by it.
BoundaryInv ==
    /\ \A r, s \in Runs :
         /\ Active(r) /\ run[r].outer
         /\ Active(s) /\ run[s].outer
         /\ run[r].proc = run[s].proc
         => r = s
    /\ \A r \in Runs : Active(r) /\ run[r].installed => run[r].outer
    /\ \A r \in Runs : Active(r) /\ run[r].outer => run[r].before = "host"
    /\ BoundaryHeld
    /\ \A p \in Procs \ leaked : wrapped[p] \/ cwd[p] = "root" =>
         \E r \in ActiveIn(p) : run[r].installed

\* How far a call has come is how far its events have; a call waits for those it made.
LifeInv ==
    /\ \A r \in Runs : ~ run[r].faulty =>
         /\ run[r].pc # "dead"
         /\ run[r].pc = "handler" => lifecycle[r] = <<"started">>
         /\ run[r].pc \in {"file", "record", "fanout", "tick"} =>
              lifecycle[r] = <<"started", "completed">>
         /\ run[r].pc = "ended" =>
              IF run[r].proc \in Relative THEN lifecycle[r] = <<"started">>
              ELSE lifecycle[r] \in {<<"started", "completed">>, <<"started", "failed">>}
    /\ \A r, s \in Runs : Active(s) /\ run[s].parent = r =>
         run[r].pc = "tick" /\ run[r].proc = run[s].proc

\* A call that is not at an await.
Busy(r) == run[r].pc \in {"file", "record", "fanout"}

\* The paths of the documents records, the archived ones too.
DocumentPaths ==
    {records[n].path : n \in {m \in 1..Len(records) : records[m].register = "documents"}}

\* One call of a process is not at an await, and between its look at the records and
\* its own no other call of the process files one.
FilingInv ==
    /\ \A r, s \in Runs : Busy(r) /\ Busy(s) /\ run[r].proc = run[s].proc => r = s
    /\ \A r \in Runs :
         /\ run[r].pc = "file" => run[r].window \subseteq run[r].since + 1..run[r].upto
         /\ run[r].pc \in {"fanout", "tick", "ended"} /\ run[r].path # NoPath /\ ~ run[r].faulty =>
              \/ run[r].path \in DocumentPaths
              \/ \E n \in run[r].since + 1..run[r].upto : SelfFiled(n, run[r].path)
         /\ run[r].pc = "record" =>
              \A n \in Hot : records[n].register = "documents" /\ records[n].path = run[r].path =>
                 run[records[n].run].proc # run[r].proc
    /\ \A n \in 1..Len(records) : run[records[n].run].pc # "new"
    /\ FiledOnce

RunInv == CallInv /\ RelativeInv /\ DepthInv /\ BoundaryInv /\ LifeInv /\ FilingInv
=============================================================================

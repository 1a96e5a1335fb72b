------------------------------ MODULE StoreTee ------------------------------
(***************************************************************************)
(* The mirror of the event store in the V2 control-plane store:            *)
(* platform/event-store/v2-store-tee.ts, which wraps append and appendAll  *)
(* of every process, scripts/backfill-v2-store-tee.ts and                  *)
(* platform/recon/v2-store-tee-coverage.ts.                                *)
(*                                                                         *)
(* Only events of types with a tee are in the model.  SubstrateAlert is    *)
(* one of them, and the tee appends its own alerts past itself.  An event  *)
(* is known by its V1 sequence; the V2 store numbers its rows in the order *)
(* they are inserted.                                                      *)
(***************************************************************************)
EXTENDS Integers, Sequences, FiniteSets, Functions

CONSTANTS
    Procs,          \* processes that append through the tee
    Backfills,      \* processes of backfill:v2-store-tee
    NoProc,
    Types,          \* types with a tee, SubstrateAlert apart
    AlertType,      \* SubstrateAlert
    MaxSeq,         \* bound on appended events
    MaxArchived,    \* bound on archived events
    MaxFaults       \* bound on failing statements and crashes

TeeTypes == Types \cup {AlertType}

ASSUME TeeAssumption ==
    /\ NoProc \notin Procs
    /\ AlertType \notin Types
    /\ {MaxSeq, MaxArchived, MaxFaults} \subseteq Nat

VARIABLES
    log,            \* every V1 event, by sequence: its type and who appended it
    hot,            \* the sequences in the hot table
    mirror,         \* the rows of the V2 store, in order
    alerted,        \* per process: alertedFailureTypes
    proc,           \* per process: the events still to mirror, the one to alert about
    backfill,       \* per backfill: its program counter and locals
    recon,          \* the coverage gate: its program counter and locals
    late,           \* history: events whose own mirroring failed or was cut short
    failed,         \* history: types of which some event's mirroring threw
    alerts,         \* history: types with an alert about a failed mirror
    muted,          \* history: types with such an alert lost to a failure or a crash
    faults

vars == <<log, hot, mirror, alerted, proc, backfill, recon, late, failed, alerts, muted,
          faults>>

history == <<late, failed, alerts, muted>>

Resting  == [todo |-> << >>, alert |-> 0]
NoJob    == [pc |-> "idle", type |-> AlertType, known |-> {}, todo |-> {}, seen |-> {}]
NoReport == [pc |-> "idle", type |-> AlertType, v1 |-> 0, upto |-> 0, blurred |-> FALSE,
             verdict |-> "none"]

Mirrored == Range(mirror)
OfType(S, type) == {n \in S : log[n].type = type}
Fault == faults < MaxFaults /\ faults' = faults + 1

\* Events of these types get the next sequences.
AppendEvents(types, by) ==
    /\ Len(log) + Len(types) <= MaxSeq
    /\ log' = log \o [i \in 1..Len(types) |-> [type |-> types[i], by |-> by]]
    /\ hot' = hot \cup Len(log) + 1..Len(log) + Len(types)

-----------------------------------------------------------------------------
(***************************************************************************)
(* The rest of the system.                                                 *)
(***************************************************************************)

\* runSync pulls an event into the table, past the tee.
Pull(type) ==
    /\ AppendEvents(<<type>>, NoProc)
    /\ UNCHANGED <<mirror, alerted, proc, backfill, recon, history, faults>>

\* archiveEventsOlderThan.
Archive ==
    /\ hot # {}
    /\ Cardinality(1..Len(log) \ hot) < MaxArchived
    /\ hot' = hot \ {CHOOSE n \in hot : \A m \in hot : n <= m}
    /\ UNCHANGED <<log, mirror, alerted, proc, backfill, recon, history, faults>>

-----------------------------------------------------------------------------
(***************************************************************************)
(* The tee.                                                                *)
(***************************************************************************)

\* append and appendAll: the V1 transaction commits.
TeeAppend(p, types) ==
    /\ proc[p] = Resting
    /\ AppendEvents(types, p)
    /\ proc' = [proc EXCEPT ![p].todo = [i \in 1..Len(types) |-> Len(log) + i]]
    /\ UNCHANGED <<mirror, alerted, backfill, recon, history, faults>>

\* Mutant of Inserted: a plain INSERT, event_id not being UNIQUE.
InsertedAgain(n) == Append(mirror, n)

\* INSERT OR IGNORE of this event into the V2 store.
Inserted(n) == IF n \in Mirrored THEN mirror ELSE Append(mirror, n)

Mirror(p) ==
    /\ proc[p].alert = 0
    /\ proc[p].todo # << >>
    /\ mirror' = Inserted(Head(proc[p].todo))
    /\ proc' = [proc EXCEPT ![p].todo = Tail(@)]
    /\ UNCHANGED <<log, hot, alerted, backfill, recon, history, faults>>

\* Mutant of AlertDue: one alert per process.
AlertDueOnce(p, type) == alerted[p] = {}

\* One alert per process and type.
AlertDue(p, type) == type \notin alerted[p]

\* The V2 store throws: the process remembers the type before it emits the alert.
MirrorFails(p) ==
    LET n    == Head(proc[p].todo)
        type == log[n].type
    IN /\ proc[p].alert = 0
       /\ proc[p].todo # << >>
       /\ Fault
       /\ proc' = [proc EXCEPT ![p].todo = Tail(@),
                               ![p].alert = IF AlertDue(p, type) THEN n ELSE 0]
       /\ alerted' = [alerted EXCEPT ![p] = @ \cup {type}]
       /\ late' = late \cup {n}
       /\ failed' = failed \cup {type}
       /\ UNCHANGED <<log, hot, mirror, backfill, recon, alerts, muted>>

\* emitMirrorFailureAlert, through the store under the tee.
EmitAlert(p) ==
    /\ proc[p].alert # 0
    /\ AppendEvents(<<AlertType>>, NoProc)
    /\ alerts' = alerts \cup {log[proc[p].alert].type}
    /\ proc' = [proc EXCEPT ![p].alert = 0]
    /\ UNCHANGED <<mirror, alerted, backfill, recon, late, failed, muted, faults>>

\* The alert cannot be appended either, which goes to stderr.
EmitAlertFails(p) ==
    /\ proc[p].alert # 0
    /\ Fault
    /\ muted' = muted \cup {log[proc[p].alert].type}
    /\ proc' = [proc EXCEPT ![p].alert = 0]
    /\ UNCHANGED <<log, hot, mirror, alerted, backfill, recon, late, failed, alerts>>

\* The process dies between the V1 commit and the end of the mirroring.
Crash(p) ==
    /\ proc[p] # Resting
    /\ Fault
    /\ late' = late \cup Range(proc[p].todo)
    /\ muted' = IF proc[p].alert = 0 THEN muted
                ELSE muted \cup {log[proc[p].alert].type}
    /\ proc' = [proc EXCEPT ![p] = Resting]
    /\ alerted' = [alerted EXCEPT ![p] = {}]
    /\ UNCHANGED <<log, hot, mirror, backfill, recon, failed, alerts>>

-----------------------------------------------------------------------------
(***************************************************************************)
(* backfillV2StoreTee, type by type.                                       *)
(***************************************************************************)

\* The ids of this type that the V2 store holds already.
PreScan(b, type) ==
    /\ backfill[b].pc = "idle"
    /\ backfill' = [backfill EXCEPT ![b] =
         [NoJob EXCEPT !.pc = "replay", !.type = type, !.known = OfType(Mirrored, type)]]
    /\ UNCHANGED <<log, hot, mirror, alerted, proc, recon, history, faults>>

\* Mutant of Gap: the rows already there are taken for the first ones.
GapByCount(rows, known) ==
    {n \in rows : Cardinality({m \in rows : m <= n}) > Cardinality(known)}

\* The rows of the V1 table to copy.
Gap(rows, known) == rows \ known

ReplayV1(b) ==
    LET rows == OfType(hot, backfill[b].type) IN
    /\ backfill[b].pc = "replay"
    /\ backfill' = [backfill EXCEPT ![b] =
         [@ EXCEPT !.pc = "copy", !.known = {}, !.todo = Gap(rows, backfill[b].known), !.seen = rows]]
    /\ UNCHANGED <<log, hot, mirror, alerted, proc, recon, history, faults>>

\* Mutant of IsNext: ORDER BY sequence DESC.
IsNextBackwards(n, todo) == \A m \in todo : m <= n

\* Replay goes in sequence order.
IsNext(n, todo) == \A m \in todo : n <= m

Copy(b, n) ==
    /\ backfill[b].pc = "copy"
    /\ n \in backfill[b].todo
    /\ IsNext(n, backfill[b].todo)
    /\ mirror' = Inserted(n)
    /\ backfill' = [backfill EXCEPT ![b].todo = @ \ {n}]
    /\ UNCHANGED <<log, hot, alerted, proc, recon, history, faults>>

\* On to another type, or the end of the script.
Copied(b) ==
    /\ backfill[b].pc = "copy"
    /\ backfill[b].todo = {}
    /\ backfill' = [backfill EXCEPT ![b] = NoJob]
    /\ UNCHANGED <<log, hot, mirror, alerted, proc, recon, history, faults>>

\* A statement throws out of the script, or its process dies.
BackfillFails(b) ==
    /\ backfill[b].pc # "idle"
    /\ Fault
    /\ backfill' = [backfill EXCEPT ![b] = NoJob]
    /\ UNCHANGED <<log, hot, mirror, alerted, proc, recon, history>>

-----------------------------------------------------------------------------
(***************************************************************************)
(* recon:v2-store-tee-coverage, type by type.                              *)
(***************************************************************************)

CountV1(type) ==
    /\ recon.pc = "idle"
    /\ recon' = [NoReport EXCEPT !.pc = "v2", !.type = type, !.upto = Len(log),
                                 !.v1 = Cardinality(OfType(hot, type)),
                                 !.blurred = OfType(1..Len(log) \ hot, type) # {}]
    /\ UNCHANGED <<log, hot, mirror, alerted, proc, backfill, history, faults>>

\* Mutant of Verdict: only an excess is reported.
VerdictOfExcess(v1, v2) == IF v2 > v1 THEN "excess" ELSE "clean"

Verdict(v1, v2) == IF v2 < v1 THEN "gap" ELSE IF v2 > v1 THEN "excess" ELSE "clean"

CountV2 ==
    /\ recon.pc = "v2"
    /\ recon' = [recon EXCEPT
         !.pc = "done",
         !.blurred = @ \/ OfType(recon.upto + 1..Len(log), recon.type) # {},
         !.verdict = Verdict(recon.v1, Cardinality(OfType(Mirrored, recon.type)))]
    /\ UNCHANGED <<log, hot, mirror, alerted, proc, backfill, history, faults>>

EndRecon ==
    /\ recon.pc = "done"
    /\ recon' = NoReport
    /\ UNCHANGED <<log, hot, mirror, alerted, proc, backfill, history, faults>>

-----------------------------------------------------------------------------
Init ==
    /\ log = << >>
    /\ hot = {}
    /\ mirror = << >>
    /\ alerted = [p \in Procs |-> {}]
    /\ proc = [p \in Procs |-> Resting]
    /\ backfill = [b \in Backfills |-> NoJob]
    /\ recon = NoReport
    /\ late = {} /\ failed = {} /\ alerts = {} /\ muted = {}
    /\ faults = 0

Next ==
    \/ \E type \in TeeTypes : Pull(type)
    \/ Archive
    \/ \E p \in Procs :
         \/ \E first \in TeeTypes : TeeAppend(p, <<first>>)
         \/ \E first, second \in TeeTypes : TeeAppend(p, <<first, second>>)
         \/ Mirror(p)
         \/ MirrorFails(p)
         \/ EmitAlert(p)
         \/ EmitAlertFails(p)
         \/ Crash(p)
    \/ \E b \in Backfills :
         \/ \E type \in TeeTypes : PreScan(b, type)
         \/ ReplayV1(b)
         \/ \E n \in backfill[b].todo : Copy(b, n)
         \/ Copied(b)
         \/ BackfillFails(b)
    \/ \E type \in TeeTypes : CountV1(type)
    \/ CountV2
    \/ EndRecon

Spec == Init /\ [][Next]_vars

-----------------------------------------------------------------------------
(***************************************************************************)
(* Properties.                                                             *)
(***************************************************************************)

\* Types; and the V2 store holds V1 events only, each once, though the tee and a
\* backfill may both be about to insert one.
TypeOK ==
    /\ log \in Seq([type : TeeTypes, by : Procs \cup {NoProc}])
    /\ hot \subseteq 1..Len(log)
    /\ mirror \in Seq(Nat) /\ IsInjective(mirror)
    /\ Mirrored \subseteq 1..Len(log)
    /\ alerted \in [Procs -> SUBSET TeeTypes]
    /\ proc \in [Procs -> [todo : Seq(Nat), alert : Nat]]
    /\ \A p \in Procs : proc[p].alert <= Len(log) /\ Range(proc[p].todo) \subseteq 1..Len(log)
    /\ backfill \in [Backfills -> [pc : {"idle", "replay", "copy"}, type : TeeTypes,
                                   known : SUBSET Nat, todo : SUBSET Nat, seen : SUBSET Nat]]
    /\ recon \in [pc : {"idle", "v2", "done"}, type : TeeTypes, v1 : Nat, upto : Nat,
                  blurred : BOOLEAN, verdict : {"none", "gap", "excess", "clean"}]

\* "Fold order is preserved", as far as it goes: the events of one type that one
\* process appends stand in the V2 store in their V1 order, whatever a backfill does
\* at the same time, except for those whose own mirroring failed or was cut short and
\* those that the archiver took from the table, where the backfill misses them.
FoldOrder ==
    \A i, j \in 1..Len(mirror) :
        LET m == mirror[i]
            n == mirror[j]
        IN i < j /\ n < m /\ log[m] = log[n] /\ log[m].by # NoProc
             => n \in late \/ n \notin hot

\* Types that someone was told about, will be, or was to be.
Announced ==
    alerts \cup muted \cup {log[proc[p].alert].type : p \in {q \in Procs : proc[q].alert # 0}}

\* "The failure is never swallowed": a type of which some event's mirroring threw has
\* its alert in the V1 store, or will have it; unless the alert itself could not be
\* appended or its process died.
FailureAlerted == failed \subseteq Announced

\* What the coverage gate reports of a type is so, although it counts instead of
\* comparing: "ALL MIRRORED" that every event of V1 is in V2, and an excess that
\* something is wrong; as long as no event of the type had been archived, and none
\* was appended between its two counts.
VerdictSound ==
    recon.pc = "done" /\ ~ recon.blurred =>
        /\ recon.verdict # "excess"
        /\ recon.verdict = "clean" => OfType(1..recon.upto, recon.type) \subseteq Mirrored

\* A backfill of a type that comes to its end leaves no event unmirrored that was in
\* the V1 table when it replayed it, whatever was mirrored since its pre-scan.
BackfillComplete ==
    \A b \in Backfills :
        backfill[b].pc = "copy" /\ backfill[b].todo = {} => backfill[b].seen \subseteq Mirrored

-----------------------------------------------------------------------------
(***************************************************************************)
(* The inductive invariant behind them.                                    *)
(***************************************************************************)

\* What a process appended is mirrored, lost to the tee or still ahead, and what is
\* ahead is in order.
AheadOf(p) ==
    /\ \A i, j \in 1..Len(proc[p].todo) : i < j => proc[p].todo[i] < proc[p].todo[j]
    /\ \A n \in Range(proc[p].todo) : log[n].by = p
    /\ \A n \in 1..Len(log) :
         log[n].by = p => n \in Mirrored \cup late \cup Range(proc[p].todo)

AheadInv == \A p \in Procs : AheadOf(p)

\* An event that is due in the mirror ahead of another is there when the other is.
OrderInv ==
    \A j \in 1..Len(mirror), n \in hot \ late :
        n < mirror[j] /\ log[n] = log[mirror[j]] /\ log[n].by # NoProc
          => \E i \in 1..Len(mirror) : i < j /\ mirror[i] = n

\* What a backfill passes over is mirrored.
JobInv(b) ==
    LET job == backfill[b] IN
    /\ job.pc = "replay" => job.known \subseteq Mirrored
    /\ job.pc = "copy" =>
         /\ job.todo \subseteq OfType(1..Len(log), job.type)
         /\ job.seen \subseteq Mirrored \cup job.todo
         /\ \A m \in job.todo, n \in OfType(hot, job.type) :
              n < m => n \in Mirrored \cup job.todo

BackfillInv == \A b \in Backfills : JobInv(b)

\* A count that stands for all events of the type.
ReconInv ==
    /\ recon.upto <= Len(log)
    /\ recon.pc = "v2" /\ ~ recon.blurred =>
         recon.v1 = Cardinality(OfType(1..recon.upto, recon.type))

AlertInv == \A p \in Procs : alerted[p] \subseteq Announced

TeeInv ==
    /\ TypeOK /\ AheadInv /\ OrderInv /\ BackfillInv /\ ReconInv /\ AlertInv
    /\ FailureAlerted /\ VerdictSound
=============================================================================

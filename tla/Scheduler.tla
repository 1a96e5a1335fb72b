------------------------------ MODULE Scheduler ------------------------------
(***************************************************************************)
(* Scheduled work: LocalScheduler.tick of platform/scheduler/scheduler.ts, *)
(* which appends a ScheduledTrigger event for every fire time that is due, *)
(* and ScheduledTriggerConsumer.consume, which invokes the handler of each *)
(* trigger.  scripts/scheduler-tick.ts runs one after the other and exits; *)
(* scripts/substrate-scheduler.ts stays up and runs the first alone.       *)
(*                                                                         *)
(* Time is counted in days: a cron expression is the set of days it fires  *)
(* on.  The claims are the table `bus_dispatch_claims`.  SubstrateAlerts   *)
(* are left out: nothing here reads them.                                  *)
(***************************************************************************)
EXTENDS Integers, FiniteSets

CONSTANTS
    Tickers,        \* scheduler-tick.ts processes
    Emitters,       \* substrate-scheduler.ts processes
    Entries,        \* schedule entries; each has one scheduled handler
    FireDays,       \* the days on which each entry's cron expression fires
    Holidays,       \* the public holidays
    LookBack,       \* the look-back window (7 days)
    Removable,      \* entries whose handler some deploy removes
    NoTrigger,      \* "no dispatch in progress"
    MaxDay,         \* bound on the clock
    MaxFaults,      \* bound on crashes and failing statements
    MaxEvictions    \* bound on archive calls that move triggers

Procs == Tickers \cup Emitters
Days  == 0..MaxDay
Slots == Entries \X Days

Trigger == [num : Nat \ {0}, slot : Slots]

ASSUME SchedulerAssumption ==
    /\ Tickers \cap Emitters = {}
    /\ FireDays \in [Entries -> SUBSET Days]
    /\ \A day \in Days : \E later \in day..(day + 30) : later \notin Holidays
    /\ LookBack \in Nat \ {0}
    /\ Removable \subseteq Entries
    /\ NoTrigger \notin Trigger
    /\ {MaxDay, MaxFaults, MaxEvictions} \subseteq Nat

VARIABLES
    now,            \* the clock
    registered,     \* entries whose handler the deployed code has
    triggers,       \* ScheduledTrigger rows in the hot table
    claims,         \* trigger numbers claimed for dispatch
    audited,        \* trigger numbers with a BusDispatched row in the hot table
    proc,           \* per process: its program counter and locals
    emitted,        \* history: every trigger ever appended
    runs,           \* history: how often the handler ran for each slot
    faults,         \* history: crashes and failing statements
    evictions       \* history: archive calls that moved triggers

log     == <<triggers, claims, audited>>
history == <<emitted, runs, faults, evictions>>
vars    == <<now, registered, log, proc, history>>

Proc == [pc : {"closed", "ready", "tick", "fire", "fold", "list", "consume",
               "claimed", "ran"},
         known : SUBSET Entries, at : Days, due : SUBSET Slots, seen : SUBSET Nat,
         todo : SUBSET Trigger, cur : Trigger \cup {NoTrigger}]

At(pc, known) == [pc |-> pc, known |-> known, at |-> 0, due |-> {}, seen |-> {},
                  todo |-> {}, cur |-> NoTrigger]

-----------------------------------------------------------------------------
(***************************************************************************)
(* The environment.                                                        *)
(***************************************************************************)

Clock ==
    /\ now < MaxDay
    /\ now' = now + 1
    /\ UNCHANGED <<registered, log, proc, history>>

\* A deploy after which the handler of an entry is gone.
Deploy(entry) ==
    /\ entry \in registered \cap Removable
    /\ registered' = registered \ {entry}
    /\ UNCHANGED <<now, log, proc, history>>

\* An archive or extraction call moves triggers and audits to the cold tier.
Evict(rows, audits) ==
    /\ evictions < MaxEvictions
    /\ rows # {} \/ audits # {}
    /\ triggers' = triggers \ rows
    /\ audited' = audited \ audits
    /\ evictions' = evictions + 1
    /\ UNCHANGED <<now, registered, claims, proc, emitted, runs, faults>>

-----------------------------------------------------------------------------
(***************************************************************************)
(* LocalScheduler.tick.                                                    *)
(***************************************************************************)

\* shiftPastHolidays: the first day from here on that is no holiday.
ShiftPastHolidays(day) ==
    CHOOSE later \in day..(day + 30) :
        later \notin Holidays /\ day..(later - 1) \subseteq Holidays

\* Mutants of DueDays: only today's fire time; only earlier ones; holiday shifts
\* into the future included.
DueDaysToday(entry, at)   == {day \in FireDays[entry] : day = at /\ day \notin Holidays}
DueDaysEarlier(entry, at) == {ShiftPastHolidays(day) : day \in
    {d \in FireDays[entry] : at - LookBack < d /\ d < at /\ ShiftPastHolidays(d) <= at}}
DueDaysShifted(entry, at) == {ShiftPastHolidays(day) : day \in
    {d \in FireDays[entry] : at - LookBack < d /\ d <= at}}

\* The days for which an entry is to have fired by `at`: nextFireAfter, repeated
\* from the start of the window, each fire time shifted past the holidays.  Left out
\* are the cap of 1000 fire times and an expression on which nextFireAfter throws:
\* both end the tick's walk over this one entry.
DueDays(entry, at) == {ShiftPastHolidays(day) : day \in
    {d \in FireDays[entry] : at - LookBack < d /\ d <= at /\ ShiftPastHolidays(d) <= at}}

\* Mutant of FiredKeys: only what was dispatched counts as fired.
FiredKeysDispatched == {t.slot : t \in {row \in triggers : row.num \in audited}}

\* The fire times already in the event log.
FiredKeys == {t.slot : t \in triggers}

\* The process starts: syncRegistry derives its entries from the handler metadata.
Boot(p) ==
    /\ proc[p].pc = "closed"
    /\ proc' = [proc EXCEPT ![p] = At("ready", registered)]
    /\ UNCHANGED <<now, registered, log, history>>

\* now = new Date().
BeginTick(p) ==
    /\ proc[p].pc = "ready"
    /\ proc' = [proc EXCEPT ![p].pc = "tick", ![p].at = now]
    /\ UNCHANGED <<now, registered, log, history>>

\* Read the triggers in the log, and work out which fire times are left.
ReadFired(p) ==
    /\ proc[p].pc = "tick"
    /\ proc' = [proc EXCEPT
         ![p].pc = "fire",
         ![p].due = {slot \in proc[p].known \X Days :
                       slot[2] \in DueDays(slot[1], proc[p].at)} \ FiredKeys]
    /\ UNCHANGED <<now, registered, log, history>>

\* Append a ScheduledTrigger, an entry's earlier days first.
Fire(p, slot) ==
    LET trigger == [num |-> Cardinality(emitted) + 1, slot |-> slot] IN
    /\ proc[p].pc = "fire"
    /\ slot \in proc[p].due
    /\ \A other \in proc[p].due : other[1] = slot[1] => slot[2] <= other[2]
    /\ triggers' = triggers \cup {trigger}
    /\ emitted' = emitted \cup {trigger}
    /\ proc' = [proc EXCEPT ![p].due = @ \ {slot}]
    /\ UNCHANGED <<now, registered, claims, audited, runs, faults, evictions>>

\* The tick is over: scheduler-tick.ts goes on to consume, substrate-scheduler.ts
\* waits for the next interval.
EndTick(p) ==
    /\ proc[p].pc = "fire"
    /\ proc[p].due = {}
    /\ proc' = [proc EXCEPT ![p].pc = IF p \in Tickers THEN "fold" ELSE "ready"]
    /\ UNCHANGED <<now, registered, log, history>>

-----------------------------------------------------------------------------
(***************************************************************************)
(* ScheduledTriggerConsumer.consume.                                       *)
(***************************************************************************)

\* Fold the BusDispatched rows into the set `dispatched`.
Prefold(p) ==
    /\ proc[p].pc = "fold"
    /\ proc' = [proc EXCEPT ![p].pc = "list", ![p].seen = audited]
    /\ UNCHANGED <<now, registered, log, history>>

\* List the ScheduledTrigger rows. A trigger that was dispatched is skipped, but
\* not before it is known to have a handler.
List(p) ==
    /\ proc[p].pc = "list"
    /\ proc' = [proc EXCEPT ![p] =
         [@ EXCEPT !.pc = "consume",
                   !.seen = {},
                   !.todo = {t \in triggers : t.slot[1] \in proc[p].known =>
                                                t.num \notin proc[p].seen}]]
    /\ UNCHANGED <<now, registered, log, history>>

IsNextTrigger(p, t) ==
    /\ proc[p].pc = "consume"
    /\ t \in proc[p].todo
    /\ \A other \in proc[p].todo : t.num <= other.num

\* No registered handler: a SubstrateAlert is appended, or its append fails and is
\* logged; consume goes on, having neither claimed nor audited the trigger.
SkipUnregistered(p, t) ==
    /\ IsNextTrigger(p, t)
    /\ t.slot[1] \notin proc[p].known
    /\ proc' = [proc EXCEPT ![p].todo = @ \ {t}]
    /\ UNCHANGED <<now, registered, log, history>>

\* Mutant of Claim: the claim replaces the row of an earlier claimant.
ClaimReplacing(p, t) ==
    /\ IsNextTrigger(p, t)
    /\ t.slot[1] \in proc[p].known
    /\ claims' = claims \cup {t.num}
    /\ proc' = [proc EXCEPT ![p] =
         [@ EXCEPT !.pc = "claimed", !.todo = proc[p].todo \ {t}, !.cur = t]]
    /\ UNCHANGED <<now, registered, triggers, audited, history>>

\* claimDispatch returns true.
Claim(p, t) ==
    /\ IsNextTrigger(p, t)
    /\ t.slot[1] \in proc[p].known
    /\ t.num \notin claims
    /\ claims' = claims \cup {t.num}
    /\ proc' = [proc EXCEPT ![p] =
         [@ EXCEPT !.pc = "claimed", !.todo = proc[p].todo \ {t}, !.cur = t]]
    /\ UNCHANGED <<now, registered, triggers, audited, history>>

\* claimDispatch returns false.
LoseClaim(p, t) ==
    /\ IsNextTrigger(p, t)
    /\ t.slot[1] \in proc[p].known
    /\ t.num \in claims
    /\ proc' = [proc EXCEPT ![p].todo = @ \ {t}]
    /\ UNCHANGED <<now, registered, log, history>>

\* The runner is awaited, whatever comes of it.
Invoke(p) ==
    /\ proc[p].pc = "claimed"
    /\ runs' = [runs EXCEPT ![proc[p].cur.slot] = @ + 1]
    /\ proc' = [proc EXCEPT ![p].pc = "ran"]
    /\ UNCHANGED <<now, registered, log, emitted, faults, evictions>>

\* Append the BusDispatched row.
Audit(p) ==
    /\ proc[p].pc = "ran"
    /\ audited' = audited \cup {proc[p].cur.num}
    /\ proc' = [proc EXCEPT ![p].pc = "consume", ![p].cur = NoTrigger]
    /\ UNCHANGED <<now, registered, triggers, claims, history>>

\* consume returns, and scheduler-tick.ts exits.
Exit(p) ==
    /\ proc[p].pc = "consume"
    /\ proc[p].todo = {}
    /\ proc' = [proc EXCEPT ![p] = At("closed", {})]
    /\ UNCHANGED <<now, registered, log, history>>

-----------------------------------------------------------------------------
(***************************************************************************)
(* Failure.                                                                *)
(***************************************************************************)

\* A BusDispatched append throws; it is logged and consume goes on.
AuditFails(p) ==
    /\ proc[p].pc = "ran"
    /\ proc' = [proc EXCEPT ![p].pc = "consume", ![p].cur = NoTrigger]

\* A statement of tick throws: substrate-scheduler.ts logs it and goes on.
TickThrows(p) ==
    /\ p \in Emitters
    /\ proc[p].pc \in {"tick", "fire"}
    /\ proc' = [proc EXCEPT ![p] = At("ready", proc[p].known)]

\* The process dies, or a statement throws out of scheduler-tick.ts.
Crash(p) ==
    /\ proc[p].pc # "closed"
    /\ proc' = [proc EXCEPT ![p] = At("closed", {})]

Fault(p) ==
    /\ faults < MaxFaults
    /\ faults' = faults + 1
    /\ AuditFails(p) \/ TickThrows(p) \/ Crash(p)
    /\ UNCHANGED <<now, registered, log, emitted, runs, evictions>>

-----------------------------------------------------------------------------
Init ==
    /\ now = 0
    /\ registered = Entries
    /\ triggers = {}
    /\ claims = {}
    /\ audited = {}
    /\ proc = [p \in Procs |-> At("closed", {})]
    /\ emitted = {}
    /\ runs = [slot \in Slots |-> 0]
    /\ faults = 0
    /\ evictions = 0

Step(p) ==
    \/ Boot(p)
    \/ BeginTick(p)
    \/ ReadFired(p)
    \/ \E slot \in proc[p].due : Fire(p, slot)
    \/ EndTick(p)
    \/ Prefold(p)
    \/ List(p)
    \/ \E t \in proc[p].todo : SkipUnregistered(p, t) \/ Claim(p, t) \/ LoseClaim(p, t)
    \/ Invoke(p)
    \/ Audit(p)
    \/ Exit(p)

Next ==
    \/ Clock
    \/ \E entry \in Entries : Deploy(entry)
    \/ \E rows \in SUBSET triggers, audits \in SUBSET audited : Evict(rows, audits)
    \/ \E p \in Procs : Step(p) \/ Fault(p)

Spec == Init /\ [][Next]_vars

\* launchd starts scheduler-tick.ts every 60 seconds, and a running process is
\* scheduled.
FairSpec == Spec /\ \A p \in Tickers : WF_vars(Step(p))

-----------------------------------------------------------------------------
(***************************************************************************)
(* Properties.                                                             *)
(***************************************************************************)

\* Types: in particular no trigger is appended before its day.
TypeOK ==
    /\ now \in Days
    /\ registered \subseteq Entries
    /\ emitted \subseteq Trigger /\ triggers \subseteq emitted
    /\ \A t \in emitted : t.slot[2] <= now
    /\ claims \subseteq Nat /\ audited \subseteq Nat
    /\ proc \in [Procs -> Proc]
    /\ runs \in [Slots -> Nat]
    /\ faults \in 0..MaxFaults /\ evictions \in 0..MaxEvictions

\* "exactly once per fire-time": no two ScheduledTrigger events for one entry and
\* fire time, however often the tick runs, is cut short or catches up, and though
\* holidays shift several fire times to one.
FiredOnce == \A a, b \in emitted : a.slot = b.slot => a = b

\* No handler runs twice for one fire time, though triggers are re-read by every
\* consume, audits get lost and processes die between claim, run and audit.
RanOnce == \A slot \in Slots : runs[slot] <= 1

Dispatches == INSTANCE AtMostOnce
              WITH Jobs <- Slots, begun <- {t.slot : t \in emitted}, runs <- runs

\* From fire time to run: a fire time gets one trigger, its handler runs only after
\* that trigger was appended, and once, across ticks and consumes that are cut short.
ImplementsAtMostOnce == Dispatches!Spec

\* Each trigger leads to one run at most, however many processes consume at once:
\* those of a fire time are no more than its triggers, where two ticks at once, or an
\* archive call, gave it several.
RunsPerTrigger ==
    \A slot \in Slots : runs[slot] <= Cardinality({t \in emitted : t.slot = slot})

\* The process is past its tick for the day `at`.
HasTicked(p) == proc[p].pc \in {"fold", "list", "consume", "claimed", "ran"}

\* A tick catches up: once it is over, every fire time of the look-back window has
\* its trigger, by this process or by another, those put off by holidays, by an
\* outage or by an earlier tick that failed half-way included.
CaughtUp ==
    \A p \in Procs : HasTicked(p) =>
        \A entry \in proc[p].known, day \in Days :
            /\ day \in FireDays[entry]
            /\ proc[p].at - LookBack < day
            /\ ShiftPastHolidays(day) <= proc[p].at
            => \E t \in emitted : t.slot = <<entry, ShiftPastHolidays(day)>>

\* A fire time that has come is dispatched in the end (no outage lasting longer
\* than the look-back window, nothing archived, no handler removed).
FireTimesDispatched ==
    \A entry \in Entries : \A day \in FireDays[entry] :
        ShiftPastHolidays(day) <= now
          ~> \E t \in triggers : /\ t.slot = <<entry, ShiftPastHolidays(day)>>
                                 /\ t.num \in claims

-----------------------------------------------------------------------------
(***************************************************************************)
(* The inductive invariants behind them.                                   *)
(***************************************************************************)

\* Triggers are numbered in the order they are appended.
NumberInv ==
    /\ IsFiniteSet(emitted)
    /\ \A t \in emitted : t.num <= Cardinality(emitted)
    /\ \A a, b \in emitted : a.num = b.num => a = b

Working(p) == proc[p].pc \in {"claimed", "ran"}

\* What a process is about to fire is due, what it is about to consume was appended,
\* and what it works on is claimed by it alone.
TaskInv ==
    /\ \A p \in Procs :
         /\ proc[p].at <= now
         /\ \A slot \in proc[p].due : slot[2] <= proc[p].at
         /\ proc[p].todo \subseteq emitted
         /\ Working(p) => proc[p].cur \in emitted /\ proc[p].cur.num \in claims
    /\ \A p, q \in Procs : Working(p) /\ Working(q) /\ p # q => proc[p].cur # proc[q].cur

\* Triggers that were claimed and are not about to run any more.
Spent(slot) ==
    {t \in emitted : /\ t.slot = slot
                     /\ t.num \in claims
                     /\ \A p \in Procs : proc[p].pc = "claimed" => proc[p].cur # t}

RunsInv == \A slot \in Slots : runs[slot] <= Cardinality(Spent(slot))

\* From the look at the log on, every fire time of the window has its trigger or is
\* about to get it.
CatchUpInv ==
    \A p \in Procs :
        /\ proc[p].pc # "fire" => proc[p].due = {}
        /\ proc[p].pc = "fire" \/ HasTicked(p) =>
             \A entry \in proc[p].known : \A day \in DueDays(entry, proc[p].at) :
                <<entry, day>> \in proc[p].due \cup {t.slot : t \in emitted}

SchedulerInv == TypeOK /\ NumberInv /\ TaskInv /\ RunsInv /\ CatchUpInv

\* What a process is about to fire has not been fired. (Of ticks that do not overlap,
\* and no trigger archived within the look-back window.)
OnceInv ==
    /\ FiredOnce
    /\ \A p \in Procs : proc[p].due \cap {t.slot : t \in emitted} = {}
=============================================================================

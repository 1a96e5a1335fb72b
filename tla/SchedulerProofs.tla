--------------------------- MODULE SchedulerProofs ---------------------------
(***************************************************************************)
(* Proofs about Scheduler: its invariants hold for every number of         *)
(* processes, entries, days, faults and archive calls; that a fire time    *)
(* has one trigger, as long as ticks do not overlap and nothing is         *)
(* archived.                                                               *)
(***************************************************************************)
EXTENDS Scheduler, TLAPS, FiniteSetTheorems, NaturalsInduction

(***************************************************************************)
(* Fire times.                                                             *)
(***************************************************************************)

\* A set of natural numbers has a least one.
LEMMA LeastNatural ==
    ASSUME NEW T \in SUBSET Nat, T # {}
    PROVE  \E x \in T : \A y \in T : x <= y
<1> DEFINE R == OpToRel(<, Nat)
<1>1. IsWellFoundedOn(R, Nat)
  BY NatLessThanWellFounded
<1>2. \A x, y \in Nat : y < x => <<y, x>> \in R
  BY DEF OpToRel
<1> HIDE DEF R
<1>3. PICK x \in T : \A y \in T : ~ (<<y, x>> \in R)
  <2>1. T \subseteq Nat
    OBVIOUS
  <2>2. QED
    BY <1>1, <2>1, WFMin
<1>4. ASSUME NEW y \in T
      PROVE  x <= y
  <2>1. x \in Nat /\ y \in Nat /\ ~ (y < x)
    BY <1>2, <1>3
  <2>2. QED
    BY <2>1
<1>5. QED
  BY <1>4

\* A fire time is put off, never forward: ShiftPastHolidays finds its day.
LEMMA ShiftFacts ==
    ASSUME NEW day \in Days
    PROVE  ShiftPastHolidays(day) \in Nat /\ day <= ShiftPastHolidays(day)
<1> DEFINE free == {later \in day..(day + 30) : later \notin Holidays}
<1>1. day \in Nat
  BY SchedulerAssumption DEF Days
<1>2. free \in SUBSET Nat /\ free # {}
  BY <1>1, SchedulerAssumption
<1>3. PICK first \in free : \A later \in free : first <= later
  BY <1>2, LeastNatural
<1>4. day..(first - 1) \subseteq Holidays
  BY <1>1, <1>3
<1>5. \E later \in day..(day + 30) : later \notin Holidays /\ day..(later - 1) \subseteq Holidays
  BY <1>3, <1>4
<1>6. ShiftPastHolidays(day) \in day..(day + 30)
  BY <1>5 DEF ShiftPastHolidays
<1>7. QED
  BY <1>1, <1>6

(***************************************************************************)
(* What a step does to a process.                                          *)
(***************************************************************************)

Others(p) == \A q \in Procs \ {p} : proc'[q] = proc[q]

\* The process goes on to `pc`; the days of its tick, the triggers ahead and the one
\* it works on are these.
Moves(p, pc, at, due, todo, cur) ==
    /\ proc' \in [Procs -> Proc] /\ Others(p)
    /\ proc'[p].pc = pc /\ proc'[p].known = proc[p].known /\ proc'[p].at = at
    /\ proc'[p].due = due /\ proc'[p].todo = todo /\ proc'[p].cur = cur

Pcs == {"closed", "ready", "tick", "fire", "fold", "list", "consume", "claimed", "ran"}

LEMMA Goes ==
    ASSUME proc \in [Procs -> Proc], NEW p \in Procs, NEW pc \in Pcs,
           proc' = [proc EXCEPT ![p].pc = pc]
    PROVE  Moves(p, pc, proc[p].at, proc[p].due, proc[p].todo, proc[p].cur)
BY DEF Moves, Others, Proc, Pcs

LEMMA GoesAt ==
    ASSUME proc \in [Procs -> Proc], NEW p \in Procs, NEW pc \in Pcs, NEW at \in Days,
           proc' = [proc EXCEPT ![p].pc = pc, ![p].at = at]
    PROVE  Moves(p, pc, at, proc[p].due, proc[p].todo, proc[p].cur)
BY DEF Moves, Others, Proc, Pcs

LEMMA GoesDue ==
    ASSUME proc \in [Procs -> Proc], NEW p \in Procs, NEW pc \in Pcs,
           NEW due \in SUBSET Slots, proc' = [proc EXCEPT ![p].pc = pc, ![p].due = due]
    PROVE  Moves(p, pc, proc[p].at, due, proc[p].todo, proc[p].cur)
BY DEF Moves, Others, Proc, Pcs

LEMMA Dues ==
    ASSUME proc \in [Procs -> Proc], NEW p \in Procs,
           NEW due \in SUBSET Slots, proc' = [proc EXCEPT ![p].due = due]
    PROVE  Moves(p, proc[p].pc, proc[p].at, due, proc[p].todo, proc[p].cur)
BY DEF Moves, Others, Proc

LEMMA Todos ==
    ASSUME proc \in [Procs -> Proc], NEW p \in Procs,
           NEW todo \in SUBSET Trigger, proc' = [proc EXCEPT ![p].todo = todo]
    PROVE  Moves(p, proc[p].pc, proc[p].at, proc[p].due, todo, proc[p].cur)
BY DEF Moves, Others, Proc

LEMMA GoesSeen ==
    ASSUME proc \in [Procs -> Proc], NEW p \in Procs, NEW pc \in Pcs,
           NEW seen \in SUBSET Nat, proc' = [proc EXCEPT ![p].pc = pc, ![p].seen = seen]
    PROVE  Moves(p, pc, proc[p].at, proc[p].due, proc[p].todo, proc[p].cur)
BY DEF Moves, Others, Proc, Pcs

LEMMA Becomes ==
    ASSUME proc \in [Procs -> Proc], NEW p \in Procs, NEW next \in Proc,
           next.known = proc[p].known, proc' = [proc EXCEPT ![p] = next]
    PROVE  Moves(p, next.pc, next.at, next.due, next.todo, next.cur)
BY DEF Moves, Others

LEMMA GoesTodo ==
    ASSUME proc \in [Procs -> Proc], NEW p \in Procs, NEW todo \in SUBSET Trigger,
           proc' = [proc EXCEPT ![p] =
                      [proc[p] EXCEPT !.pc = "consume", !.seen = {}, !.todo = todo]]
    PROVE  Moves(p, "consume", proc[p].at, proc[p].due, todo, proc[p].cur)
<1> DEFINE next == [proc[p] EXCEPT !.pc = "consume", !.seen = {}, !.todo = todo]
<1>1. /\ next \in Proc /\ next.pc = "consume" /\ next.known = proc[p].known
      /\ next.at = proc[p].at /\ next.due = proc[p].due /\ next.todo = todo
      /\ next.cur = proc[p].cur
  BY DEF Proc
<1>2. proc' = [proc EXCEPT ![p] = next]
  OBVIOUS
<1> HIDE DEF next
<1>3. QED
  BY <1>1, <1>2, Becomes, Zenon

LEMMA GoesTodoCur ==
    ASSUME proc \in [Procs -> Proc], NEW p \in Procs,
           NEW todo \in SUBSET Trigger, NEW cur \in Trigger,
           proc' = [proc EXCEPT ![p] =
                      [proc[p] EXCEPT !.pc = "claimed", !.todo = todo, !.cur = cur]]
    PROVE  Moves(p, "claimed", proc[p].at, proc[p].due, todo, cur)
<1> DEFINE next == [proc[p] EXCEPT !.pc = "claimed", !.todo = todo, !.cur = cur]
<1>1. /\ next \in Proc /\ next.pc = "claimed" /\ next.known = proc[p].known
      /\ next.at = proc[p].at /\ next.due = proc[p].due /\ next.todo = todo
      /\ next.cur = cur
  BY DEF Proc
<1>2. proc' = [proc EXCEPT ![p] = next]
  OBVIOUS
<1> HIDE DEF next
<1>3. QED
  BY <1>1, <1>2, Becomes, Zenon

LEMMA GoesCur ==
    ASSUME proc \in [Procs -> Proc], NEW p \in Procs, NEW pc \in Pcs,
           NEW cur \in Trigger \cup {NoTrigger},
           proc' = [proc EXCEPT ![p].pc = pc, ![p].cur = cur]
    PROVE  Moves(p, pc, proc[p].at, proc[p].due, proc[p].todo, cur)
BY DEF Moves, Others, Proc, Pcs

\* A process that starts, exits, dies or is back to its interval.
LEMMA Restarts ==
    ASSUME proc \in [Procs -> Proc], NEW p \in Procs, NEW pc \in Pcs,
           NEW known \in SUBSET Entries, proc' = [proc EXCEPT ![p] = At(pc, known)]
    PROVE  /\ proc' \in [Procs -> Proc] /\ Others(p)
           /\ proc'[p].pc = pc /\ proc'[p].known = known /\ proc'[p].at = 0
           /\ proc'[p].due = {} /\ proc'[p].todo = {} /\ proc'[p].cur = NoTrigger
<1>1. At(pc, known) \in Proc
  BY SchedulerAssumption DEF At, Proc, Pcs, Days
<1>2. QED
  BY <1>1 DEF Others, At

(***************************************************************************)
(* Types, numbers and tasks.                                               *)
(***************************************************************************)

\* The clock goes on, no trigger and no claim is taken back, and what a process is
\* newly about to run was not claimed before.
Grows ==
    /\ now <= now' /\ emitted \subseteq emitted' /\ claims \subseteq claims'
    /\ \A p \in Procs : proc'[p].pc = "claimed" =>
         \/ proc[p].pc = "claimed" /\ proc'[p].cur = proc[p].cur
         \/ proc'[p].cur.num \notin claims

LEMMA TypeFacts ==
    ASSUME TypeOK
    PROVE  /\ now \in Nat /\ now <= MaxDay /\ Days \subseteq Nat /\ MaxDay \in Nat
           /\ proc \in [Procs -> Proc]
           /\ \A p \in Procs : /\ proc[p] \in Proc /\ proc[p].pc \in Pcs
                               /\ proc[p].known \subseteq Entries /\ proc[p].at \in Days
                               /\ proc[p].due \subseteq Slots /\ proc[p].seen \subseteq Nat
                               /\ proc[p].todo \subseteq Trigger
                               /\ proc[p].cur \in Trigger \cup {NoTrigger}
           /\ emitted \subseteq Trigger /\ triggers \subseteq emitted
           /\ claims \subseteq Nat /\ audited \subseteq Nat
           /\ \A t \in emitted : t.num \in Nat \ {0} /\ t.slot \in Slots
<1>1. now \in Nat /\ now <= MaxDay /\ Days \subseteq Nat /\ MaxDay \in Nat
  BY SchedulerAssumption DEF TypeOK, Days
<1>2. proc \in [Procs -> Proc] /\ \A p \in Procs : proc[p] \in Proc
  BY DEF TypeOK
<1>3. \A p \in Procs : /\ proc[p].pc \in Pcs
                      /\ proc[p].known \subseteq Entries /\ proc[p].at \in Days
                      /\ proc[p].due \subseteq Slots /\ proc[p].seen \subseteq Nat
                      /\ proc[p].todo \subseteq Trigger
                      /\ proc[p].cur \in Trigger \cup {NoTrigger}
  BY <1>2 DEF Proc, Pcs
<1>4. /\ emitted \subseteq Trigger /\ triggers \subseteq emitted
      /\ claims \subseteq Nat /\ audited \subseteq Nat
  BY DEF TypeOK
<1>5. \A t \in emitted : t.num \in Nat \ {0} /\ t.slot \in Slots
  BY <1>4 DEF Trigger
<1>6. QED
  BY <1>1, <1>2, <1>3, <1>4, <1>5

\* A step of one process that appends no trigger.
LEMMA TaskMoves ==
    ASSUME TypeOK, NumberInv, TaskInv, NEW p \in Procs, proc' \in [Procs -> Proc], Others(p),
           UNCHANGED <<now, registered, triggers, emitted, evictions>>,
           claims \subseteq claims', claims' \subseteq Nat, audited' \subseteq Nat,
           runs' \in [Slots -> Nat], faults' \in 0..MaxFaults,
           proc'[p].at <= now, \A slot \in proc'[p].due : slot[2] <= proc'[p].at,
           proc'[p].todo \subseteq emitted,
           Working(p)' =>
             \/ proc'[p].pc = "ran" /\ Working(p) /\ proc'[p].cur = proc[p].cur
             \/ /\ proc'[p].cur \in emitted /\ proc'[p].cur.num \in claims'
                /\ proc'[p].cur.num \notin claims
    PROVE  TypeOK' /\ NumberInv' /\ TaskInv' /\ Grows
<1>1. Grows
  BY TypeFacts DEF Grows, Others, Working
<1>2. TypeOK'
  BY DEF TypeOK
<1>3. NumberInv'
  BY DEF NumberInv
<1>4. ASSUME NEW q \in Procs
      PROVE  /\ proc'[q].at <= now
             /\ \A slot \in proc'[q].due : slot[2] <= proc'[q].at
             /\ proc'[q].todo \subseteq emitted
             /\ Working(q)' => proc'[q].cur \in emitted /\ proc'[q].cur.num \in claims'
  <2>1. CASE q = p
    BY <2>1 DEF TaskInv
  <2>2. CASE q # p
    BY <2>2 DEF TaskInv, Others, Working
  <2>3. QED
    BY <2>1, <2>2
<1>5. ASSUME NEW q \in Procs \ {p}, Working(p)', Working(q)'
      PROVE  proc'[p].cur # proc'[q].cur
  <2>1. Working(q) /\ proc'[q].cur = proc[q].cur /\ proc[q].cur.num \in claims
    BY <1>5 DEF Working, Others, TaskInv
  <2>2. QED
    BY <2>1, <1>5 DEF TaskInv
<1>6. ASSUME NEW q \in Procs \ {p}, NEW r \in Procs \ {p}, Working(q)', Working(r)', q # r
      PROVE  proc'[q].cur # proc'[r].cur
  BY <1>6 DEF Working, Others, TaskInv
<1>7. TaskInv'
  BY <1>4, <1>5, <1>6 DEF TaskInv
<1>8. QED
  BY <1>1, <1>2, <1>3, <1>7

\* Every step keeps types, numbers and tasks.
LEMMA TypeStep ==
    TypeOK /\ NumberInv /\ TaskInv /\ Next => TypeOK' /\ NumberInv' /\ TaskInv' /\ Grows
<1> SUFFICES ASSUME TypeOK, NumberInv, TaskInv, Next
             PROVE  TypeOK' /\ NumberInv' /\ TaskInv' /\ Grows
  OBVIOUS
<1>0. /\ now \in Nat /\ now <= MaxDay /\ Days \subseteq Nat /\ MaxDay \in Nat
      /\ proc \in [Procs -> Proc]
      /\ emitted \subseteq Trigger /\ triggers \subseteq emitted
      /\ claims \subseteq Nat /\ audited \subseteq Nat
      /\ registered \subseteq Entries
      /\ runs \in [Slots -> Nat] /\ faults \in 0..MaxFaults /\ now \in Days
      /\ evictions \in 0..MaxEvictions /\ MaxFaults \in Nat /\ MaxEvictions \in Nat
  BY TypeFacts, SchedulerAssumption DEF TypeOK
<1>p. ASSUME NEW p \in Procs
      PROVE  /\ proc[p].pc \in Pcs /\ proc[p].known \subseteq Entries /\ proc[p].at \in Days
             /\ proc[p].due \subseteq Slots
             /\ proc[p].todo \subseteq Trigger /\ proc[p].todo \subseteq emitted
             /\ proc[p].at <= now /\ \A slot \in proc[p].due : slot[2] <= proc[p].at
             /\ Working(p) => proc[p].cur \in emitted
  BY TypeFacts DEF TaskInv
<1>1. CASE Clock
  <2>1. now' \in Days /\ now' = now + 1
    BY <1>0, <1>1 DEF Clock, Days
  <2>2. /\ UNCHANGED <<registered, triggers, claims, audited, proc, emitted, runs, faults,
                       evictions>>
    BY <1>1 DEF Clock, log, history
  <2>3. \A t \in emitted : t.slot[2] <= now'
    <3>1. \A t \in emitted : t.slot[2] \in Nat /\ t.slot[2] <= now
      BY <1>0, TypeFacts DEF TypeOK, Slots
    <3>2. QED
      BY <1>0, <2>1, <3>1
  <2>4. TypeOK'
    BY <2>1, <2>2, <2>3 DEF TypeOK
  <2>5. NumberInv'
    BY <2>2 DEF NumberInv
  <2>6. TaskInv'
    <3>1. ASSUME NEW p \in Procs
          PROVE  proc[p].at <= now'
      <4>1. proc[p].at \in Nat /\ proc[p].at <= now
        BY <1>0, <1>p
      <4>2. QED
        BY <1>0, <2>1, <4>1
    <3>2. QED
      BY <2>2, <3>1 DEF TaskInv, Working
  <2>7. QED
    BY <1>0, <2>1, <2>2, <2>4, <2>5, <2>6 DEF Grows
<1>2. ASSUME NEW entry \in Entries, Deploy(entry)
      PROVE  TypeOK' /\ NumberInv' /\ TaskInv' /\ Grows
  <2>1. /\ registered' \subseteq registered
        /\ UNCHANGED <<now, triggers, claims, audited, proc, emitted, runs, faults, evictions>>
    BY <1>2 DEF Deploy, log, history
  <2>2. QED
    BY <1>0, <2>1 DEF TypeOK, NumberInv, TaskInv, Working, Grows
<1>3. ASSUME NEW rows \in SUBSET triggers, NEW audits \in SUBSET audited, Evict(rows, audits)
      PROVE  TypeOK' /\ NumberInv' /\ TaskInv' /\ Grows
  <2>1. /\ triggers' \subseteq triggers /\ audited' \subseteq audited
        /\ evictions' \in 0..MaxEvictions
        /\ UNCHANGED <<now, registered, claims, proc, emitted, runs, faults>>
    BY <1>0, <1>3 DEF Evict
  <2>2. QED
    BY <1>0, <2>1 DEF TypeOK, NumberInv, TaskInv, Working, Grows
<1>4. ASSUME NEW p \in Procs, Boot(p) \/ Exit(p)
      PROVE  TypeOK' /\ NumberInv' /\ TaskInv' /\ Grows
  <2>1. PICK pc \in {"ready", "closed"}, known \in SUBSET Entries :
          proc' = [proc EXCEPT ![p] = At(pc, known)]
    BY <1>0, <1>4 DEF Boot, Exit
  <2>2. UNCHANGED <<now, registered, triggers, claims, audited, emitted, runs, faults, evictions>>
    BY <1>4 DEF Boot, Exit, log, history
  <2>3. /\ proc' \in [Procs -> Proc] /\ Others(p) /\ proc'[p].pc = pc /\ proc'[p].at = 0
        /\ proc'[p].due = {} /\ proc'[p].todo = {}
    BY <1>0, <2>1, Restarts DEF Pcs
  <2>4. QED
    BY <1>0, <2>1, <2>2, <2>3, TaskMoves DEF Working
<1>5. ASSUME NEW p \in Procs, NEW pc \in Pcs, NEW at \in Days, NEW due \in SUBSET Slots,
             NEW todo \in SUBSET emitted, NEW cur,
             Moves(p, pc, at, due, todo, cur),
             at <= now, \A slot \in due : slot[2] <= at,
             pc \notin {"claimed", "ran"} \/ (pc = "ran" /\ Working(p) /\ cur = proc[p].cur),
             UNCHANGED <<now, registered, triggers, claims, emitted, evictions>>,
             audited' \subseteq Nat, runs' \in [Slots -> Nat], faults' \in 0..MaxFaults
      PROVE  TypeOK' /\ NumberInv' /\ TaskInv' /\ Grows
  BY <1>0, <1>5, TaskMoves DEF Moves, Working
<1> DEFINE Goal == TypeOK' /\ NumberInv' /\ TaskInv' /\ Grows
<1>q. "ready" \in Pcs /\ "tick" \in Pcs /\ "fire" \in Pcs /\ "fold" \in Pcs /\ "list" \in Pcs
      /\ "consume" \in Pcs /\ "claimed" \in Pcs /\ "ran" \in Pcs
  BY DEF Pcs
<1>6. ASSUME NEW p \in Procs, BeginTick(p)
      PROVE  Goal
  <2>1. /\ proc' = [proc EXCEPT ![p].pc = "tick", ![p].at = now]
        /\ UNCHANGED <<now, registered, triggers, claims, audited, emitted, runs, faults,
                       evictions>>
    BY <1>6 DEF BeginTick, log, history
  <2>2. Moves(p, "tick", now, proc[p].due, proc[p].todo, proc[p].cur)
    BY <1>0, <1>q, <2>1, GoesAt
  <2>3. \A slot \in proc[p].due : slot[2] <= now
    <3>1. ASSUME NEW slot \in proc[p].due
          PROVE  slot[2] \in Nat /\ slot[2] <= proc[p].at
      BY <1>0, <1>p DEF Slots
    <3>2. proc[p].at \in Nat /\ proc[p].at <= now
      BY <1>0, <1>p
    <3>3. QED
      BY <1>0, <3>1, <3>2
  <2>4. QED
    BY <1>0, <1>p, <1>q, <1>5, <2>1, <2>2, <2>3
<1>7. ASSUME NEW p \in Procs, ReadFired(p)
      PROVE  Goal
  <2> DEFINE due == {slot \in proc[p].known \X Days :
                       slot[2] \in DueDays(slot[1], proc[p].at)} \ FiredKeys
  <2>1. /\ proc' = [proc EXCEPT ![p].pc = "fire", ![p].due = due]
        /\ UNCHANGED <<now, registered, triggers, claims, audited, emitted, runs, faults,
                       evictions>>
    BY <1>7 DEF ReadFired, log, history
  <2>2. due \in SUBSET Slots
    BY <1>p DEF Slots
  <2>3. \A slot \in due : slot[2] <= proc[p].at
    BY DEF DueDays
  <2> HIDE DEF due
  <2>4. Moves(p, "fire", proc[p].at, due, proc[p].todo, proc[p].cur)
    BY <1>0, <1>q, <2>1, <2>2, GoesDue
  <2>5. QED
    BY <1>0, <1>p, <1>q, <1>5, <2>1, <2>2, <2>3, <2>4
<1>8. ASSUME NEW p \in Procs, NEW slot \in proc[p].due, Fire(p, slot)
      PROVE  Goal
  <2> DEFINE n       == Cardinality(emitted)
             trigger == [num |-> n + 1, slot |-> slot]
             due     == proc[p].due \ {slot}
  <2>1. /\ proc[p].pc = "fire"
        /\ triggers' = triggers \cup {trigger} /\ emitted' = emitted \cup {trigger}
        /\ proc' = [proc EXCEPT ![p].due = due]
        /\ UNCHANGED <<now, registered, claims, audited, runs, faults, evictions>>
    BY <1>8 DEF Fire
  <2>2. IsFiniteSet(emitted) /\ n \in Nat
    BY FS_CardinalityType DEF NumberInv
  <2>3. \A t \in emitted : t.num \in Nat /\ t.num <= n
    BY TypeFacts DEF NumberInv
  <2>4. trigger \notin emitted /\ trigger \in Trigger
    BY <1>p, <2>2, <2>3 DEF Trigger
  <2>5. IsFiniteSet(emitted') /\ Cardinality(emitted') = n + 1
    BY <2>1, <2>2, <2>4, FS_AddElement
  <2>6. NumberInv'
    <3>1. trigger.num = n + 1 /\ \A t \in emitted : t.num # trigger.num
      BY <2>2, <2>3
    <3>2. \A a, b \in emitted : a.num = b.num => a = b
      BY DEF NumberInv
    <3> HIDE DEF trigger, n
    <3>3. ASSUME NEW t \in emitted'
          PROVE  t.num <= n + 1
      BY <2>1, <2>2, <2>3, <3>1
    <3>4. \A a, b \in emitted' : a.num = b.num => a = b
      BY <2>1, <3>1, <3>2
    <3>5. QED
      BY <2>5, <3>3, <3>4 DEF NumberInv
  <2>7. Moves(p, proc[p].pc, proc[p].at, due, proc[p].todo, proc[p].cur)
    BY <1>0, <1>p, <2>1, Dues
  <2>8. TypeOK'
    <3>1. slot[2] <= now
      <4>1. slot[2] \in Nat /\ slot[2] <= proc[p].at /\ proc[p].at \in Nat /\ proc[p].at <= now
        BY <1>0, <1>p DEF Slots
      <4>2. QED
        BY <1>0, <4>1
    <3>2. trigger.slot[2] <= now
      BY <3>1
    <3> HIDE DEF trigger
    <3>3. emitted' \subseteq Trigger /\ triggers' \subseteq emitted'
      BY <1>0, <2>1, <2>4
    <3>4. \A t \in emitted' : t.slot[2] <= now
      BY <2>1, <3>2 DEF TypeOK
    <3>5. QED
      BY <1>0, <2>1, <2>7, <3>3, <3>4 DEF TypeOK, Moves
  <2>9. TaskInv'
    BY <1>p, <2>1, <2>7 DEF TaskInv, Moves, Others, Working
  <2>10. Grows
    BY <1>0, <2>1, <2>7 DEF Grows, Moves, Others
  <2>11. QED
    BY <2>6, <2>8, <2>9, <2>10
<1>9. ASSUME NEW p \in Procs, EndTick(p)
      PROVE  Goal
  <2>1. PICK pc \in {"fold", "ready"} : proc' = [proc EXCEPT ![p].pc = pc]
    BY <1>9 DEF EndTick
  <2>2. UNCHANGED <<now, registered, triggers, claims, audited, emitted, runs, faults, evictions>>
    BY <1>9 DEF EndTick, log, history
  <2>3. Moves(p, pc, proc[p].at, proc[p].due, proc[p].todo, proc[p].cur)
    BY <1>0, <1>q, <2>1, Goes
  <2>4. QED
    BY <1>0, <1>p, <1>q, <1>5, <2>1, <2>2, <2>3
<1>10. ASSUME NEW p \in Procs, Prefold(p)
       PROVE  Goal
  <2>1. /\ proc' = [proc EXCEPT ![p].pc = "list", ![p].seen = audited]
        /\ UNCHANGED <<now, registered, triggers, claims, audited, emitted, runs, faults,
                       evictions>>
    BY <1>10 DEF Prefold, log, history
  <2>2. Moves(p, "list", proc[p].at, proc[p].due, proc[p].todo, proc[p].cur)
    BY <1>0, <1>q, <2>1, GoesSeen
  <2>3. QED
    BY <1>0, <1>p, <1>q, <1>5, <2>1, <2>2
<1>11. ASSUME NEW p \in Procs, List(p)
       PROVE  Goal
  <2> DEFINE todo == {t \in triggers : t.slot[1] \in proc[p].known => t.num \notin proc[p].seen}
  <2>1. /\ proc' = [proc EXCEPT ![p] =
                      [proc[p] EXCEPT !.pc = "consume", !.seen = {}, !.todo = todo]]
        /\ UNCHANGED <<now, registered, triggers, claims, audited, emitted, runs, faults,
                       evictions>>
    BY <1>11 DEF List, log, history
  <2>2. todo \in SUBSET emitted /\ todo \in SUBSET Trigger
    BY <1>0
  <2> HIDE DEF todo
  <2>3. Moves(p, "consume", proc[p].at, proc[p].due, todo, proc[p].cur)
    BY <1>0, <2>1, <2>2, GoesTodo, Zenon
  <2>4. QED
    BY <1>0, <1>p, <1>q, <1>5, <2>1, <2>2, <2>3
<1>12. ASSUME NEW p \in Procs, NEW t \in proc[p].todo, SkipUnregistered(p, t) \/ LoseClaim(p, t)
       PROVE  Goal
  <2>1. /\ proc' = [proc EXCEPT ![p].todo = proc[p].todo \ {t}] /\ proc[p].pc = "consume"
        /\ UNCHANGED <<now, registered, triggers, claims, audited, emitted, runs, faults,
                       evictions>>
    BY <1>12 DEF SkipUnregistered, LoseClaim, IsNextTrigger, log, history
  <2>2. proc[p].todo \ {t} \in SUBSET emitted /\ proc[p].todo \ {t} \in SUBSET Trigger
    BY <1>p
  <2>3. Moves(p, proc[p].pc, proc[p].at, proc[p].due, proc[p].todo \ {t}, proc[p].cur)
    BY <1>0, <2>1, <2>2, Todos
  <2>4. QED
    BY <1>0, <1>p, <1>q, <1>5, <2>1, <2>2, <2>3
<1>13. ASSUME NEW p \in Procs, NEW t \in proc[p].todo, Claim(p, t)
       PROVE  Goal
  <2>a. proc' = [proc EXCEPT ![p] = [proc[p] EXCEPT
                       !.pc = "claimed", !.todo = proc[p].todo \ {t}, !.cur = t]]
    BY <1>13 DEF Claim
  <2>b. /\ t.num \notin claims /\ claims' = claims \cup {t.num}
        /\ UNCHANGED <<now, registered, triggers, audited, history>>
    BY <1>13, Zenon DEF Claim
  <2>1. /\ t.num \notin claims /\ claims' = claims \cup {t.num}
        /\ UNCHANGED <<now, registered, triggers, audited, emitted, runs, faults, evictions>>
    BY <2>b DEF history
  <2>2. /\ t \in emitted /\ t \in Trigger /\ t.num \in Nat
        /\ proc[p].todo \ {t} \in SUBSET emitted /\ proc[p].todo \ {t} \in SUBSET Trigger
    BY <1>p, TypeFacts
  <2>3. Moves(p, "claimed", proc[p].at, proc[p].due, proc[p].todo \ {t}, t)
    BY <1>0, <2>a, <2>2, GoesTodoCur, Zenon
  <2>4. QED
    BY <1>0, <1>p, <2>1, <2>2, <2>3, TaskMoves DEF Moves
<1>14. ASSUME NEW p \in Procs, Invoke(p)
       PROVE  Goal
  <2>1. /\ proc[p].pc = "claimed" /\ proc' = [proc EXCEPT ![p].pc = "ran"]
        /\ runs' = [runs EXCEPT ![proc[p].cur.slot] = @ + 1]
        /\ UNCHANGED <<now, registered, triggers, claims, audited, emitted, faults, evictions>>
    BY <1>14 DEF Invoke, log
  <2>2. Moves(p, "ran", proc[p].at, proc[p].due, proc[p].todo, proc[p].cur)
    BY <1>0, <1>q, <2>1, Goes
  <2>3. runs' \in [Slots -> Nat]
    <3>1. runs' = [runs EXCEPT ![proc[p].cur.slot] = runs[proc[p].cur.slot] + 1]
      BY <2>1
    <3>2. proc[p].cur.slot \in Slots
      BY <1>p, <2>1, TypeFacts DEF Working
    <3>3. QED
      BY <1>0, <3>1, <3>2
  <2>4. QED
    BY <1>0, <1>p, <1>q, <1>5, <2>1, <2>2, <2>3 DEF Working
<1>15. ASSUME NEW p \in Procs, Audit(p)
       PROVE  Goal
  <2>1. /\ proc[p].pc = "ran" /\ audited' = audited \cup {proc[p].cur.num}
        /\ proc' = [proc EXCEPT ![p].pc = "consume", ![p].cur = NoTrigger]
        /\ UNCHANGED <<now, registered, triggers, claims, emitted, runs, faults, evictions>>
    BY <1>15 DEF Audit, history
  <2>2. proc[p].cur.num \in Nat
    BY <1>p, <2>1, TypeFacts DEF Working
  <2>3. Moves(p, "consume", proc[p].at, proc[p].due, proc[p].todo, NoTrigger)
    BY <1>0, <1>q, <2>1, GoesCur
  <2>4. audited' \subseteq Nat
    BY <1>0, <2>1, <2>2
  <2>5. QED
    BY <1>0, <1>p, <1>q, <1>5, <2>1, <2>3, <2>4
<1>16. ASSUME NEW p \in Procs, Fault(p)
       PROVE  Goal
  <2>1. /\ faults' \in 0..MaxFaults
        /\ AuditFails(p) \/ TickThrows(p) \/ Crash(p)
        /\ UNCHANGED <<now, registered, triggers, claims, audited, emitted, runs, evictions>>
    BY <1>0, <1>16 DEF Fault, log
  <2>2. CASE AuditFails(p)
    <3>1. proc' = [proc EXCEPT ![p].pc = "consume", ![p].cur = NoTrigger]
      BY <2>2 DEF AuditFails
    <3>2. Moves(p, "consume", proc[p].at, proc[p].due, proc[p].todo, NoTrigger)
      BY <1>0, <1>q, <3>1, GoesCur
    <3>3. QED
      BY <1>0, <1>p, <1>q, <1>5, <2>1, <3>2
  <2>3. CASE TickThrows(p) \/ Crash(p)
    <3>1. PICK pc \in {"ready", "closed"}, known \in SUBSET Entries :
            proc' = [proc EXCEPT ![p] = At(pc, known)]
      BY <1>p, <2>3 DEF TickThrows, Crash
    <3>2. /\ proc' \in [Procs -> Proc] /\ Others(p) /\ proc'[p].pc = pc /\ proc'[p].at = 0
          /\ proc'[p].due = {} /\ proc'[p].todo = {}
      BY <1>0, <3>1, Restarts DEF Pcs
    <3>3. QED
      BY <1>0, <2>1, <3>2, TaskMoves DEF Working
  <2>4. QED
    BY <2>1, <2>2, <2>3
<1>17. QED
  BY <1>1, <1>2, <1>3, <1>4, <1>6, <1>7, <1>8, <1>9, <1>10, <1>11, <1>12, <1>13, <1>14, <1>15,
     <1>16 DEF Next, Step

(***************************************************************************)
(* Runs.                                                                   *)
(***************************************************************************)

LEMMA SpentFacts ==
    ASSUME NumberInv, NEW slot
    PROVE  /\ IsFiniteSet(Spent(slot)) /\ Cardinality(Spent(slot)) \in Nat
           /\ Spent(slot) \subseteq {t \in emitted : t.slot = slot}
           /\ Cardinality(Spent(slot)) <= Cardinality({t \in emitted : t.slot = slot})
<1> DEFINE all == {t \in emitted : t.slot = slot}
<1>1. Spent(slot) \subseteq all
  BY DEF Spent
<1>2. IsFiniteSet(all)
  BY FS_Subset DEF NumberInv
<1>3. QED
  BY <1>1, <1>2, FS_Subset, FS_CardinalityType

\* What was claimed and is about to run no more stays so.
LEMMA SpentGrows ==
    ASSUME Grows, NEW slot
    PROVE  Spent(slot) \subseteq Spent(slot)'
<1> SUFFICES ASSUME NEW t \in Spent(slot)
             PROVE  t \in Spent(slot)'
  OBVIOUS
<1>1. t \in emitted /\ t.slot = slot /\ t.num \in claims
  BY DEF Spent
<1>2. ASSUME NEW p \in Procs, proc'[p].pc = "claimed"
      PROVE  proc'[p].cur # t
  BY <1>1, <1>2 DEF Grows, Spent
<1>3. QED
  BY <1>1, <1>2 DEF Grows, Spent

LEMMA RunsChange ==
    Next => runs' = runs \/ \E p \in Procs : Invoke(p)
BY DEF Next, Step, Clock, Deploy, Evict, Boot, BeginTick, ReadFired, Fire, EndTick, Prefold,
       List, SkipUnregistered, Claim, LoseClaim, Audit, Exit, Fault, log, history

\* A run is of a trigger that is claimed and was not run before.
LEMMA RunsStep ==
    ASSUME TypeOK, NumberInv, TaskInv, RunsInv, Next, NumberInv', Grows
    PROVE  RunsInv'
<1> SUFFICES ASSUME NEW slot \in Slots
             PROVE  runs'[slot] <= Cardinality(Spent(slot)')
  BY DEF RunsInv
<1>1. /\ IsFiniteSet(Spent(slot)) /\ Cardinality(Spent(slot)) \in Nat
  BY SpentFacts
<1>2. /\ IsFiniteSet(Spent(slot)') /\ Cardinality(Spent(slot)') \in Nat
  <2>1. IsFiniteSet(emitted') /\ Spent(slot)' \subseteq emitted'
    BY DEF NumberInv, Spent
  <2>2. QED
    BY <2>1, FS_Subset, FS_CardinalityType
<1>3. Spent(slot) \subseteq Spent(slot)'
  BY SpentGrows
<1>4. Cardinality(Spent(slot)) <= Cardinality(Spent(slot)')
  BY <1>2, <1>3, FS_Subset
<1>5. runs[slot] \in Nat /\ runs[slot] <= Cardinality(Spent(slot))
  BY DEF TypeOK, RunsInv
<1>6. CASE runs'[slot] = runs[slot]
  BY <1>1, <1>2, <1>4, <1>5, <1>6
<1>7. ASSUME NEW p \in Procs, Invoke(p), runs'[slot] # runs[slot]
      PROVE  runs'[slot] <= Cardinality(Spent(slot)')
  <2> DEFINE t == proc[p].cur
  <2>1. /\ proc[p].pc = "claimed" /\ runs' = [runs EXCEPT ![t.slot] = runs[t.slot] + 1]
        /\ UNCHANGED <<claims, emitted>>
    BY <1>7 DEF Invoke, log
  <2>2. runs \in [Slots -> Nat]
    BY DEF TypeOK
  <2>3. slot = t.slot /\ runs'[slot] = runs[slot] + 1
    BY <1>7, <2>1, <2>2
  <2>4. t \in emitted /\ t.num \in claims
    BY <2>1 DEF TaskInv, Working
  <2>5. t \notin Spent(slot)
    BY <2>1 DEF Spent
  <2>6. ASSUME NEW q \in Procs
        PROVE  proc'[q].pc = "claimed" => proc'[q].cur # t
    <3>1. proc' = [proc EXCEPT ![p].pc = "ran"] /\ proc \in [Procs -> Proc]
      BY <1>7 DEF Invoke, TypeOK
    <3>2. Moves(p, "ran", proc[p].at, proc[p].due, proc[p].todo, proc[p].cur)
      BY <3>1, Goes DEF Pcs
    <3>3. CASE q = p
      BY <3>2, <3>3 DEF Moves
    <3>4. CASE q # p
      BY <2>1, <3>2, <3>4 DEF Moves, Others, TaskInv, Working
    <3>5. QED
      BY <3>3, <3>4
  <2>7. t \in Spent(slot)'
    BY <2>1, <2>3, <2>4, <2>6 DEF Spent
  <2>8. Cardinality(Spent(slot) \cup {t}) = Cardinality(Spent(slot)) + 1
    BY <1>1, <2>5, FS_AddElement
  <2>9. Cardinality(Spent(slot) \cup {t}) <= Cardinality(Spent(slot)')
    <3>1. Spent(slot) \cup {t} \subseteq Spent(slot)'
      BY <1>3, <2>7
    <3> HIDE DEF t
    <3>2. QED
      BY <1>2, <3>1, FS_Subset
  <2> HIDE DEF t
  <2>10. QED
    BY <1>1, <1>2, <1>5, <2>3, <2>8, <2>9
<1>8. QED
  BY <1>6, <1>7, RunsChange

(***************************************************************************)
(* Catching up.                                                            *)
(***************************************************************************)

\* No tick looks for a day before its window: holidays only shift days later.
LEMMA DueDaysAfter ==
    ASSUME NEW entry \in Entries, NEW at \in Days, NEW day \in DueDays(entry, at)
    PROVE  day > at - LookBack
<1>1. PICK d \in FireDays[entry] : at - LookBack < d /\ day = ShiftPastHolidays(d)
  BY DEF DueDays
<1>2. d \in Days
  BY SchedulerAssumption
<1>3. day \in Int /\ d <= day
  BY <1>1, <1>2, ShiftFacts DEF Days
<1>4. QED
  BY <1>1, <1>2, <1>3, SchedulerAssumption DEF Days

\* A day an entry is to have fired by `at` is one of the days of the clock.
LEMMA DueDaysFacts ==
    ASSUME NEW entry \in Entries, NEW at \in Days
    PROVE  \A day \in DueDays(entry, at) : day \in Days /\ day <= at
<1> SUFFICES ASSUME NEW day \in FireDays[entry], ShiftPastHolidays(day) <= at
             PROVE  ShiftPastHolidays(day) \in Days
  BY DEF DueDays
<1>1. day \in Days
  BY SchedulerAssumption
<1>2. ShiftPastHolidays(day) \in Nat
  BY <1>1, ShiftFacts
<1>3. QED
  BY <1>2, SchedulerAssumption DEF Days

\* Once the tick is over, what was due has its trigger.
LEMMA CatchUpIsCaughtUp ==
    ASSUME TypeOK, CatchUpInv
    PROVE  CaughtUp
<1> SUFFICES ASSUME NEW p \in Procs, HasTicked(p), NEW entry \in proc[p].known,
                    NEW day \in Days, day \in FireDays[entry],
                    proc[p].at - LookBack < day, ShiftPastHolidays(day) <= proc[p].at
             PROVE  \E t \in emitted : t.slot = <<entry, ShiftPastHolidays(day)>>
  BY DEF CaughtUp
<1>1. proc[p].pc # "fire" /\ proc[p].due = {}
  BY DEF CatchUpInv, HasTicked
<1>2. day <= proc[p].at
  <2>1. /\ day \in Nat /\ ShiftPastHolidays(day) \in Nat /\ day <= ShiftPastHolidays(day)
        /\ proc[p].at \in Nat
    BY ShiftFacts, TypeFacts DEF Days
  <2>2. QED
    BY <2>1
<1>3. ShiftPastHolidays(day) \in DueDays(entry, proc[p].at)
  BY <1>2 DEF DueDays
<1>4. <<entry, ShiftPastHolidays(day)>> \in {t.slot : t \in emitted}
  BY <1>1, <1>3 DEF CatchUpInv
<1>5. QED
  BY <1>4

Caught(p) ==
    /\ proc[p].pc # "fire" => proc[p].due = {}
    /\ proc[p].pc = "fire" \/ HasTicked(p) =>
         \A entry \in proc[p].known : \A day \in DueDays(entry, proc[p].at) :
            <<entry, day>> \in proc[p].due \cup {t.slot : t \in emitted}

\* A step of one process leaves the others with what they are about to fire.
LEMMA CatchUpOthers ==
    ASSUME CatchUpInv, Grows, NEW p, Others(p), Caught(p)'
    PROVE  CatchUpInv'
<1>1. {t.slot : t \in emitted} \subseteq {t.slot : t \in emitted'}
  BY DEF Grows
<1>2. ASSUME NEW q \in Procs \ {p}
      PROVE  Caught(q)'
  <2>1. proc'[q] = proc[q] /\ Caught(q)
    BY DEF Others, CatchUpInv, Caught
  <2>2. QED
    BY <1>1, <2>1 DEF Caught, HasTicked, DueDays
<1>3. QED
  BY <1>2 DEF CatchUpInv, Caught

LEMMA CatchUpMoves ==
    ASSUME CatchUpInv, Grows, NEW p \in Procs, NEW pc, NEW at, NEW todo, NEW cur,
           Moves(p, pc, at, proc[p].due, todo, cur), proc[p].due = {}, pc # "fire",
           \/ pc \notin {"fold", "list", "consume", "claimed", "ran"}
           \/ at = proc[p].at /\ (proc[p].pc = "fire" \/ HasTicked(p))
    PROVE  CatchUpInv'
<1>1. /\ Others(p) /\ proc'[p].pc = pc /\ proc'[p].known = proc[p].known /\ proc'[p].at = at
      /\ proc'[p].due = {}
  BY DEF Moves
<1>2. {t.slot : t \in emitted} \subseteq {t.slot : t \in emitted'}
  BY DEF Grows
<1>3. Caught(p)
  BY DEF CatchUpInv, Caught
<1>4. Caught(p)'
  BY <1>1, <1>2, <1>3 DEF Caught, HasTicked, DueDays
<1>5. QED
  BY <1>1, <1>4, CatchUpOthers

\* The tick fires what the log lacks of the window, and nothing drops out of it.
LEMMA CatchUpStep ==
    ASSUME TypeOK, NumberInv, TaskInv, CatchUpInv, Next, Grows
    PROVE  CatchUpInv'
<1>0. proc \in [Procs -> Proc] /\ triggers \subseteq emitted
  BY DEF TypeOK
<1>p. ASSUME NEW p \in Procs
      PROVE  /\ proc[p].pc \in Pcs /\ proc[p].known \subseteq Entries /\ proc[p].at \in Days
             /\ proc[p].due \subseteq Slots /\ proc[p].todo \subseteq Trigger
             /\ proc[p].pc # "fire" => proc[p].due = {}
  BY TypeFacts DEF CatchUpInv
<1>q. "ready" \in Pcs /\ "tick" \in Pcs /\ "fire" \in Pcs /\ "fold" \in Pcs /\ "list" \in Pcs
      /\ "consume" \in Pcs /\ "claimed" \in Pcs /\ "ran" \in Pcs /\ "closed" \in Pcs
  BY DEF Pcs
<1>1. CASE UNCHANGED <<proc, emitted>>
  BY <1>1 DEF CatchUpInv, HasTicked, DueDays
<1>2. ASSUME NEW p \in Procs, NEW pc \in {"ready", "closed"}, NEW known \in SUBSET Entries,
             proc' = [proc EXCEPT ![p] = At(pc, known)]
      PROVE  CatchUpInv'
  <2>1. Others(p) /\ proc'[p].pc = pc /\ proc'[p].due = {}
    BY <1>0, <1>q, <1>2, Restarts
  <2>2. Caught(p)'
    BY <2>1 DEF Caught, HasTicked
  <2>3. QED
    BY <2>1, <2>2, CatchUpOthers
<1>3. ASSUME NEW p \in Procs, BeginTick(p)
      PROVE  CatchUpInv'
  <2>1. proc' = [proc EXCEPT ![p].pc = "tick", ![p].at = now] /\ proc[p].pc = "ready"
    BY <1>3 DEF BeginTick
  <2>2. now \in Days
    BY DEF TypeOK
  <2>3. Moves(p, "tick", now, proc[p].due, proc[p].todo, proc[p].cur)
    BY <1>0, <1>q, <2>1, <2>2, GoesAt
  <2>4. QED
    BY <1>p, <2>1, <2>3, CatchUpMoves
<1>4. ASSUME NEW p \in Procs, ReadFired(p)
      PROVE  CatchUpInv'
  <2> DEFINE due == {slot \in proc[p].known \X Days :
                       slot[2] \in DueDays(slot[1], proc[p].at)} \ FiredKeys
  <2>1. proc' = [proc EXCEPT ![p].pc = "fire", ![p].due = due] /\ UNCHANGED emitted
    BY <1>4 DEF ReadFired, history
  <2>2. due \in SUBSET Slots
    BY <1>p DEF Slots
  <2>3. ASSUME NEW entry \in proc[p].known, NEW day \in DueDays(entry, proc[p].at)
        PROVE  <<entry, day>> \in due \cup {t.slot : t \in emitted}
    <3>1. day \in Days
      BY <1>p, DueDaysFacts
    <3>2. <<entry, day>> \in due \cup FiredKeys
      BY <3>1
    <3>3. FiredKeys \subseteq {t.slot : t \in emitted}
      BY <1>0 DEF FiredKeys
    <3>4. QED
      BY <3>2, <3>3
  <2> HIDE DEF due
  <2>4. Moves(p, "fire", proc[p].at, due, proc[p].todo, proc[p].cur)
    BY <1>0, <1>q, <2>1, <2>2, GoesDue
  <2>5. Caught(p)'
    BY <2>1, <2>3, <2>4 DEF Moves, Caught, HasTicked, DueDays
  <2>6. QED
    BY <2>4, <2>5, CatchUpOthers DEF Moves
<1>5. ASSUME NEW p \in Procs, NEW slot \in proc[p].due, Fire(p, slot)
      PROVE  CatchUpInv'
  <2> DEFINE trigger == [num |-> Cardinality(emitted) + 1, slot |-> slot]
             due     == proc[p].due \ {slot}
  <2>1. /\ proc[p].pc = "fire" /\ emitted' = emitted \cup {trigger}
        /\ proc' = [proc EXCEPT ![p].due = due]
    BY <1>5 DEF Fire
  <2>2. Moves(p, proc[p].pc, proc[p].at, due, proc[p].todo, proc[p].cur)
    BY <1>0, <1>p, <2>1, Dues
  <2>3. trigger.slot = slot
    OBVIOUS
  <2> HIDE DEF trigger
  <2>4. proc[p].due \cup {t.slot : t \in emitted} \subseteq due \cup {t.slot : t \in emitted'}
    BY <2>1, <2>3
  <2>5. Caught(p)
    BY DEF CatchUpInv, Caught
  <2> HIDE DEF due
  <2>6. Caught(p)'
    BY <2>1, <2>2, <2>4, <2>5 DEF Moves, Caught, HasTicked, DueDays
  <2>7. QED
    BY <2>2, <2>6, CatchUpOthers DEF Moves
<1>6. ASSUME NEW p \in Procs, EndTick(p)
      PROVE  CatchUpInv'
  <2>1. PICK pc \in {"fold", "ready"} : proc' = [proc EXCEPT ![p].pc = pc]
    BY <1>6 DEF EndTick
  <2>2. proc[p].pc = "fire" /\ proc[p].due = {}
    BY <1>6 DEF EndTick
  <2>3. Moves(p, pc, proc[p].at, proc[p].due, proc[p].todo, proc[p].cur)
    BY <1>0, <1>q, <2>1, Goes
  <2>4. QED
    BY <2>2, <2>3, CatchUpMoves
<1>7. ASSUME NEW p \in Procs, Prefold(p) \/ Invoke(p)
      PROVE  CatchUpInv'
  <2>1. HasTicked(p) /\ proc[p].due = {}
    BY <1>7, <1>p DEF Prefold, Invoke, HasTicked
  <2>2. PICK pc, todo, cur :
          /\ pc \in {"list", "ran"}
          /\ Moves(p, pc, proc[p].at, proc[p].due, todo, cur)
    BY <1>0, <1>q, <1>7, Goes, GoesSeen, TypeFacts DEF Prefold, Invoke
  <2>3. QED
    BY <2>1, <2>2, CatchUpMoves
<1>8. ASSUME NEW p \in Procs, List(p)
      PROVE  CatchUpInv'
  <2> DEFINE todo == {t \in triggers : t.slot[1] \in proc[p].known => t.num \notin proc[p].seen}
  <2>1. /\ proc' = [proc EXCEPT ![p] =
                      [proc[p] EXCEPT !.pc = "consume", !.seen = {}, !.todo = todo]]
        /\ proc[p].pc = "list"
    BY <1>8 DEF List
  <2>2. todo \in SUBSET Trigger
    BY <1>0 DEF TypeOK
  <2> HIDE DEF todo
  <2>3. Moves(p, "consume", proc[p].at, proc[p].due, todo, proc[p].cur)
    BY <1>0, <2>1, <2>2, GoesTodo, Zenon
  <2>4. QED
    BY <1>p, <2>1, <2>3, CatchUpMoves DEF HasTicked
<1>9. ASSUME NEW p \in Procs, NEW t \in proc[p].todo, SkipUnregistered(p, t) \/ LoseClaim(p, t)
      PROVE  CatchUpInv'
  <2>1. proc' = [proc EXCEPT ![p].todo = proc[p].todo \ {t}] /\ proc[p].pc = "consume"
    BY <1>9 DEF SkipUnregistered, LoseClaim, IsNextTrigger
  <2>2. proc[p].todo \ {t} \in SUBSET Trigger
    BY <1>p
  <2>3. Moves(p, proc[p].pc, proc[p].at, proc[p].due, proc[p].todo \ {t}, proc[p].cur)
    BY <1>0, <2>1, <2>2, Todos
  <2>4. QED
    BY <1>p, <2>1, <2>3, CatchUpMoves DEF HasTicked
<1>10. ASSUME NEW p \in Procs, NEW t \in proc[p].todo, Claim(p, t)
       PROVE  CatchUpInv'
  <2>1. proc' = [proc EXCEPT ![p] = [proc[p] EXCEPT
                       !.pc = "claimed", !.todo = proc[p].todo \ {t}, !.cur = t]]
    BY <1>10 DEF Claim
  <2>2. proc[p].pc = "consume"
    BY <1>10 DEF Claim, IsNextTrigger
  <2>3. t \in Trigger /\ proc[p].todo \ {t} \in SUBSET Trigger
    BY <1>p
  <2>4. Moves(p, "claimed", proc[p].at, proc[p].due, proc[p].todo \ {t}, t)
    BY <1>0, <2>1, <2>3, GoesTodoCur, Zenon
  <2>5. QED
    BY <1>p, <2>2, <2>4, CatchUpMoves DEF HasTicked
<1>11. ASSUME NEW p \in Procs, Audit(p) \/ AuditFails(p)
       PROVE  CatchUpInv'
  <2>1. /\ proc[p].pc = "ran" /\ proc' = [proc EXCEPT ![p].pc = "consume", ![p].cur = NoTrigger]
    BY <1>11 DEF Audit, AuditFails
  <2>2. Moves(p, "consume", proc[p].at, proc[p].due, proc[p].todo, NoTrigger)
    BY <1>0, <1>q, <2>1, GoesCur
  <2>3. QED
    BY <1>p, <2>1, <2>2, CatchUpMoves DEF HasTicked
<1>12. ASSUME NEW p \in Procs, Boot(p) \/ Exit(p) \/ TickThrows(p) \/ Crash(p)
       PROVE  CatchUpInv'
  <2>1. PICK pc \in {"ready", "closed"}, known \in SUBSET Entries :
          proc' = [proc EXCEPT ![p] = At(pc, known)]
    <3>1. registered \in SUBSET Entries
      BY DEF TypeOK
    <3>2. QED
      BY <1>p, <1>12, <3>1 DEF Boot, Exit, TickThrows, Crash
  <2>2. QED
    BY <1>2, <2>1
<1>13. CASE Clock \/ (\E entry \in Entries : Deploy(entry))
            \/ (\E rows \in SUBSET triggers, audits \in SUBSET audited : Evict(rows, audits))
  BY <1>1, <1>13 DEF Clock, Deploy, Evict, history
<1>14. QED
  BY <1>3, <1>4, <1>5, <1>6, <1>7, <1>8, <1>9, <1>10, <1>11, <1>12, <1>13
     DEF Next, Step, Fault

(***************************************************************************)
(* One trigger for a fire time.                                            *)
(***************************************************************************)

\* No two processes are between their look at the log and their last append at once.
TicksApart == \A p, q \in Procs : proc[p].pc = "fire" /\ proc[q].pc = "fire" => p = q

\* An archived trigger is of a fire time before the look-back window, that of a tick which
\* has begun and not looked at the log included.
WindowKept ==
    \A t \in emitted \ triggers :
        /\ t.slot[2] <= now - LookBack
        /\ \A p \in Procs : proc[p].pc = "tick" => t.slot[2] <= proc[p].at - LookBack

\* But for reading the log and firing, no step gives a process anything to fire.
LEMMA Firing ==
    ASSUME TypeOK, TaskInv, Next
    PROVE  \/ \E p \in Procs : ReadFired(p)
           \/ \E p \in Procs : \E slot \in proc[p].due : Fire(p, slot)
           \/ /\ UNCHANGED emitted
              /\ \A p \in Procs : proc'[p].pc # "fire" \/ proc'[p] = proc[p]
<1> DEFINE Idle == /\ UNCHANGED emitted
                   /\ \A p \in Procs : proc'[p].pc # "fire" \/ proc'[p] = proc[p]
<1>0. proc \in [Procs -> Proc] /\ triggers \subseteq Trigger
  BY DEF TypeOK
<1>p. ASSUME NEW p \in Procs
      PROVE  proc[p].known \subseteq Entries /\ proc[p].todo \subseteq Trigger
             /\ proc[p].pc \in Pcs
  BY TypeFacts
<1>q. "ready" \in Pcs /\ "tick" \in Pcs /\ "fold" \in Pcs /\ "list" \in Pcs /\ "consume" \in Pcs
      /\ "ran" \in Pcs /\ "closed" \in Pcs
  BY DEF Pcs
<1>1. ASSUME NEW p, NEW pc, NEW at, NEW due, NEW todo, NEW cur,
             Moves(p, pc, at, due, todo, cur), pc # "fire", UNCHANGED emitted
      PROVE  Idle
  BY <1>1 DEF Moves, Others
<1>2. CASE Clock \/ (\E entry \in Entries : Deploy(entry))
           \/ (\E rows \in SUBSET triggers, audits \in SUBSET audited : Evict(rows, audits))
  BY <1>2 DEF Clock, Deploy, Evict, history
<1>3. ASSUME NEW p \in Procs, NEW pc \in {"ready", "closed"}, NEW known \in SUBSET Entries,
             proc' = [proc EXCEPT ![p] = At(pc, known)], UNCHANGED emitted
      PROVE  Idle
  <2>1. Others(p) /\ proc'[p].pc = pc
    BY <1>0, <1>q, <1>3, Restarts
  <2>2. QED
    BY <1>3, <2>1 DEF Others
<1>4. ASSUME NEW p \in Procs, NEW pc \in Pcs \ {"fire"}, UNCHANGED emitted,
             \/ proc' = [proc EXCEPT ![p].pc = pc]
             \/ \E at \in Days : proc' = [proc EXCEPT ![p].pc = pc, ![p].at = at]
             \/ \E seen \in SUBSET Nat : proc' = [proc EXCEPT ![p].pc = pc, ![p].seen = seen]
             \/ proc' = [proc EXCEPT ![p].pc = pc, ![p].cur = NoTrigger]
      PROVE  Idle
  BY <1>0, <1>1, <1>4, Goes, GoesAt, GoesSeen, GoesCur
<1>5. ASSUME NEW p \in Procs, BeginTick(p) \/ EndTick(p) \/ Prefold(p) \/ Invoke(p) \/ Audit(p)
      PROVE  Idle
  <2>1. UNCHANGED emitted /\ now \in Days /\ audited \in SUBSET Nat
    BY <1>5 DEF BeginTick, EndTick, Prefold, Invoke, Audit, history, TypeOK
  <2>2. QED
    BY <1>q, <1>4, <1>5, <2>1 DEF BeginTick, EndTick, Prefold, Invoke, Audit
<1>6. ASSUME NEW p \in Procs, List(p)
      PROVE  Idle
  <2> DEFINE todo == {t \in triggers : t.slot[1] \in proc[p].known => t.num \notin proc[p].seen}
  <2>1. /\ proc' = [proc EXCEPT ![p] =
                      [proc[p] EXCEPT !.pc = "consume", !.seen = {}, !.todo = todo]]
        /\ UNCHANGED emitted
    BY <1>6 DEF List, history
  <2>2. todo \in SUBSET Trigger
    BY <1>0
  <2> HIDE DEF todo
  <2>3. Moves(p, "consume", proc[p].at, proc[p].due, todo, proc[p].cur)
    BY <1>0, <2>1, <2>2, GoesTodo, Zenon
  <2>4. QED
    BY <1>1, <2>1, <2>3
<1>7. ASSUME NEW p \in Procs, NEW t \in proc[p].todo, SkipUnregistered(p, t) \/ LoseClaim(p, t)
      PROVE  Idle
  <2>1. /\ proc' = [proc EXCEPT ![p].todo = proc[p].todo \ {t}] /\ proc[p].pc = "consume"
        /\ UNCHANGED emitted
    BY <1>7 DEF SkipUnregistered, LoseClaim, IsNextTrigger, history
  <2>2. proc[p].todo \ {t} \in SUBSET Trigger
    BY <1>p
  <2>3. Moves(p, proc[p].pc, proc[p].at, proc[p].due, proc[p].todo \ {t}, proc[p].cur)
    BY <1>0, <2>1, <2>2, Todos
  <2>4. QED
    BY <1>1, <2>1, <2>3
<1>8. ASSUME NEW p \in Procs, NEW t \in proc[p].todo, Claim(p, t)
      PROVE  Idle
  <2>1. proc' = [proc EXCEPT ![p] = [proc[p] EXCEPT
                       !.pc = "claimed", !.todo = proc[p].todo \ {t}, !.cur = t]]
    BY <1>8 DEF Claim
  <2>2. UNCHANGED emitted /\ t \in Trigger /\ proc[p].todo \ {t} \in SUBSET Trigger
    BY <1>p, <1>8 DEF Claim, history
  <2>3. Moves(p, "claimed", proc[p].at, proc[p].due, proc[p].todo \ {t}, t)
    BY <1>0, <2>1, <2>2, GoesTodoCur, Zenon
  <2>4. QED
    BY <1>1, <2>2, <2>3
<1>9. ASSUME NEW p \in Procs, Boot(p) \/ Exit(p) \/ Fault(p)
      PROVE  Idle
  <2>1. UNCHANGED emitted /\ registered \in SUBSET Entries
    BY <1>9 DEF Boot, Exit, Fault, history, TypeOK
  <2>2. QED
    BY <1>p, <1>q, <1>3, <1>4, <1>9, <2>1 DEF Boot, Exit, Fault, AuditFails, TickThrows, Crash
<1>10. QED
  BY <1>2, <1>5, <1>6, <1>7, <1>8, <1>9 DEF Next, Step

LEMMA OnceStep ==
    ASSUME TicksApart, TicksApart', WindowKept,
           TypeOK, TaskInv, CatchUpInv, CatchUpInv', OnceInv, Next
    PROVE  OnceInv'
<1>0. proc \in [Procs -> Proc] /\ triggers \subseteq emitted /\ emitted \subseteq Trigger
  BY DEF TypeOK
<1>1. ASSUME NEW p \in Procs, ReadFired(p)
      PROVE  OnceInv'
  <2> DEFINE due == {slot \in proc[p].known \X Days :
                       slot[2] \in DueDays(slot[1], proc[p].at)} \ FiredKeys
  <2>1. proc' = [proc EXCEPT ![p].pc = "fire", ![p].due = due] /\ UNCHANGED emitted
    BY <1>1 DEF ReadFired, history
  <2>2. due \in SUBSET Slots
    BY <1>0, TypeFacts DEF Slots
  <2>3. ASSUME NEW t \in emitted
        PROVE  t.slot \notin due
    <3>1. CASE t \in triggers
      BY <3>1 DEF FiredKeys
    <3>2. CASE t \notin triggers
      <4>1. t.slot[2] <= proc[p].at - LookBack
        BY <1>1, <3>2 DEF WindowKept, ReadFired
      <4>2. t.slot \in due => t.slot[2] \in DueDays(t.slot[1], proc[p].at)
        OBVIOUS
      <4>3. /\ proc[p].at \in Days
            /\ t.slot \in due => t.slot[1] \in Entries
        BY <1>0, TypeFacts DEF Slots, Trigger, Proc
      <4>4. t.slot \in due => t.slot[2] > proc[p].at - LookBack
        BY <4>2, <4>3, DueDaysAfter
      <4> HIDE DEF due
      <4>5. t.slot[2] \in Int /\ proc[p].at \in Int /\ LookBack \in Int
        BY <1>0, <4>3, SchedulerAssumption DEF Trigger, Slots, Days
      <4>6. QED
        BY <4>1, <4>4, <4>5
    <3>3. QED
      BY <3>1, <3>2
  <2>4. due \cap {t.slot : t \in emitted} = {}
    BY <2>3
  <2> HIDE DEF due
  <2>5. Moves(p, "fire", proc[p].at, due, proc[p].todo, proc[p].cur)
    BY <1>0, <2>1, <2>2, GoesDue DEF Pcs
  <2>6. proc'[p].due = due
    BY <2>5 DEF Moves
  <2>7. ASSUME NEW q \in Procs \ {p}
        PROVE  proc'[q].due = {}
    <3>1. proc'[p].pc = "fire"
      BY <2>5 DEF Moves
    <3>2. proc'[q].pc # "fire"
      BY <3>1 DEF TicksApart
    <3>3. QED
      BY <3>2 DEF CatchUpInv
  <2>8. QED
    BY <2>1, <2>6, <2>7, <2>4 DEF OnceInv, FiredOnce
<1>2. ASSUME NEW p \in Procs, NEW slot \in proc[p].due, Fire(p, slot)
      PROVE  OnceInv'
  <2> DEFINE trigger == [num |-> Cardinality(emitted) + 1, slot |-> slot]
             due     == proc[p].due \ {slot}
  <2>1. /\ emitted' = emitted \cup {trigger}
        /\ proc' = [proc EXCEPT ![p].due = due]
    BY <1>2 DEF Fire
  <2>2. due \in SUBSET Slots
    BY TypeFacts
  <2>3. Moves(p, proc[p].pc, proc[p].at, due, proc[p].todo, proc[p].cur)
    BY <1>0, <2>1, <2>2, Dues
  <2>4. proc'[p].due = due
    BY <2>3 DEF Moves
  <2>5. trigger.slot = slot
    OBVIOUS
  <2> HIDE DEF trigger
  <2>6. slot \notin {t.slot : t \in emitted}
    BY DEF OnceInv
  <2>7. FiredOnce'
    BY <2>1, <2>5, <2>6 DEF OnceInv, FiredOnce
  <2>8. due \cap {t.slot : t \in emitted'} = {}
    BY <2>1, <2>5 DEF OnceInv
  <2>9. ASSUME NEW q \in Procs \ {p}
        PROVE  proc'[q].due = {}
    <3>1. proc[p].pc = "fire"
      BY <1>2 DEF Fire
    <3>2. proc[q].pc # "fire"
      BY <3>1 DEF TicksApart
    <3>3. proc[q].due = {} /\ proc'[q] = proc[q]
      BY <2>3, <3>2 DEF CatchUpInv, Moves, Others
    <3>4. QED
      BY <3>3
  <2>10. QED
    BY <2>4, <2>7, <2>8, <2>9 DEF OnceInv
<1>3. ASSUME UNCHANGED emitted,
             \A p \in Procs : proc'[p].pc # "fire" \/ proc'[p] = proc[p]
      PROVE  OnceInv'
  <2>1. \A p \in Procs : proc'[p].due = {} \/ proc'[p] = proc[p]
    BY <1>3 DEF CatchUpInv
  <2>2. QED
    BY <1>3, <2>1 DEF OnceInv, FiredOnce
<1>4. QED
  BY <1>1, <1>2, <1>3, Firing

\* The runs of a fire time are those of its one trigger.
LEMMA OnceIsRanOnce ==
    ASSUME TypeOK, NumberInv, RunsInv, OnceInv
    PROVE  RanOnce
<1> SUFFICES ASSUME NEW slot \in Slots
             PROVE  runs[slot] <= 1
  BY DEF RanOnce
<1> DEFINE all == {t \in emitted : t.slot = slot}
<1>1. runs[slot] \in Nat /\ runs[slot] <= Cardinality(Spent(slot))
  BY DEF TypeOK, RunsInv
<1>2. Cardinality(Spent(slot)) <= Cardinality(all) /\ Cardinality(Spent(slot)) \in Nat
  BY SpentFacts
<1>3. Cardinality(all) \in Nat /\ Cardinality(all) <= 1
  <2>1. CASE all = {}
    BY <2>1, FS_EmptySet
  <2>2. ASSUME NEW t \in all
        PROVE  Cardinality(all) = 1
    <3>1. all = {t}
      BY DEF OnceInv, FiredOnce
    <3>2. QED
      BY <3>1, FS_Singleton
  <2>3. QED
    BY <2>1, <2>2
<1>4. QED
  BY <1>1, <1>2, <1>3

(***************************************************************************)
(* The theorems.                                                           *)
(***************************************************************************)

LEMMA InitInv == Init => SchedulerInv /\ OnceInv
<1> SUFFICES ASSUME Init
             PROVE  SchedulerInv /\ OnceInv
  OBVIOUS
<1>1. At("closed", {}) \in Proc
  BY SchedulerAssumption DEF At, Proc, Days
<1>2. /\ proc \in [Procs -> Proc]
      /\ \A p \in Procs : /\ proc[p].pc = "closed" /\ proc[p].at = 0 /\ proc[p].due = {}
                          /\ proc[p].todo = {} /\ proc[p].known = {}
  BY <1>1 DEF Init, At
<1>3. TypeOK
  BY <1>2, SchedulerAssumption DEF Init, TypeOK, Days
<1>4. NumberInv
  BY FS_EmptySet DEF Init, NumberInv
<1>5. TaskInv
  BY <1>2 DEF Init, TaskInv, Working
<1>6. RunsInv
  <2>1. ASSUME NEW slot \in Slots
        PROVE  runs[slot] <= Cardinality(Spent(slot))
    <3>1. Spent(slot) = {}
      BY DEF Init, Spent
    <3>2. QED
      BY <3>1, FS_EmptySet DEF Init
  <2>2. QED
    BY <2>1 DEF RunsInv
<1>7. CatchUpInv
  BY <1>2 DEF Init, CatchUpInv, HasTicked
<1>8. OnceInv
  BY <1>2 DEF Init, OnceInv, FiredOnce
<1>9. QED
  BY <1>3, <1>4, <1>5, <1>6, <1>7, <1>8 DEF SchedulerInv

LEMMA InvStep == SchedulerInv /\ [Next]_vars => SchedulerInv'
<1> SUFFICES ASSUME SchedulerInv, [Next]_vars
             PROVE  SchedulerInv'
  OBVIOUS
<1>0. TypeOK /\ NumberInv /\ TaskInv /\ RunsInv /\ CatchUpInv
  BY DEF SchedulerInv
<1>1. CASE Next
  <2>1. TypeOK' /\ NumberInv' /\ TaskInv' /\ Grows
    BY <1>0, <1>1, TypeStep
  <2>2. RunsInv'
    BY <1>0, <1>1, <2>1, RunsStep
  <2>3. CatchUpInv'
    BY <1>0, <1>1, <2>1, CatchUpStep
  <2>4. QED
    BY <2>1, <2>2, <2>3 DEF SchedulerInv
<1>2. CASE UNCHANGED vars
  <2>1. UNCHANGED <<now, registered, triggers, claims, audited, proc, emitted, runs, faults,
                    evictions>>
    BY <1>2 DEF vars, log, history
  <2>2. TypeOK'
    BY <1>0, <2>1 DEF TypeOK
  <2>3. NumberInv'
    BY <1>0, <2>1 DEF NumberInv
  <2>4. TaskInv'
    BY <1>0, <2>1 DEF TaskInv, Working
  <2>5. RunsInv'
    <3>1. \A slot : Spent(slot)' = Spent(slot)
      BY <2>1 DEF Spent
    <3>2. QED
      BY <1>0, <2>1, <3>1 DEF RunsInv
  <2>6. CatchUpInv'
    BY <1>0, <2>1 DEF CatchUpInv, HasTicked, DueDays
  <2>7. QED
    BY <2>2, <2>3, <2>4, <2>5, <2>6 DEF SchedulerInv
<1>3. QED
  BY <1>1, <1>2

LEMMA SchedulerInvariant == Spec => []SchedulerInv
<1>1. Init => SchedulerInv
  BY InitInv
<1>2. QED
  BY <1>1, InvStep, PTL DEF Spec

\* Every variable keeps its type, no trigger is appended before its day, and no more
\* faults and archive calls happen than the bounds allow (LocalScheduler.tick,
\* ScheduledTriggerConsumer.consume).
THEOREM SchedulerTypeCorrect == Spec => []TypeOK
<1>1. SchedulerInv => TypeOK
  BY DEF SchedulerInv
<1>2. QED
  BY <1>1, SchedulerInvariant, PTL

\* A process past its tick has left no fire time of the look-back window without its
\* trigger, whatever other processes, faults, deploys, holidays and archive calls came
\* between its look at the log and its last append.
THEOREM SchedulerCaughtUp == Spec => []CaughtUp
<1>1. SchedulerInv => CaughtUp
  BY CatchUpIsCaughtUp DEF SchedulerInv
<1>2. QED
  BY <1>1, SchedulerInvariant, PTL

\* claimDispatch lets each trigger be run by one process, and once: the runs of a fire
\* time never exceed the triggers appended for it, for any number of processes, crashes
\* and archive calls.
THEOREM SchedulerRunsPerTrigger == Spec => []RunsPerTrigger
<1>1. SchedulerInv => RunsPerTrigger
  <2> SUFFICES ASSUME SchedulerInv, NEW slot \in Slots
               PROVE  runs[slot] <= Cardinality({t \in emitted : t.slot = slot})
    BY DEF RunsPerTrigger
  <2>1. TypeOK /\ NumberInv /\ RunsInv
    BY DEF SchedulerInv
  <2>2. runs[slot] \in Nat /\ runs[slot] <= Cardinality(Spent(slot))
    BY <2>1 DEF TypeOK, RunsInv
  <2>3. /\ Cardinality(Spent(slot)) <= Cardinality({t \in emitted : t.slot = slot})
        /\ Cardinality(Spent(slot)) \in Nat
    BY <2>1, SpentFacts
  <2>4. Cardinality({t \in emitted : t.slot = slot}) \in Nat
    BY <2>1, FS_Subset, FS_CardinalityType DEF NumberInv
  <2>5. QED
    BY <2>2, <2>3, <2>4
<1>2. QED
  BY <1>1, SchedulerInvariant, PTL

LEMMA OnceInvariant == Spec /\ []TicksApart /\ []WindowKept => []OnceInv
<1>1. /\ SchedulerInv /\ SchedulerInv' /\ TicksApart /\ TicksApart' /\ WindowKept
      /\ OnceInv /\ [Next]_vars
      => OnceInv'
  <2> SUFFICES ASSUME SchedulerInv, SchedulerInv', TicksApart, TicksApart', WindowKept,
                      OnceInv, [Next]_vars
               PROVE  OnceInv'
    OBVIOUS
  <2>1. CASE Next
    BY <2>1, OnceStep DEF SchedulerInv
  <2>2. CASE UNCHANGED vars
    BY <2>2 DEF OnceInv, FiredOnce, vars, log, history
  <2>3. QED
    BY <2>1, <2>2
<1>2. Init => OnceInv
  BY InitInv
<1>3. QED
  BY <1>1, <1>2, SchedulerInvariant, PTL DEF Spec

\* Where the ticks of different processes (scheduler-tick, substrate-scheduler) do not
\* overlap between look and last append, and no trigger is archived within the look-back
\* window, no fire time has two triggers, though ticks are cut short, repeated and catch up, consumes overlap, and
\* holidays shift fire times together.
THEOREM SchedulerFiredOnce ==
    Spec /\ []TicksApart /\ []WindowKept => []FiredOnce
<1>1. OnceInv => FiredOnce
  BY DEF OnceInv
<1>2. QED
  BY <1>1, OnceInvariant, PTL

\* Under the same conditions no handler runs twice for one fire time, though any number
\* of processes consume at once, die between claim, run and audit, and audits are lost.
THEOREM SchedulerRanOnce ==
    Spec /\ []TicksApart /\ []WindowKept => []RanOnce
<1>1. SchedulerInv /\ OnceInv => RanOnce
  BY OnceIsRanOnce DEF SchedulerInv
<1>2. QED
  BY <1>1, OnceInvariant, SchedulerInvariant, PTL

(***************************************************************************)
(* The scheduler implements the at-most-once dispatcher.                   *)
(***************************************************************************)

\* A fire begins a slot that had no trigger, an invocation runs a slot whose trigger was
\* appended and did not run; nothing else shows.
LEMMA OnceRefines ==
    ASSUME SchedulerInv, OnceInv, [Next]_vars
    PROVE  [Dispatches!Next]_<<{t.slot : t \in emitted}, runs>>
<1>0. TypeOK /\ NumberInv /\ TaskInv /\ RunsInv
  BY DEF SchedulerInv
<1>1. ASSUME NEW p \in Procs, NEW slot \in proc[p].due, Fire(p, slot)
      PROVE  Dispatches!Next
  <2> DEFINE trigger == [num |-> Cardinality(emitted) + 1, slot |-> slot]
  <2>1. emitted' = emitted \cup {trigger} /\ trigger.slot = slot /\ runs' = runs
    BY <1>1 DEF Fire
  <2>2. slot \in Slots /\ slot \notin {t.slot : t \in emitted}
    BY <1>0, TypeFacts DEF OnceInv
  <2> HIDE DEF trigger
  <2>3. Dispatches!Begin(slot)
    BY <2>1, <2>2 DEF Dispatches!Begin
  <2>4. QED
    BY <2>2, <2>3 DEF Dispatches!Next
<1>2. ASSUME NEW p \in Procs, Invoke(p)
      PROVE  Dispatches!Next
  <2> DEFINE t    == proc[p].cur
             slot == t.slot
  <2>1. /\ proc[p].pc = "claimed" /\ UNCHANGED emitted
        /\ runs' = [runs EXCEPT ![slot] = @ + 1]
    BY <1>2 DEF Invoke
  <2>2. t \in emitted /\ t \notin Spent(slot)
    BY <1>0, <2>1 DEF TaskInv, Working, Spent
  <2>3. slot \in Slots
    BY <1>0, <2>2 DEF TypeOK, Trigger
  <2>4. Spent(slot) = {}
    BY <2>2 DEF Spent, OnceInv, FiredOnce
  <2>5. runs[slot] = 0
    <3>1. runs[slot] \in Nat /\ runs[slot] <= Cardinality(Spent(slot))
      BY <1>0, <2>3 DEF TypeOK, RunsInv
    <3>2. Cardinality(Spent(slot)) = 0
      BY <2>4, FS_EmptySet
    <3> HIDE DEF slot
    <3>3. QED
      BY <3>1, <3>2
  <2>6. slot \in {s.slot : s \in emitted}
    BY <2>2
  <2> HIDE DEF slot
  <2>7. Dispatches!Run(slot)
    BY <2>1, <2>5, <2>6 DEF Dispatches!Run
  <2>8. QED
    BY <2>3, <2>7 DEF Dispatches!Next
<1>3. \/ UNCHANGED <<emitted, runs>>
      \/ \E p \in Procs : Invoke(p)
      \/ \E p \in Procs : \E slot \in proc[p].due : Fire(p, slot)
  BY DEF Next, Step, Clock, Deploy, Evict, Boot, BeginTick, ReadFired, EndTick, Prefold,
     List, SkipUnregistered, Claim, LoseClaim, Audit, Exit, Fault, vars, log, history
<1>4. CASE UNCHANGED <<emitted, runs>>
  <2>1. {t.slot : t \in emitted}' = {t.slot : t \in emitted} /\ runs' = runs
    BY <1>4
  <2>2. QED
    BY <2>1
<1>5. QED
  BY <1>1, <1>2, <1>3, <1>4, Zenon

\* Where ticks do not overlap and no trigger is archived within the look-back window,
\* scheduler and consumer together implement the at-most-once dispatcher: a fire time gets its one trigger, and its
\* handler runs only after that and once, for any number of processes, days, holidays,
\* deploys and faults.
THEOREM SchedulerImplementsAtMostOnce ==
    Spec /\ []TicksApart /\ []WindowKept => ImplementsAtMostOnce
<1>1. /\ SchedulerInv /\ OnceInv /\ [Next]_vars
      => [Dispatches!Next]_<<{t.slot : t \in emitted}, runs>>
  BY OnceRefines
<1>2. Init => Dispatches!Init
  <2> SUFFICES ASSUME Init
               PROVE  Dispatches!Init
    OBVIOUS
  <2>1. {t.slot : t \in emitted} = {} /\ runs = [slot \in Slots |-> 0]
    BY DEF Init
  <2>2. QED
    BY <2>1 DEF Dispatches!Init
<1>3. QED
  BY <1>1, <1>2, OnceInvariant, SchedulerInvariant, PTL
  DEF Spec, ImplementsAtMostOnce, Dispatches!Spec
=============================================================================

--------------------------- MODULE StoreTeeProofs ---------------------------
(***************************************************************************)
(* Proofs about StoreTee: its invariants hold for every number of          *)
(* processes, backfills, types, events and faults.                         *)
(***************************************************************************)
EXTENDS StoreTee, TLAPS, FiniteSetTheorems, SequenceTheorems

(***************************************************************************)
(* Sequences.                                                              *)
(***************************************************************************)

\* What Append adds to the values of a sequence.
LEMMA RangeAppend ==
    ASSUME NEW S, NEW s \in Seq(S), NEW e \in S
    PROVE  /\ Append(s, e) \in Seq(S)
           /\ Len(Append(s, e)) = Len(s) + 1
           /\ Range(Append(s, e)) = Range(s) \cup {e}
           /\ IsInjective(s) /\ e \notin Range(s) => IsInjective(Append(s, e))
           /\ \A i \in 1..Len(s) : Append(s, e)[i] = s[i]
           /\ Append(s, e)[Len(s) + 1] = e
<1>1. /\ Append(s, e) \in Seq(S) /\ Len(Append(s, e)) = Len(s) + 1
      /\ Len(s) \in Nat
      /\ \A i \in 1..Len(s) : Append(s, e)[i] = s[i]
      /\ Append(s, e)[Len(s) + 1] = e
  OBVIOUS
<1>2. DOMAIN Append(s, e) = 1..Len(s) + 1 /\ DOMAIN s = 1..Len(s)
  BY <1>1
<1>3. Range(Append(s, e)) = Range(s) \cup {e}
  BY <1>1, <1>2 DEF Range
<1>4. ASSUME IsInjective(s), e \notin Range(s)
      PROVE  IsInjective(Append(s, e))
  BY <1>1, <1>2, <1>4 DEF Range, IsInjective
<1>5. QED
  BY <1>1, <1>3, <1>4

\* What Head and Tail divide a sequence into.
LEMMA RangeTail ==
    ASSUME NEW S, NEW s \in Seq(S), s # << >>
    PROVE  /\ Tail(s) \in Seq(S)
           /\ Head(s) \in Range(s)
           /\ Range(s) = {Head(s)} \cup Range(Tail(s))
           /\ \A i \in 1..Len(Tail(s)) : Tail(s)[i] = s[i + 1]
           /\ Head(s) = s[1] /\ Len(Tail(s)) = Len(s) - 1
<1>1. /\ Tail(s) \in Seq(S) /\ Head(s) = s[1] /\ Len(Tail(s)) = Len(s) - 1
      /\ Len(s) \in Nat \ {0}
      /\ \A i \in 1..Len(Tail(s)) : Tail(s)[i] = s[i + 1]
  OBVIOUS
<1>6. DOMAIN Tail(s) = 1..Len(Tail(s))
  BY <1>1
<1>2. Head(s) \in Range(s)
  BY <1>1 DEF Range
<1>3. \A x \in Range(s) : x \in {Head(s)} \cup Range(Tail(s))
  <2>1. TAKE x \in Range(s)
  <2>2. PICK i \in 1..Len(s) : x = s[i]
    BY DEF Range
  <2>3. CASE i = 1
    BY <2>2, <2>3, <1>1
  <2>4. CASE i # 1
    <3>1. i - 1 \in 1..Len(Tail(s)) /\ Tail(s)[i - 1] = x
      BY <2>2, <2>4, <1>1
    <3>2. QED
      BY <3>1, <1>6 DEF Range
  <2>5. QED
    BY <2>3, <2>4
<1>4. \A x \in Range(Tail(s)) : x \in Range(s)
  <2>1. TAKE x \in Range(Tail(s))
  <2>2. PICK i \in 1..Len(Tail(s)) : x = Tail(s)[i]
    BY <1>1 DEF Range
  <2>3. i + 1 \in 1..Len(s) /\ s[i + 1] = x
    BY <2>2, <1>1
  <2>4. QED
    BY <2>3 DEF Range
<1>5. QED
  BY <1>1, <1>2, <1>3, <1>4

(***************************************************************************)
(* What the steps have in common.                                          *)
(***************************************************************************)

Entry == [type : TeeTypes, by : Procs \cup {NoProc}]

\* The effect of appends to the V1 store.
LEMMA AppendFacts ==
    ASSUME TypeOK, NEW types \in Seq(TeeTypes), NEW by \in Procs \cup {NoProc},
           AppendEvents(types, by)
    PROVE  /\ log' \in Seq(Entry)
           /\ Len(log') = Len(log) + Len(types)
           /\ \A n \in 1..Len(log) : log'[n] = log[n]
           /\ \A n \in Len(log) + 1..Len(log') : log'[n].by = by
           /\ hot' \subseteq 1..Len(log')
           /\ hot' \cap (1..Len(log)) \subseteq hot
<1> DEFINE new == [i \in 1..Len(types) |-> [type |-> types[i], by |-> by]]
<1>1. /\ log \in Seq(Entry) /\ hot \subseteq 1..Len(log)
      /\ Len(log) \in Nat /\ Len(types) \in Nat
  BY DEF TypeOK, Entry
<1>2. new \in Seq(Entry) /\ Len(new) = Len(types)
  <2>1. \A i \in 1..Len(types) : types[i] \in TeeTypes
    OBVIOUS
  <2>2. \A i \in 1..Len(types) : new[i] \in Entry
    BY <2>1 DEF Entry
  <2>3. new \in [1..Len(types) -> Entry]
    BY <2>2
  <2>4. QED
    BY <2>3, <1>1
<1>3. log' = log \o new
  BY DEF AppendEvents
<1> HIDE DEF new
<1>4. /\ log' \in Seq(Entry) /\ Len(log') = Len(log) + Len(types)
      /\ \A n \in 1..Len(log) : log'[n] = log[n]
      /\ \A n \in Len(log) + 1..Len(log') : log'[n] = new[n - Len(log)]
  <2>1. /\ log \o new \in Seq(Entry)
        /\ Len(log \o new) = Len(log) + Len(new)
        /\ \A i \in 1..Len(log) + Len(new) :
             (log \o new)[i] = IF i <= Len(log) THEN log[i] ELSE new[i - Len(log)]
    BY <1>1, <1>2, ConcatProperties
  <2>2. QED
    BY <2>1, <1>1, <1>2, <1>3
<1>5. ASSUME NEW n \in Len(log) + 1..Len(log')
      PROVE  log'[n].by = by
  <2>1. n - Len(log) \in 1..Len(types)
    BY <1>1, <1>4
  <2>2. new[n - Len(log)].by = by
    BY <2>1 DEF new
  <2>3. QED
    BY <2>2, <1>4
<1>6. hot' \subseteq 1..Len(log') /\ hot' \cap (1..Len(log)) \subseteq hot
  <2>1. hot' = hot \cup (Len(log) + 1..Len(log) + Len(types))
    BY DEF AppendEvents
  <2>2. \A n \in hot' : n \in 1..Len(log')
    BY <1>1, <1>4, <2>1
  <2>3. \A n \in hot' : n \in 1..Len(log) => n \in hot
    BY <1>1, <2>1
  <2>4. QED
    BY <2>2, <2>3
<1>7. QED
  BY <1>4, <1>5, <1>6

\* INSERT OR IGNORE.
LEMMA InsertFacts ==
    ASSUME TypeOK, NEW n \in 1..Len(log), mirror' = Inserted(n)
    PROVE  /\ mirror' \in Seq(Nat) /\ IsInjective(mirror')
           /\ Mirrored' = Mirrored \cup {n}
           /\ \/ n \in Mirrored /\ mirror' = mirror
              \/ /\ n \notin Mirrored
                 /\ Len(mirror') = Len(mirror) + 1
                 /\ mirror'[Len(mirror) + 1] = n
                 /\ \A i \in 1..Len(mirror) : mirror'[i] = mirror[i]
<1>1. mirror \in Seq(Nat) /\ IsInjective(mirror) /\ n \in Nat
  BY DEF TypeOK
<1>2. CASE n \in Mirrored
  BY <1>1, <1>2 DEF Inserted, Mirrored
<1>3. CASE n \notin Mirrored
  <2>1. mirror' = Append(mirror, n)
    BY <1>3 DEF Inserted
  <2>2. QED
    BY <1>1, <1>3, <2>1, RangeAppend DEF Mirrored
<1>4. QED
  BY <1>2, <1>3

\* No step takes anything back from the V1 log, the mirror or the history.
Grows ==
    /\ Len(log) <= Len(log')
    /\ \A n \in 1..Len(log) : log'[n] = log[n]
    /\ hot' \cap (1..Len(log)) \subseteq hot
    /\ Mirrored \subseteq Mirrored'
    /\ late \subseteq late'

Tasks == [Procs -> [todo : Seq(Nat), alert : Nat]]

\* Appends keep the types, whatever a process makes of its task.
LEMMA AppendTypes ==
    ASSUME TypeOK, NEW types \in Seq(TeeTypes), NEW by \in Procs \cup {NoProc},
           AppendEvents(types, by), UNCHANGED <<mirror, alerted, backfill, recon, late>>,
           proc' \in Tasks,
           \A p \in Procs : /\ proc'[p].alert <= Len(log')
                            /\ Range(proc'[p].todo) \subseteq 1..Len(log')
    PROVE  TypeOK' /\ Grows
<1>1. /\ log' \in Seq(Entry)
      /\ Len(log') = Len(log) + Len(types)
      /\ \A n \in 1..Len(log) : log'[n] = log[n]
      /\ hot' \subseteq 1..Len(log')
      /\ hot' \cap (1..Len(log)) \subseteq hot
  BY AppendFacts
<1>2. Len(log) \in Nat /\ Len(types) \in Nat /\ Len(log) <= Len(log')
  BY <1>1 DEF TypeOK
<1>3. Mirrored' = Mirrored /\ Mirrored' \subseteq 1..Len(log')
  BY <1>1, <1>2 DEF TypeOK, Mirrored
<1>4. Grows
  BY <1>1, <1>2, <1>3 DEF Grows
<1>5. TypeOK'
  BY <1>1, <1>3 DEF TypeOK, Entry, Tasks
<1>6. QED
  BY <1>4, <1>5

\* Steps that leave the V1 store alone keep the types, whatever process, backfill or
\* gate they are of.
LEMMA OtherTypes ==
    ASSUME TypeOK, UNCHANGED <<log, hot>>, late \subseteq late',
           mirror' \in Seq(Nat), IsInjective(mirror'),
           Mirrored \subseteq Mirrored', Mirrored' \subseteq 1..Len(log),
           alerted' \in [Procs -> SUBSET TeeTypes],
           proc' \in Tasks,
           \A p \in Procs : /\ proc'[p].alert <= Len(log)
                            /\ Range(proc'[p].todo) \subseteq 1..Len(log),
           backfill' \in [Backfills ->
               [pc : {"idle", "replay", "copy"}, type : TeeTypes,
                known : SUBSET Nat, todo : SUBSET Nat, seen : SUBSET Nat]],
           recon' \in [pc : {"idle", "v2", "done"}, type : TeeTypes, v1 : Nat, upto : Nat,
                       blurred : BOOLEAN, verdict : {"none", "gap", "excess", "clean"}]
    PROVE  TypeOK' /\ Grows
<1>1. Len(log) \in Nat
  BY DEF TypeOK
<1>2. Grows
  BY <1>1 DEF Grows
<1>3. TypeOK'
  BY Zenon DEF TypeOK, Tasks
<1>4. QED
  BY <1>2, <1>3

\* The rows of a type are finitely many.
LEMMA OfTypeFacts ==
    ASSUME TypeOK, NEW type \in TeeTypes, NEW S \in SUBSET (1..Len(log))
    PROVE  /\ OfType(S, type) \in SUBSET (1..Len(log))
           /\ IsFiniteSet(OfType(S, type))
           /\ Cardinality(OfType(S, type)) \in Nat
<1>1. OfType(S, type) \in SUBSET (1..Len(log))
  BY DEF OfType
<1>5. Len(log) \in Nat
  BY DEF TypeOK
<1>2. IsFiniteSet(1..Len(log))
  BY <1>5, FS_Interval
<1>3. IsFiniteSet(OfType(S, type))
  BY <1>1, <1>2, FS_Subset
<1>4. QED
  BY <1>1, <1>3, FS_CardinalityType

Others(p) == \A q \in Procs \ {p} : proc'[q] = proc[q]

\* A task with other events ahead, another alert, or both.
LEMMA TodoChange ==
    ASSUME proc \in Tasks, NEW p \in Procs, NEW todo \in Seq(Nat),
           proc' = [proc EXCEPT ![p].todo = todo]
    PROVE  /\ proc' \in Tasks /\ Others(p)
           /\ proc'[p].todo = todo /\ proc'[p].alert = proc[p].alert
BY DEF Tasks, Others

LEMMA AlertChange ==
    ASSUME proc \in Tasks, NEW p \in Procs, NEW alert \in Nat,
           proc' = [proc EXCEPT ![p].alert = alert]
    PROVE  /\ proc' \in Tasks /\ Others(p)
           /\ proc'[p].todo = proc[p].todo /\ proc'[p].alert = alert
BY DEF Tasks, Others

LEMMA TaskChange ==
    ASSUME proc \in Tasks, NEW p \in Procs, NEW todo \in Seq(Nat), NEW alert \in Nat,
           proc' = [proc EXCEPT ![p].todo = todo, ![p].alert = alert]
    PROVE  /\ proc' \in Tasks /\ Others(p)
           /\ proc'[p].todo = todo /\ proc'[p].alert = alert
BY DEF Tasks, Others

\* A process that dies.
LEMMA TaskDropped ==
    ASSUME proc \in Tasks, NEW p \in Procs, proc' = [proc EXCEPT ![p] = Resting]
    PROVE  /\ proc' \in Tasks /\ Others(p)
           /\ proc'[p].todo = << >> /\ proc'[p].alert = 0
           /\ Range(proc'[p].todo) = {}
BY DEF Tasks, Others, Resting, Range

Job == [pc : {"idle", "replay", "copy"}, type : TeeTypes,
        known : SUBSET Nat, todo : SUBSET Nat, seen : SUBSET Nat]
Report == [pc : {"idle", "v2", "done"}, type : TeeTypes, v1 : Nat, upto : Nat,
           blurred : BOOLEAN, verdict : {"none", "gap", "excess", "clean"}]

OtherJobs(b) == \A c \in Backfills \ {b} : backfill'[c] = backfill[c]

\* A backfill that takes up a type, or is over with one.
LEMMA JobChange ==
    ASSUME backfill \in [Backfills -> Job], NEW b \in Backfills, NEW job \in Job,
           backfill' = [backfill EXCEPT ![b] = job]
    PROVE  backfill' \in [Backfills -> Job] /\ OtherJobs(b) /\ backfill'[b] = job
BY DEF OtherJobs

LEMMA PreScanChange ==
    ASSUME NEW type \in TeeTypes, NEW known \in SUBSET Nat
    PROVE  LET job == [NoJob EXCEPT !.pc = "replay", !.type = type, !.known = known] IN
           job \in Job /\ job.pc = "replay" /\ job.type = type /\ job.known = known
BY DEF NoJob, Job

LEMMA NoJobFacts == NoJob \in Job /\ NoJob.pc = "idle"
BY DEF NoJob, Job, TeeTypes

\* A backfill that has replayed the table.
LEMMA ReplayChange ==
    ASSUME NEW r \in Job, NEW gap \in SUBSET Nat, NEW rows \in SUBSET Nat,
           NEW job, job = [r EXCEPT !.pc = "copy", !.known = {}, !.todo = gap, !.seen = rows]
    PROVE  /\ job \in Job
           /\ job.pc = "copy" /\ job.type = r.type /\ job.todo = gap /\ job.seen = rows
BY DEF Job

\* A backfill that has copied an event.
LEMMA CopyChange ==
    ASSUME backfill \in [Backfills -> Job], NEW b \in Backfills, NEW todo \in SUBSET Nat,
           backfill' = [backfill EXCEPT ![b].todo = todo]
    PROVE  /\ backfill' \in [Backfills -> Job] /\ OtherJobs(b)
           /\ backfill'[b].pc = backfill[b].pc /\ backfill'[b].type = backfill[b].type
           /\ backfill'[b].todo = todo /\ backfill'[b].seen = backfill[b].seen
BY DEF OtherJobs, Job

\* The gate's counts.
LEMMA CountV1Facts ==
    ASSUME NEW type \in TeeTypes, NEW upto \in Nat, NEW v1 \in Nat, NEW gone \in BOOLEAN
    PROVE  LET report == [NoReport EXCEPT !.pc = "v2", !.type = type, !.upto = upto,
                                          !.v1 = v1, !.blurred = gone]
           IN /\ report \in Report
              /\ report.pc = "v2" /\ report.type = type /\ report.upto = upto
              /\ report.v1 = v1 /\ report.blurred = gone
BY DEF NoReport, Report

LEMMA CountV2Facts ==
    ASSUME NEW r \in Report, NEW blurred \in BOOLEAN,
           NEW verdict \in {"none", "gap", "excess", "clean"}
    PROVE  LET report == [r EXCEPT !.pc = "done", !.blurred = blurred, !.verdict = verdict]
           IN /\ report \in Report
              /\ report.pc = "done" /\ report.type = r.type /\ report.upto = r.upto
              /\ report.blurred = blurred /\ report.verdict = verdict
BY DEF Report

LEMMA NoReportFacts == NoReport \in Report /\ NoReport.pc = "idle" /\ NoReport.upto = 0
BY DEF NoReport, Report, TeeTypes

\* An event and its type.
LEMMA EntryFacts ==
    ASSUME TypeOK, NEW n \in 1..Len(log)
    PROVE  log[n] \in Entry /\ log[n].type \in TeeTypes /\ log[n].by \in Procs \cup {NoProc}
<1>1. log \in Seq(Entry)
  BY DEF TypeOK, Entry
<1>2. log[n] \in Entry
  BY <1>1
<1>3. QED
  BY <1>2 DEF Entry

\* Appends of one event.
LEMMA AppendOne ==
    ASSUME TypeOK, NEW type \in TeeTypes, NEW by \in Procs \cup {NoProc},
           AppendEvents(<<type>>, by)
    PROVE  Len(log') = Len(log) + 1 /\ Len(log) \in Nat
<1>1. <<type>> \in Seq(TeeTypes) /\ Len(<<type>>) = 1
  OBVIOUS
<1>2. Len(log') = Len(log) + Len(<<type>>)
  BY <1>1, AppendFacts
<1>3. QED
  BY <1>1, <1>2 DEF TypeOK

\* Every step keeps the types, and takes nothing back.
LEMMA TypeStep == TypeOK /\ BackfillInv /\ Next => TypeOK' /\ Grows
<1> SUFFICES ASSUME TypeOK, BackfillInv, Next
             PROVE  TypeOK' /\ Grows
  OBVIOUS
<1>0. /\ proc \in Tasks /\ Len(log) \in Nat
      /\ \A p \in Procs : /\ proc[p].alert <= Len(log) /\ proc[p].alert \in Nat
                          /\ Range(proc[p].todo) \subseteq 1..Len(log)
                          /\ proc[p].todo \in Seq(Nat)
      /\ mirror \in Seq(Nat) /\ IsInjective(mirror) /\ Mirrored \subseteq 1..Len(log)
      /\ alerted \in [Procs -> SUBSET TeeTypes]
      /\ \A type \in TeeTypes : <<type>> \in Seq(TeeTypes)
      /\ AlertType \in TeeTypes
  BY DEF TypeOK, TeeTypes, Tasks
<1>1. ASSUME NEW type \in TeeTypes, Pull(type)
      PROVE  TypeOK' /\ Grows
  <2>1. AppendEvents(<<type>>, NoProc) /\ UNCHANGED <<mirror, alerted, proc, backfill, recon, late>>
    BY <1>1 DEF Pull, history
  <2>2. Len(log') = Len(log) + 1
    BY <2>1, AppendOne
  <2>5. 1..Len(log) \subseteq 1..Len(log') /\ proc' = proc
    BY <1>0, <2>1, <2>2
  <2>3. proc' \in Tasks /\ \A p \in Procs : /\ proc'[p].alert <= Len(log')
                                            /\ Range(proc'[p].todo) \subseteq 1..Len(log')
    BY <1>0, <2>2, <2>5
  <2>4. QED
    BY <1>0, <2>1, <2>3, AppendTypes
<1>2. ASSUME Archive
      PROVE  TypeOK' /\ Grows
  <2>1. hot' \subseteq hot /\ UNCHANGED <<log, mirror, alerted, proc, backfill, recon, late>>
    BY <1>2 DEF Archive, history
  <2>2. Mirrored' = Mirrored
    BY <2>1 DEF Mirrored
  <2>3. TypeOK'
    BY <2>1, <2>2 DEF TypeOK
  <2>4. QED
    BY <1>0, <2>1, <2>2, <2>3 DEF Grows
<1>3. ASSUME NEW p \in Procs, NEW types \in Seq(TeeTypes), TeeAppend(p, types)
      PROVE  TypeOK' /\ Grows
  <2> DEFINE mine == [i \in 1..Len(types) |-> Len(log) + i]
  <2>1. /\ AppendEvents(types, p) /\ UNCHANGED <<mirror, alerted, backfill, recon, late>>
        /\ proc' = [proc EXCEPT ![p].todo = mine]
    BY <1>3 DEF TeeAppend, history
  <2>2. Len(log') = Len(log) + Len(types) /\ Len(types) \in Nat
    BY <2>1, AppendFacts
  <2>3. /\ mine \in Seq(Nat) /\ Len(mine) = Len(types)
        /\ \A n \in Range(mine) : n \in 1..Len(log')
    BY <1>0, <2>2 DEF Range
  <2> HIDE DEF mine
  <2>4. /\ proc' \in Tasks
        /\ proc'[p].todo = mine /\ proc'[p].alert = proc[p].alert
        /\ \A q \in Procs \ {p} : proc'[q] = proc[q]
    BY <1>0, <2>1, <2>3, TodoChange DEF Others
  <2>5. ASSUME NEW q \in Procs
        PROVE  proc'[q].alert <= Len(log') /\ Range(proc'[q].todo) \subseteq 1..Len(log')
    <3>1. CASE q = p
      BY <1>0, <2>2, <2>3, <2>4, <3>1
    <3>2. CASE q # p
      <4>1. proc'[q] = proc[q] /\ Range(proc[q].todo) \subseteq 1..Len(log)
        BY <1>0, <2>4, <3>2
      <4>2. QED
        BY <1>0, <2>2, <4>1
    <3>3. QED
      BY <3>1, <3>2
  <2>6. QED
    BY <2>1, <2>4, <2>5, AppendTypes
<1>4. ASSUME NEW p \in Procs, proc[p].todo # << >>
      PROVE  /\ Tail(proc[p].todo) \in Seq(Nat)
             /\ Head(proc[p].todo) \in 1..Len(log)
             /\ Range(Tail(proc[p].todo)) \subseteq 1..Len(log)
  <2>1. proc[p].todo \in Seq(Nat) /\ Range(proc[p].todo) \subseteq 1..Len(log)
    BY <1>0
  <2>2. QED
    BY <1>4, <2>1, RangeTail
<1>6. ASSUME NEW p \in Procs, Mirror(p)
      PROVE  TypeOK' /\ Grows
  <2>1. /\ proc[p].todo # << >> /\ mirror' = Inserted(Head(proc[p].todo))
        /\ proc' = [proc EXCEPT ![p].todo = Tail(proc[p].todo)]
        /\ UNCHANGED <<log, hot, alerted, backfill, recon, late>>
    BY <1>6 DEF Mirror, history
  <2>2. /\ mirror' \in Seq(Nat) /\ IsInjective(mirror')
        /\ Mirrored' = Mirrored \cup {Head(proc[p].todo)}
    BY <1>4, <2>1, InsertFacts
  <2>3. /\ proc' \in Tasks
        /\ proc'[p].todo = Tail(proc[p].todo) /\ proc'[p].alert = proc[p].alert
        /\ \A q \in Procs \ {p} : proc'[q] = proc[q]
    BY <1>0, <1>4, <2>1, TodoChange DEF Others
  <2>4. QED
    BY <1>0, <1>4, <2>1, <2>2, <2>3, OtherTypes DEF TypeOK
<1>7. ASSUME NEW p \in Procs, MirrorFails(p)
      PROVE  TypeOK' /\ Grows
  <2> DEFINE n   == Head(proc[p].todo)
             due == IF AlertDue(p, log[n].type) THEN n ELSE 0
  <2>1. /\ proc[p].todo # << >> /\ late \subseteq late'
        /\ proc' = [proc EXCEPT ![p].todo = Tail(proc[p].todo), ![p].alert = due]
        /\ alerted' = [alerted EXCEPT ![p] = @ \cup {log[n].type}]
        /\ UNCHANGED <<log, hot, mirror, backfill, recon>>
    BY <1>7 DEF MirrorFails
  <2>2. n \in 1..Len(log)
    BY <1>4, <2>1
  <2>3. log[n].type \in TeeTypes
    BY <2>2, EntryFacts
  <2>4. due \in Nat /\ due <= Len(log)
    BY <1>0, <2>2
  <2> HIDE DEF n, due
  <2>5. /\ proc' \in Tasks
        /\ proc'[p].todo = Tail(proc[p].todo) /\ proc'[p].alert = due
        /\ \A q \in Procs \ {p} : proc'[q] = proc[q]
    BY <1>0, <1>4, <2>1, <2>4, TaskChange DEF Others
  <2>6. alerted' \in [Procs -> SUBSET TeeTypes] /\ Mirrored' = Mirrored
    BY <1>0, <2>1, <2>3 DEF Mirrored
  <2>7. QED
    BY <1>0, <1>4, <2>1, <2>4, <2>5, <2>6, OtherTypes DEF TypeOK
<1>8. ASSUME NEW p \in Procs, EmitAlert(p)
      PROVE  TypeOK' /\ Grows
  <2>1. /\ AppendEvents(<<AlertType>>, NoProc)
        /\ UNCHANGED <<mirror, alerted, backfill, recon, late>>
        /\ proc' = [proc EXCEPT ![p].alert = 0]
    BY <1>8 DEF EmitAlert
  <2>2. Len(log') = Len(log) + 1
    BY <1>0, <2>1, AppendOne
  <2>3. /\ proc' \in Tasks
        /\ proc'[p].todo = proc[p].todo /\ proc'[p].alert = 0
        /\ \A q \in Procs \ {p} : proc'[q] = proc[q]
    BY <1>0, <2>1, AlertChange DEF Others
  <2>4. \A q \in Procs : /\ proc'[q].alert <= Len(log')
                         /\ Range(proc'[q].todo) \subseteq 1..Len(log')
    <3>1. \A q \in Procs : /\ proc'[q].alert <= Len(log) /\ proc'[q].alert \in Nat
                           /\ proc'[q].todo = proc[q].todo
      BY <1>0, <2>3
    <3>2. \A q \in Procs : Range(proc'[q].todo) \subseteq 1..Len(log)
      BY <1>0, <3>1
    <3>3. 1..Len(log) \subseteq 1..Len(log')
      BY <1>0, <2>2
    <3>4. QED
      BY <1>0, <2>2, <3>1, <3>2, <3>3
  <2>5. QED
    BY <1>0, <2>1, <2>3, <2>4, AppendTypes
<1>9. ASSUME NEW p \in Procs, EmitAlertFails(p) \/ Crash(p)
      PROVE  TypeOK' /\ Grows
  <2>1. /\ \/ proc' = [proc EXCEPT ![p].alert = 0]
           \/ proc' = [proc EXCEPT ![p] = Resting]
        /\ late \subseteq late'
        /\ UNCHANGED <<log, hot, mirror, backfill, recon>>
    BY <1>9 DEF EmitAlertFails, Crash
  <2>2. alerted' \in [Procs -> SUBSET TeeTypes]
    BY <1>0, <1>9 DEF EmitAlertFails, Crash
  <2>3. /\ proc' \in Tasks
        /\ proc'[p].alert = 0 /\ Range(proc'[p].todo) \subseteq Range(proc[p].todo)
        /\ \A q \in Procs \ {p} : proc'[q] = proc[q]
    <3>1. CASE proc' = [proc EXCEPT ![p].alert = 0]
      BY <1>0, <3>1, AlertChange DEF Others
    <3>2. CASE proc' = [proc EXCEPT ![p] = Resting]
      BY <1>0, <3>2, TaskDropped DEF Others
    <3>3. QED
      BY <2>1, <3>1, <3>2
  <2>4. \A q \in Procs : /\ proc'[q].alert <= Len(log)
                         /\ Range(proc'[q].todo) \subseteq 1..Len(log)
    BY <1>0, <2>3
  <2>5. Mirrored' = Mirrored
    BY <2>1 DEF Mirrored
  <2>6. QED
    BY <1>0, <2>1, <2>2, <2>3, <2>4, <2>5, OtherTypes DEF TypeOK
<1>10. ASSUME NEW b \in Backfills,
              \/ \E type \in TeeTypes : PreScan(b, type)
              \/ ReplayV1(b)
              \/ \E n \in backfill[b].todo : Copy(b, n)
              \/ Copied(b) \/ BackfillFails(b)
       PROVE  TypeOK' /\ Grows
  <2>1. UNCHANGED <<log, hot, alerted, proc, recon, late>>
    BY <1>10 DEF PreScan, ReplayV1, Copy, Copied, BackfillFails, history
  <2>2. backfill \in [Backfills -> Job] /\ backfill[b] \in Job /\ hot \subseteq Nat
    BY <1>0 DEF TypeOK, Job
  <2>3. /\ backfill' \in [Backfills -> Job]
        /\ mirror' \in Seq(Nat) /\ IsInjective(mirror')
        /\ Mirrored \subseteq Mirrored' /\ Mirrored' \subseteq 1..Len(log)
    <3>1. ASSUME NEW type \in TeeTypes, PreScan(b, type)
          PROVE  backfill' \in [Backfills -> Job] /\ mirror' = mirror
      <4>1. OfType(Mirrored, type) \in SUBSET Nat
        BY <1>0, OfTypeFacts
      <4>2. QED
        BY <2>2, <3>1, <4>1, PreScanChange, JobChange DEF PreScan
    <3>2. ASSUME ReplayV1(b)
          PROVE  backfill' \in [Backfills -> Job] /\ mirror' = mirror
      <4> DEFINE rows == OfType(hot, backfill[b].type)
                 gap  == Gap(rows, backfill[b].known)
      <4>1. rows \in SUBSET Nat /\ gap \in SUBSET Nat
        BY <2>2 DEF OfType, Gap
      <4>2. /\ mirror' = mirror
            /\ backfill' = [backfill EXCEPT ![b] = [backfill[b] EXCEPT
                              !.pc = "copy", !.known = {}, !.todo = gap, !.seen = rows]]
        BY <3>2 DEF ReplayV1
      <4> HIDE DEF rows, gap
      <4>3. QED
        BY <2>2, <4>1, <4>2, ReplayChange, JobChange
    <3>3. ASSUME NEW n \in backfill[b].todo, Copy(b, n)
          PROVE  backfill' \in [Backfills -> Job] /\ n \in 1..Len(log) /\ mirror' = Inserted(n)
      <4>1. /\ mirror' = Inserted(n) /\ backfill[b].pc = "copy"
            /\ backfill' = [backfill EXCEPT ![b].todo = backfill[b].todo \ {n}]
        BY <3>3 DEF Copy
      <4>2. n \in 1..Len(log) /\ backfill[b].todo \ {n} \in SUBSET Nat
        BY <2>2, <4>1 DEF BackfillInv, JobInv, OfType, Job
      <4>3. QED
        BY <2>2, <4>1, <4>2, CopyChange
    <3>4. ASSUME Copied(b) \/ BackfillFails(b)
          PROVE  backfill' \in [Backfills -> Job] /\ mirror' = mirror
      BY <2>2, <3>4, NoJobFacts, JobChange DEF Copied, BackfillFails, history
    <3>5. ASSUME mirror' = mirror
          PROVE  /\ mirror' \in Seq(Nat) /\ IsInjective(mirror')
                 /\ Mirrored \subseteq Mirrored' /\ Mirrored' \subseteq 1..Len(log)
      BY <1>0, <3>5 DEF Mirrored
    <3>6. ASSUME NEW n \in 1..Len(log), mirror' = Inserted(n)
          PROVE  /\ mirror' \in Seq(Nat) /\ IsInjective(mirror')
                 /\ Mirrored \subseteq Mirrored' /\ Mirrored' \subseteq 1..Len(log)
      BY <1>0, <3>6, InsertFacts
    <3>7. QED
      BY <1>10, <3>1, <3>2, <3>3, <3>4, <3>5, <3>6
  <2>4. QED
    BY <1>0, <2>1, <2>3, OtherTypes DEF Job, TypeOK
<1>11. ASSUME \/ \E type \in TeeTypes : CountV1(type)
              \/ CountV2 \/ EndRecon
       PROVE  TypeOK' /\ Grows
  <2>1. UNCHANGED <<log, hot, mirror, alerted, proc, backfill, late>>
    BY <1>11 DEF CountV1, CountV2, EndRecon, history
  <2>2. recon \in Report /\ hot \subseteq 1..Len(log)
    BY DEF TypeOK, Report
  <2>3. recon' \in Report
    <3>1. ASSUME NEW type \in TeeTypes, CountV1(type)
          PROVE  recon' \in Report
      <4>1. Cardinality(OfType(hot, type)) \in Nat
        BY <2>2, OfTypeFacts
      <4> DEFINE v1   == Cardinality(OfType(hot, type))
                 gone == OfType(1..Len(log) \ hot, type) # {}
      <4>2. gone \in BOOLEAN
        OBVIOUS
      <4>3. recon' = [NoReport EXCEPT !.pc = "v2", !.type = type, !.upto = Len(log),
                                      !.v1 = v1, !.blurred = gone]
        BY <3>1 DEF CountV1
      <4> HIDE DEF gone
      <4>4. QED
        BY <1>0, <4>1, <4>2, <4>3, CountV1Facts
    <3>2. ASSUME CountV2
          PROVE  recon' \in Report
      <4> DEFINE verdict == Verdict(recon.v1, Cardinality(OfType(Mirrored, recon.type)))
                 blurred == recon.blurred \/ OfType(recon.upto + 1..Len(log), recon.type) # {}
      <4>1. verdict \in {"none", "gap", "excess", "clean"}
        BY DEF Verdict
      <4>2. blurred \in BOOLEAN
        OBVIOUS
      <4>3. recon' = [recon EXCEPT !.pc = "done", !.blurred = blurred, !.verdict = verdict]
        BY <3>2 DEF CountV2
      <4> HIDE DEF verdict, blurred
      <4>4. QED
        BY <2>2, <4>1, <4>2, <4>3, CountV2Facts
    <3>3. CASE EndRecon
      BY <3>3, NoReportFacts DEF EndRecon
    <3>4. QED
      BY <1>11, <3>1, <3>2, <3>3
  <2>4. Mirrored' = Mirrored
    BY <2>1 DEF Mirrored
  <2>5. QED
    BY <1>0, <2>1, <2>3, <2>4, OtherTypes DEF Report, TypeOK
<1>12. QED
  <2>1. \A first, second \in TeeTypes : <<first, second>> \in Seq(TeeTypes)
    OBVIOUS
  <2>2. QED
    BY <1>0, <1>1, <1>2, <1>3, <1>6, <1>7, <1>8, <1>9, <1>10, <1>11, <2>1 DEF Next

(***************************************************************************)
(* The backfill.                                                           *)
(***************************************************************************)

\* A backfill that does not move keeps its invariant, whatever others do.
LEMMA JobKept ==
    ASSUME TypeOK, TypeOK', Grows, NEW b \in Backfills, JobInv(b), backfill'[b] = backfill[b]
    PROVE  JobInv(b)'
<1> DEFINE job == backfill[b]
<1>1. Len(log) \in Nat /\ Len(log') \in Nat /\ Mirrored \subseteq Mirrored'
  BY DEF TypeOK, Grows
<1>2. ASSUME job.pc = "copy"
      PROVE  /\ job.todo \subseteq OfType(1..Len(log), job.type)'
             /\ \A m \in job.todo, n \in OfType(hot, job.type)' :
                  n < m => n \in Mirrored' \cup job.todo
  <2>1. /\ job.todo \subseteq OfType(1..Len(log), job.type)
        /\ \A m \in job.todo, n \in OfType(hot, job.type) :
             n < m => n \in Mirrored \cup job.todo
    BY <1>2 DEF JobInv
  <2>2. /\ Len(log) <= Len(log')
        /\ \A n \in 1..Len(log) : log'[n] = log[n]
        /\ hot' \cap (1..Len(log)) \subseteq hot
    BY DEF Grows
  <2>3. 1..Len(log) \subseteq 1..Len(log')
    BY <1>1, <2>2
  <2>4. \A n \in job.todo : n \in 1..Len(log) /\ log[n].type = job.type
    BY <2>1 DEF OfType
  <2>5. job.todo \subseteq OfType(1..Len(log), job.type)'
    BY <2>2, <2>3, <2>4 DEF OfType
  <2>6. ASSUME NEW m \in job.todo, NEW n \in OfType(hot, job.type)', n < m
        PROVE  n \in Mirrored' \cup job.todo
    <3>1. n \in hot' /\ log'[n].type = job.type /\ n \in 1..Len(log')
      BY <2>6 DEF OfType, TypeOK
    <3>2. n \in 1..Len(log)
      BY <1>1, <2>4, <2>6, <3>1
    <3>3. n \in OfType(hot, job.type)
      BY <2>2, <3>1, <3>2 DEF OfType
    <3>4. QED
      BY <1>1, <2>1, <2>6, <3>3
  <2>7. QED
    BY <2>5, <2>6
<1>3. QED
  BY <1>1, <1>2 DEF JobInv

\* Every step keeps the invariant of the backfills.
LEMMA BackfillStep == TypeOK /\ TypeOK' /\ Grows /\ BackfillInv /\ Next => BackfillInv'
<1> SUFFICES ASSUME TypeOK, TypeOK', Grows, BackfillInv, Next, NEW c \in Backfills
             PROVE  JobInv(c)'
  BY DEF BackfillInv
<1>0. /\ JobInv(c) /\ backfill \in [Backfills -> Job]
      /\ hot \subseteq 1..Len(log) /\ Mirrored \subseteq 1..Len(log) /\ Len(log) \in Nat
      /\ 1..Len(log) \subseteq Nat
  BY DEF BackfillInv, TypeOK, Job
<1>1. CASE backfill'[c] = backfill[c]
  BY <1>0, <1>1, JobKept
<1>2. ASSUME NEW type \in TeeTypes, PreScan(c, type)
      PROVE  JobInv(c)'
  <2> DEFINE known == OfType(Mirrored, type)
             job   == [NoJob EXCEPT !.pc = "replay", !.type = type, !.known = known]
  <2>1. \A n \in known : n \in Mirrored /\ n \in Nat
    BY <1>0 DEF OfType
  <2>2. backfill' = [backfill EXCEPT ![c] = job]
    BY <1>2 DEF PreScan
  <2> HIDE DEF known
  <2>3. job \in Job /\ job.pc = "replay" /\ job.known = known
    BY <2>1, PreScanChange
  <2> HIDE DEF job
  <2>4. backfill'[c] = job
    BY <1>0, <2>2, <2>3, JobChange
  <2>5. QED
    BY <2>1, <2>3, <2>4 DEF JobInv, Grows
<1>3. ASSUME ReplayV1(c)
      PROVE  JobInv(c)'
  <2> DEFINE rows == OfType(hot, backfill[c].type)
             gap  == Gap(rows, backfill[c].known)
  <2>1. /\ UNCHANGED <<log, hot, mirror>> /\ backfill[c].pc = "replay"
        /\ backfill' = [backfill EXCEPT ![c] = [backfill[c] EXCEPT
                          !.pc = "copy", !.known = {}, !.todo = gap, !.seen = rows]]
    BY <1>3 DEF ReplayV1
  <2>2. backfill[c] \in Job /\ (\A n \in rows : n \in Nat) /\ gap \subseteq rows
    BY <1>0 DEF OfType, Gap
  <2>3. /\ gap \subseteq rows /\ rows \subseteq Mirrored \cup gap
        /\ gap \subseteq OfType(1..Len(log), backfill[c].type)
    BY <1>0, <2>1 DEF JobInv, Gap, OfType
  <2> HIDE DEF gap
  <2>4. /\ backfill'[c].pc = "copy" /\ backfill'[c].type = backfill[c].type
        /\ backfill'[c].todo = gap /\ backfill'[c].seen = rows
    <3> DEFINE job == [backfill[c] EXCEPT
                         !.pc = "copy", !.known = {}, !.todo = gap, !.seen = rows]
    <3> HIDE DEF rows
    <3>0. rows \in SUBSET Nat /\ gap \in SUBSET Nat
      BY <2>2
    <3>1. /\ job \in Job /\ job.pc = "copy" /\ job.type = backfill[c].type
          /\ job.todo = gap /\ job.seen = rows
      BY <2>2, <3>0 DEF Job
    <3> HIDE DEF job
    <3>2. backfill'[c] = job
      BY <1>0, <2>1, <3>1, JobChange DEF job
    <3>3. QED
      BY <3>1, <3>2
  <2>5. QED
    BY <2>1, <2>3, <2>4 DEF JobInv, Mirrored, OfType
<1>4. ASSUME NEW n \in backfill[c].todo, Copy(c, n)
      PROVE  JobInv(c)'
  <2>1. /\ mirror' = Inserted(n) /\ backfill[c].pc = "copy" /\ UNCHANGED <<log, hot>>
        /\ backfill' = [backfill EXCEPT ![c].todo = backfill[c].todo \ {n}]
    BY <1>4 DEF Copy
  <2>2. n \in 1..Len(log) /\ backfill[c].todo \ {n} \in SUBSET Nat
    BY <1>0, <2>1 DEF JobInv, OfType, Job
  <2>3. /\ backfill'[c].pc = "copy" /\ backfill'[c].type = backfill[c].type
        /\ backfill'[c].todo = backfill[c].todo \ {n} /\ backfill'[c].seen = backfill[c].seen
    BY <1>0, <2>1, <2>2, CopyChange
  <2>4. Mirrored' = Mirrored \cup {n}
    BY <2>1, <2>2, InsertFacts
  <2>5. QED
    BY <1>0, <2>1, <2>3, <2>4 DEF JobInv, OfType
<1>5. ASSUME Copied(c) \/ BackfillFails(c)
      PROVE  JobInv(c)'
  <2>1. backfill'[c].pc = "idle"
    BY <1>0, <1>5, NoJobFacts, JobChange DEF Copied, BackfillFails
  <2>2. QED
    BY <2>1 DEF JobInv
<1>6. ASSUME NEW b \in Backfills, b # c,
             \/ \E type \in TeeTypes : PreScan(b, type)
             \/ ReplayV1(b)
             \/ \E n \in backfill[b].todo : Copy(b, n)
             \/ Copied(b) \/ BackfillFails(b)
      PROVE  backfill'[c] = backfill[c]
  BY <1>0, <1>6 DEF PreScan, ReplayV1, Copy, Copied, BackfillFails
<1>7. ASSUME \/ \E type \in TeeTypes : Pull(type) \/ CountV1(type)
             \/ Archive \/ CountV2 \/ EndRecon
             \/ \E p \in Procs : \/ \E first \in TeeTypes : TeeAppend(p, <<first>>)
                                 \/ \E first, second \in TeeTypes : TeeAppend(p, <<first, second>>)
                                 \/ Mirror(p) \/ MirrorFails(p) \/ EmitAlert(p)
                                 \/ EmitAlertFails(p) \/ Crash(p)
      PROVE  backfill'[c] = backfill[c]
  BY <1>7 DEF Pull, CountV1, Archive, CountV2, EndRecon, TeeAppend, Mirror, MirrorFails,
              EmitAlert, EmitAlertFails, Crash
<1>8. QED
  BY <1>1, <1>2, <1>3, <1>4, <1>5, <1>6, <1>7 DEF Next

(***************************************************************************)
(* The tee.                                                                *)
(***************************************************************************)

\* A process whose events ahead stay the same, while others append.
LEMMA AheadKept ==
    ASSUME TypeOK, TypeOK', Grows, NEW p \in Procs, AheadOf(p),
           proc'[p].todo = proc[p].todo,
           \A n \in 1..Len(log') : n > Len(log) => log'[n].by # p
    PROVE  AheadOf(p)'
<1>1. /\ Len(log) \in Nat /\ Len(log') \in Nat /\ Range(proc[p].todo) \subseteq 1..Len(log)
      /\ \A n \in 1..Len(log) : log'[n] = log[n]
      /\ Mirrored \subseteq Mirrored' /\ late \subseteq late'
  BY DEF TypeOK, Grows
<1>2. \A n \in 1..Len(log') :
        log'[n].by = p => n \in Mirrored' \cup late' \cup Range(proc[p].todo)
  <2>1. SUFFICES ASSUME NEW n \in 1..Len(log'), log'[n].by = p
                 PROVE  n \in Mirrored' \cup late' \cup Range(proc[p].todo)
    OBVIOUS
  <2>2. n \in 1..Len(log) /\ log[n].by = p
    BY <1>1, <2>1
  <2>3. QED
    BY <1>1, <2>2 DEF AheadOf
<1>3. \A n \in Range(proc[p].todo) : log'[n].by = p
  BY <1>1 DEF AheadOf
<1>4. QED
  BY <1>2, <1>3 DEF AheadOf

\* A process that is done with the first event ahead, one way or the other.
LEMMA AheadTail ==
    ASSUME TypeOK, Grows, NEW p \in Procs, AheadOf(p), proc[p].todo # << >>,
           log' = log, proc'[p].todo = Tail(proc[p].todo),
           Head(proc[p].todo) \in Mirrored' \cup late'
    PROVE  AheadOf(p)'
<1> DEFINE todo == proc[p].todo
<1>1. todo \in Seq(Nat) /\ Mirrored \subseteq Mirrored' /\ late \subseteq late'
  BY DEF TypeOK, Grows
<1>2. /\ Range(todo) = {Head(todo)} \cup Range(Tail(todo))
      /\ \A i \in 1..Len(Tail(todo)) : Tail(todo)[i] = todo[i + 1]
      /\ Len(Tail(todo)) = Len(todo) - 1 /\ Len(todo) \in Nat
  BY <1>1, RangeTail
<1>3. \A i, j \in 1..Len(Tail(todo)) : i < j => Tail(todo)[i] < Tail(todo)[j]
  <2>1. TAKE i, j \in 1..Len(Tail(todo))
  <2>2. i + 1 \in 1..Len(todo) /\ j + 1 \in 1..Len(todo) /\ (i < j => i + 1 < j + 1)
    BY <1>2
  <2>3. QED
    BY <1>2, <2>2 DEF AheadOf
<1>4. \A n \in 1..Len(log) :
        log[n].by = p => n \in Mirrored' \cup late' \cup Range(Tail(todo))
  BY <1>1, <1>2 DEF AheadOf
<1>5. \A n \in Range(Tail(todo)) : log[n].by = p
  BY <1>2 DEF AheadOf
<1>6. QED
  BY <1>3, <1>4, <1>5 DEF AheadOf

\* Every step keeps the invariant of the events ahead.
LEMMA AheadStep ==
    TypeOK /\ TypeOK' /\ Grows /\ AheadInv /\ BackfillInv /\ Next => AheadInv'
<1> SUFFICES ASSUME TypeOK, TypeOK', Grows, AheadInv, BackfillInv, Next, NEW p \in Procs
             PROVE  AheadOf(p)'
  BY DEF AheadInv
<1>0. /\ AheadOf(p) /\ proc \in Tasks /\ Len(log) \in Nat /\ NoProc # p
      /\ proc[p].todo \in Seq(Nat) /\ Range(proc[p].todo) \subseteq 1..Len(log)
      /\ AlertType \in TeeTypes
      /\ \A type \in TeeTypes : <<type>> \in Seq(TeeTypes)
  BY TeeAssumption DEF AheadInv, TypeOK, Tasks, TeeTypes
<1>1. ASSUME proc'[p].todo = proc[p].todo, log' = log
      PROVE  AheadOf(p)'
  BY <1>0, <1>1, AheadKept
<1>2. ASSUME proc'[p].todo = proc[p].todo, NEW types \in Seq(TeeTypes),
             NEW by \in Procs \cup {NoProc}, by # p, AppendEvents(types, by)
      PROVE  AheadOf(p)'
  <2>1. \A n \in Len(log) + 1..Len(log') : log'[n].by = by
    BY <1>2, AppendFacts
  <2>2. \A n \in 1..Len(log') : n > Len(log) => log'[n].by # p
    BY <1>0, <1>2, <2>1
  <2>3. QED
    BY <1>0, <1>2, <2>2, AheadKept
<1>3. ASSUME NEW types \in Seq(TeeTypes), NEW q \in Procs, TeeAppend(q, types)
      PROVE  AheadOf(p)'
  <2> DEFINE mine == [i \in 1..Len(types) |-> Len(log) + i]
  <2>1. /\ AppendEvents(types, q) /\ proc' = [proc EXCEPT ![q].todo = mine]
        /\ UNCHANGED <<mirror, late>> /\ proc[q] = Resting
    BY <1>3 DEF TeeAppend, history
  <2>2. /\ Len(log') = Len(log) + Len(types) /\ Len(types) \in Nat
        /\ \A n \in 1..Len(log) : log'[n] = log[n]
        /\ \A n \in Len(log) + 1..Len(log') : log'[n].by = q
    BY <2>1, AppendFacts
  <2>3. /\ mine \in Seq(Nat) /\ Len(mine) = Len(types)
        /\ \A i \in 1..Len(types) : mine[i] = Len(log) + i
        /\ Range(mine) = Len(log) + 1..Len(log')
    <3>1. mine \in Seq(Nat) /\ Len(mine) = Len(types)
      BY <1>0, <2>2
    <3>2. \A n \in Range(mine) : n \in Len(log) + 1..Len(log')
      BY <1>0, <2>2 DEF Range
    <3>3. ASSUME NEW n \in Len(log) + 1..Len(log')
          PROVE  n \in Range(mine)
      <4>1. n - Len(log) \in 1..Len(types) /\ mine[n - Len(log)] = n
        BY <1>0, <2>2
      <4>2. QED
        BY <4>1 DEF Range
    <3>4. QED
      BY <3>1, <3>2, <3>3
  <2> HIDE DEF mine
  <2>4. CASE q = p
    <3>1. proc'[p].todo = mine /\ Range(proc[p].todo) = {}
      <4>1. proc'[p].todo = mine
        BY <1>0, <2>1, <2>3, <2>4, TodoChange
      <4>2. proc[p].todo = << >>
        BY <2>1, <2>4 DEF Resting
      <4>3. Range(<< >>) = {}
        BY DEF Range
      <4>4. QED
        BY <4>1, <4>2, <4>3
    <3>2. \A i, j \in 1..Len(mine) : i < j => mine[i] < mine[j]
      BY <1>0, <2>3
    <3>3. \A n \in Range(mine) : log'[n].by = p
      BY <2>2, <2>3, <2>4
    <3>4. \A n \in 1..Len(log') : log'[n].by = p => n \in Mirrored \cup late \cup Range(mine)
      <4>1. TAKE n \in 1..Len(log')
      <4>2. CASE n \in 1..Len(log)
        BY <1>0, <2>2, <3>1, <4>2 DEF AheadOf
      <4>3. CASE n \notin 1..Len(log)
        BY <1>0, <2>2, <2>3, <4>3
      <4>4. QED
        BY <4>2, <4>3
    <3>5. Mirrored' = Mirrored /\ late' = late
      BY <2>1 DEF Mirrored
    <3>6. QED
      BY <3>1, <3>2, <3>3, <3>4, <3>5 DEF AheadOf
  <2>5. CASE q # p
    <3>1. proc'[p] = proc[p]
      BY <1>0, <2>1, <2>3, <2>5, TodoChange DEF Others
    <3>2. QED
      BY <1>2, <2>1, <2>5, <3>1
  <2>6. QED
    BY <2>4, <2>5
<1>4. ASSUME NEW q \in Procs, Mirror(q)
      PROVE  AheadOf(p)'
  <2> DEFINE n == Head(proc[q].todo)
  <2>1. /\ proc[q].todo # << >> /\ mirror' = Inserted(n) /\ log' = log
        /\ proc' = [proc EXCEPT ![q].todo = Tail(proc[q].todo)]
    BY <1>4 DEF Mirror
  <2>2. proc[q].todo \in Seq(Nat) /\ Range(proc[q].todo) \subseteq 1..Len(log)
    BY DEF TypeOK
  <2>3. Tail(proc[q].todo) \in Seq(Nat) /\ n \in 1..Len(log)
    BY <2>1, <2>2, RangeTail
  <2>4. n \in Mirrored'
    BY <2>1, <2>3, InsertFacts
  <2>5. proc'[q].todo = Tail(proc[q].todo) /\ (q # p => proc'[p] = proc[p])
    BY <1>0, <2>1, <2>3, TodoChange DEF Others
  <2>6. QED
    BY <1>0, <1>1, <2>1, <2>4, <2>5, AheadTail
<1>5. ASSUME NEW q \in Procs, MirrorFails(q)
      PROVE  AheadOf(p)'
  <2> DEFINE n   == Head(proc[q].todo)
             due == IF AlertDue(q, log[n].type) THEN n ELSE 0
  <2>1. /\ proc[q].todo # << >> /\ log' = log /\ late' = late \cup {n}
        /\ proc' = [proc EXCEPT ![q].todo = Tail(proc[q].todo), ![q].alert = due]
    BY <1>5 DEF MirrorFails
  <2>2. proc[q].todo \in Seq(Nat) /\ Range(proc[q].todo) \subseteq 1..Len(log)
    BY DEF TypeOK
  <2>3. Tail(proc[q].todo) \in Seq(Nat) /\ n \in 1..Len(log) /\ due \in Nat
    BY <2>1, <2>2, RangeTail
  <2> HIDE DEF due
  <2>4. proc'[q].todo = Tail(proc[q].todo) /\ (q # p => proc'[p] = proc[p])
    BY <1>0, <2>1, <2>3, TaskChange DEF Others
  <2>5. QED
    BY <1>0, <1>1, <2>1, <2>4, AheadTail
<1>6. ASSUME NEW q \in Procs, EmitAlert(q)
      PROVE  AheadOf(p)'
  <2>1. AppendEvents(<<AlertType>>, NoProc) /\ proc' = [proc EXCEPT ![q].alert = 0]
    BY <1>6 DEF EmitAlert
  <2>2. proc'[p].todo = proc[p].todo
    BY <1>0, <2>1, AlertChange DEF Others
  <2>3. QED
    BY <1>0, <1>2, <2>1, <2>2
<1>7. ASSUME NEW q \in Procs, EmitAlertFails(q)
      PROVE  AheadOf(p)'
  <2>1. log' = log /\ proc' = [proc EXCEPT ![q].alert = 0]
    BY <1>7 DEF EmitAlertFails
  <2>2. proc'[p].todo = proc[p].todo
    BY <1>0, <2>1, AlertChange DEF Others
  <2>3. QED
    BY <1>1, <2>1, <2>2
<1>8. ASSUME NEW q \in Procs, Crash(q)
      PROVE  AheadOf(p)'
  <2>1. /\ UNCHANGED <<log, mirror>> /\ proc' = [proc EXCEPT ![q] = Resting]
        /\ late' = late \cup Range(proc[q].todo)
    BY <1>8 DEF Crash
  <2>2. /\ proc'[q].todo = << >> /\ Range(proc'[q].todo) = {}
        /\ (q # p => proc'[p] = proc[p])
    BY <1>0, <2>1, TaskDropped DEF Others
  <2>3. CASE q = p
    <3>1. Len(proc'[p].todo) = 0 /\ Mirrored' = Mirrored
      BY <2>1, <2>2, <2>3 DEF Mirrored
    <3>2. QED
      BY <1>0, <2>1, <2>2, <2>3, <3>1 DEF AheadOf
  <2>4. QED
    BY <1>1, <2>1, <2>2, <2>3
<1>9. ASSUME NEW type \in TeeTypes, Pull(type)
      PROVE  AheadOf(p)'
  BY <1>0, <1>2, <1>9 DEF Pull
<1>10. ASSUME \/ \E type \in TeeTypes : CountV1(type)
              \/ Archive \/ CountV2 \/ EndRecon
              \/ \E b \in Backfills : \/ \E type \in TeeTypes : PreScan(b, type)
                                      \/ ReplayV1(b)
                                      \/ \E n \in backfill[b].todo : Copy(b, n)
                                      \/ Copied(b) \/ BackfillFails(b)
       PROVE  AheadOf(p)'
  <2>1. UNCHANGED <<log, proc>>
    BY <1>10 DEF CountV1, Archive, CountV2, EndRecon, PreScan, ReplayV1, Copy, Copied,
                 BackfillFails
  <2>2. QED
    BY <1>1, <2>1
<1>11. QED
  <2>1. \A first, second \in TeeTypes : <<first, second>> \in Seq(TeeTypes)
    OBVIOUS
  <2>2. QED
    BY <1>0, <1>3, <1>4, <1>5, <1>6, <1>7, <1>8, <1>9, <1>10, <2>1 DEF Next

(***************************************************************************)
(* The order of the mirror.                                                *)
(***************************************************************************)

\* An insertion behind all that is due ahead of it.
LEMMA OrderInsert ==
    ASSUME TypeOK, OrderInv, NEW m \in 1..Len(log), mirror' = Inserted(m),
           UNCHANGED <<log, hot, late>>,
           \A n \in hot \ late :
              n < m /\ log[n] = log[m] /\ log[n].by # NoProc => n \in Mirrored
    PROVE  OrderInv'
<1>1. mirror \in Seq(Nat) /\ Len(mirror) \in Nat
  BY DEF TypeOK
<1>2. CASE mirror' = mirror
  BY <1>2 DEF OrderInv
<1>3. ASSUME Len(mirror') = Len(mirror) + 1, mirror'[Len(mirror) + 1] = m,
             \A i \in 1..Len(mirror) : mirror'[i] = mirror[i]
      PROVE  OrderInv'
  <2>1. SUFFICES ASSUME NEW j \in 1..Len(mirror'), NEW n \in hot \ late,
                        n < mirror'[j], log[n] = log[mirror'[j]], log[n].by # NoProc
                 PROVE  \E i \in 1..Len(mirror') : i < j /\ mirror'[i] = n
    BY DEF OrderInv
  <2>2. PICK i \in 1..Len(mirror) : i < j /\ mirror[i] = n
    <3>1. CASE j \in 1..Len(mirror)
      BY <1>3, <2>1, <3>1 DEF OrderInv
    <3>2. CASE j \notin 1..Len(mirror)
      <4>1. j = Len(mirror) + 1
        BY <1>1, <1>3, <3>2
      <4>2. n \in Mirrored
        BY <1>3, <2>1, <4>1
      <4>3. PICK i \in 1..Len(mirror) : mirror[i] = n
        BY <1>1, <4>2 DEF Mirrored, Range
      <4>4. QED
        BY <1>1, <4>1, <4>3
    <3>3. QED
      BY <3>1, <3>2
  <2>3. i \in 1..Len(mirror') /\ mirror'[i] = n
    BY <1>1, <1>3, <2>2
  <2>4. QED
    BY <2>2, <2>3
<1>4. QED
  BY <1>2, <1>3, InsertFacts

\* A step that inserts nothing: what is new is behind all that is mirrored.
LEMMA OrderKept ==
    ASSUME TypeOK, TypeOK', Grows, OrderInv, mirror' = mirror
    PROVE  OrderInv'
<1>1. /\ Len(log) \in Nat /\ Len(log') \in Nat /\ hot' \subseteq 1..Len(log')
      /\ mirror \in Seq(Nat) /\ Mirrored \subseteq 1..Len(log)
      /\ \A n \in 1..Len(log) : log'[n] = log[n]
      /\ hot' \cap (1..Len(log)) \subseteq hot /\ late \subseteq late'
  BY DEF TypeOK, Grows
<1>2. SUFFICES ASSUME NEW j \in 1..Len(mirror), NEW n \in hot' \ late',
                      n < mirror[j], log'[n] = log'[mirror[j]], log'[n].by # NoProc
               PROVE  \E i \in 1..Len(mirror) : i < j /\ mirror[i] = n
  BY DEF OrderInv
<1>3. mirror[j] \in 1..Len(log)
  BY <1>1 DEF Mirrored, Range
<1>4. n \in 1..Len(log)
  BY <1>1, <1>2, <1>3
<1>5. n \in hot \ late /\ log'[n] = log[n] /\ log'[mirror[j]] = log[mirror[j]]
  BY <1>1, <1>3, <1>4
<1>6. QED
  BY <1>2, <1>5 DEF OrderInv

\* Every step keeps the order of the mirror.
LEMMA OrderStep ==
    TypeOK /\ TypeOK' /\ Grows /\ AheadInv /\ BackfillInv /\ OrderInv /\ Next => OrderInv'
<1> SUFFICES ASSUME TypeOK, TypeOK', Grows, AheadInv, BackfillInv, OrderInv, Next
             PROVE  OrderInv'
  OBVIOUS
<1>1. CASE mirror' = mirror
  BY <1>1, OrderKept
<1>0. Len(log) \in Nat /\ hot \subseteq 1..Len(log) /\ 1..Len(log) \subseteq Nat
  BY DEF TypeOK
<1>2. ASSUME NEW p \in Procs, Mirror(p)
      PROVE  OrderInv'
  <2> DEFINE todo == proc[p].todo
             m    == Head(todo)
  <2>1. todo # << >> /\ mirror' = Inserted(m) /\ UNCHANGED <<log, hot, late>>
    BY <1>2 DEF Mirror, history
  <2>2. todo \in Seq(Nat) /\ Range(todo) \subseteq 1..Len(log) /\ AheadOf(p)
    BY DEF TypeOK, AheadInv
  <2>3. m \in Range(todo) /\ m = todo[1]
    BY <2>1, <2>2, RangeTail
  <2>4. m \in 1..Len(log) /\ log[m].by = p
    BY <2>2, <2>3 DEF AheadOf
  <2>5. ASSUME NEW n \in hot \ late, n < m, log[n] = log[m]
        PROVE  n \in Mirrored
    <3>1. n \in 1..Len(log) /\ log[n].by = p
      BY <1>0, <2>4, <2>5
    <3>2. CASE n \in Range(todo)
      <4>1. PICK i \in 1..Len(todo) : n = todo[i]
        BY <2>2, <3>2 DEF Range
      <4>2. i = 1 \/ todo[1] < todo[i]
        BY <2>2, <4>1 DEF AheadOf
      <4>3. QED
        BY <1>0, <2>3, <2>4, <2>5, <3>1, <4>1, <4>2
    <3>3. QED
      BY <2>2, <2>5, <3>1, <3>2 DEF AheadOf
  <2>6. QED
    BY <2>1, <2>4, <2>5, OrderInsert
<1>3. ASSUME NEW b \in Backfills, NEW m \in backfill[b].todo, Copy(b, m)
      PROVE  OrderInv'
  <2> DEFINE job == backfill[b]
  <2>1. /\ job.pc = "copy" /\ mirror' = Inserted(m) /\ UNCHANGED <<log, hot, late>>
        /\ \A n \in job.todo : m <= n
    BY <1>3 DEF Copy, IsNext, history
  <2>2. JobInv(b)
    BY DEF BackfillInv
  <2>3. m \in 1..Len(log) /\ log[m].type = job.type
    BY <2>1, <2>2 DEF JobInv, OfType
  <2>4. ASSUME NEW n \in hot \ late, n < m, log[n] = log[m]
        PROVE  n \in Mirrored
    <3>1. n \in OfType(hot, job.type) /\ n \in Nat /\ m \in Nat
      BY <1>0, <2>3, <2>4 DEF OfType
    <3>2. n \in Mirrored \cup job.todo
      BY <2>1, <2>2, <2>4, <3>1 DEF JobInv
    <3>3. QED
      BY <2>1, <2>4, <3>1, <3>2
  <2>5. QED
    BY <2>1, <2>3, <2>4, OrderInsert
<1>4. ASSUME \/ \E type \in TeeTypes : Pull(type) \/ CountV1(type)
             \/ Archive \/ CountV2 \/ EndRecon
             \/ \E p \in Procs : \/ \E first \in TeeTypes : TeeAppend(p, <<first>>)
                                 \/ \E first, second \in TeeTypes : TeeAppend(p, <<first, second>>)
                                 \/ MirrorFails(p) \/ EmitAlert(p)
                                 \/ EmitAlertFails(p) \/ Crash(p)
             \/ \E b \in Backfills : \/ \E type \in TeeTypes : PreScan(b, type)
                                     \/ ReplayV1(b) \/ Copied(b) \/ BackfillFails(b)
      PROVE  mirror' = mirror
  BY <1>4 DEF Pull, CountV1, Archive, CountV2, EndRecon, TeeAppend, MirrorFails, EmitAlert,
              EmitAlertFails, Crash, PreScan, ReplayV1, Copied, BackfillFails
<1>5. QED
  BY <1>1, <1>2, <1>3, <1>4 DEF Next

(***************************************************************************)
(* The coverage gate.                                                      *)
(***************************************************************************)

\* The events of a type up to some sequence stay what they are.
LEMMA PrefixKept ==
    ASSUME TypeOK, Grows, NEW upto \in Nat, upto <= Len(log), NEW type
    PROVE  {n \in 1..upto : log'[n].type = type} = {n \in 1..upto : log[n].type = type}
<1>1. \A n \in 1..upto : log'[n] = log[n]
  <2>1. Len(log) \in Nat
    BY DEF TypeOK
  <2>2. \A n \in 1..upto : n \in 1..Len(log)
    BY <2>1
  <2>3. QED
    BY <2>2 DEF Grows
<1>2. QED
  BY <1>1

\* A count that is not disturbed, whatever others do.
LEMMA ReconKept ==
    ASSUME TypeOK, TypeOK', Grows, ReconInv, VerdictSound, recon' = recon
    PROVE  ReconInv' /\ VerdictSound'
<1>1. /\ recon.upto \in Nat /\ recon.upto <= Len(log) /\ recon.upto <= Len(log')
      /\ Mirrored \subseteq Mirrored'
  BY DEF ReconInv, TypeOK, Grows
<1>2. {n \in 1..recon.upto : log'[n].type = recon.type}
        = {n \in 1..recon.upto : log[n].type = recon.type}
  BY <1>1, PrefixKept
<1>3. ReconInv'
  BY <1>1, <1>2 DEF ReconInv, OfType
<1>4. VerdictSound'
  BY <1>1, <1>2 DEF VerdictSound, OfType
<1>5. QED
  BY <1>3, <1>4

\* Every step keeps the gate's counts and its verdict sound.
LEMMA ReconStep ==
    TypeOK /\ TypeOK' /\ Grows /\ ReconInv /\ VerdictSound /\ Next
      => ReconInv' /\ VerdictSound'
<1> SUFFICES ASSUME TypeOK, TypeOK', Grows, ReconInv, VerdictSound, Next
             PROVE  ReconInv' /\ VerdictSound'
  OBVIOUS
<1>0. /\ Len(log) \in Nat /\ hot \subseteq 1..Len(log) /\ Mirrored \subseteq 1..Len(log)
      /\ recon \in Report /\ recon.upto \in Nat /\ recon.upto <= Len(log)
      /\ recon.type \in TeeTypes
  BY DEF TypeOK, ReconInv, Report
<1>1. CASE recon' = recon
  BY <1>1, ReconKept
<1>2. ASSUME NEW type \in TeeTypes, CountV1(type)
      PROVE  ReconInv' /\ VerdictSound'
  <2> DEFINE v1   == Cardinality(OfType(hot, type))
             gone == OfType(1..Len(log) \ hot, type) # {}
  <2>1. /\ log' = log
        /\ recon' = [NoReport EXCEPT !.pc = "v2", !.type = type, !.upto = Len(log),
                                     !.v1 = v1, !.blurred = gone]
    BY <1>2 DEF CountV1
  <2>2. v1 \in Nat /\ gone \in BOOLEAN
    BY <1>0, OfTypeFacts
  <2>3. ASSUME ~ gone
        PROVE  OfType(hot, type) = OfType(1..Len(log), type)
    <3>1. \A n \in 1..Len(log) : log[n].type = type => n \in hot
      BY <2>3 DEF OfType
    <3>2. QED
      BY <1>0, <3>1 DEF OfType
  <2> HIDE DEF gone
  <2>4. /\ recon'.pc = "v2" /\ recon'.type = type /\ recon'.upto = Len(log)
        /\ recon'.v1 = v1 /\ recon'.blurred = gone
    <3> HIDE DEF v1
    <3> DEFINE report == [NoReport EXCEPT !.pc = "v2", !.type = type, !.upto = Len(log),
                                          !.v1 = v1, !.blurred = gone]
    <3>1. /\ report.pc = "v2" /\ report.type = type /\ report.upto = Len(log)
          /\ report.v1 = v1 /\ report.blurred = gone
      BY <1>0, <2>2 DEF NoReport
    <3>2. QED
      BY <2>1, <3>1, Zenon
  <2>5. OfType(1..recon.upto, recon.type)' = OfType(1..Len(log), type)
    BY <2>1, <2>4 DEF OfType
  <2>6. ReconInv'
    BY <1>0, <2>1, <2>3, <2>4, <2>5 DEF ReconInv
  <2>7. VerdictSound'
    BY <2>4 DEF VerdictSound
  <2>8. QED
    BY <2>6, <2>7
<1>3. ASSUME CountV2
      PROVE  ReconInv' /\ VerdictSound'
  <2> DEFINE all     == OfType(1..recon.upto, recon.type)
             there   == OfType(Mirrored, recon.type)
             verdict == Verdict(recon.v1, Cardinality(there))
             new     == OfType(recon.upto + 1..Len(log), recon.type)
             blurred == recon.blurred \/ new # {}
  <2>1. /\ UNCHANGED <<log, mirror>> /\ recon.pc = "v2"
        /\ recon' = [recon EXCEPT !.pc = "done", !.blurred = blurred, !.verdict = verdict]
    BY <1>3 DEF CountV2
  <2>2. verdict \in {"none", "gap", "excess", "clean"} /\ blurred \in BOOLEAN
    BY DEF Verdict
  <2>3. ASSUME ~ blurred
        PROVE  verdict # "excess" /\ (verdict = "clean" => all \subseteq Mirrored)
    <3>1. 1..recon.upto \in SUBSET (1..Len(log)) /\ Mirrored \in SUBSET (1..Len(log))
      BY <1>0
    <3>2. /\ IsFiniteSet(all) /\ Cardinality(all) \in Nat /\ Cardinality(there) \in Nat
      BY <1>0, <3>1, OfTypeFacts
    <3>3. \A n \in there : n \in all
      <4>1. TAKE n \in there
      <4>2. n \in 1..Len(log) /\ log[n].type = recon.type /\ n \notin new
        BY <1>0, <2>3 DEF OfType
      <4>3. n \in 1..recon.upto
        BY <1>0, <4>2 DEF OfType
      <4>4. QED
        BY <4>2, <4>3 DEF OfType
    <3>4. recon.v1 = Cardinality(all)
      BY <2>1, <2>3 DEF ReconInv
    <3>5. there \subseteq Mirrored
      BY DEF OfType
    <3> HIDE DEF all, there
    <3>6. /\ Cardinality(there) <= Cardinality(all)
          /\ Cardinality(there) = Cardinality(all) => there = all
      BY <3>2, <3>3, FS_Subset
    <3>7. QED
      BY <3>2, <3>4, <3>5, <3>6 DEF Verdict
  <2> HIDE DEF verdict, blurred
  <2>4. /\ recon'.pc = "done" /\ recon'.type = recon.type /\ recon'.upto = recon.upto
        /\ recon'.blurred = blurred /\ recon'.verdict = verdict
    <3> DEFINE report == [recon EXCEPT !.pc = "done", !.blurred = blurred,
                                       !.verdict = verdict]
    <3>1. /\ report.pc = "done" /\ report.type = recon.type /\ report.upto = recon.upto
          /\ report.blurred = blurred /\ report.verdict = verdict
      BY <1>0, <2>2 DEF Report
    <3>2. QED
      BY <2>1, <3>1, Zenon
  <2>5. OfType(1..recon.upto, recon.type)' = all /\ Mirrored' = Mirrored
    BY <2>1, <2>4 DEF OfType, Mirrored
  <2>6. ReconInv'
    BY <1>0, <2>1, <2>4 DEF ReconInv
  <2>7. VerdictSound'
    BY <2>3, <2>4, <2>5 DEF VerdictSound
  <2>8. QED
    BY <2>6, <2>7
<1>4. ASSUME EndRecon
      PROVE  ReconInv' /\ VerdictSound'
  <2>1. recon'.pc = "idle" /\ recon'.upto = 0 /\ log' = log
    BY <1>4, NoReportFacts DEF EndRecon
  <2>2. QED
    BY <1>0, <2>1 DEF ReconInv, VerdictSound
<1>5. ASSUME \/ \E type \in TeeTypes : Pull(type)
             \/ Archive
             \/ \E p \in Procs : \/ \E first \in TeeTypes : TeeAppend(p, <<first>>)
                                 \/ \E first, second \in TeeTypes : TeeAppend(p, <<first, second>>)
                                 \/ Mirror(p) \/ MirrorFails(p) \/ EmitAlert(p)
                                 \/ EmitAlertFails(p) \/ Crash(p)
             \/ \E b \in Backfills : \/ \E type \in TeeTypes : PreScan(b, type)
                                     \/ ReplayV1(b)
                                     \/ \E n \in backfill[b].todo : Copy(b, n)
                                     \/ Copied(b) \/ BackfillFails(b)
      PROVE  recon' = recon
  BY <1>5 DEF Pull, Archive, TeeAppend, Mirror, MirrorFails, EmitAlert, EmitAlertFails, Crash,
              PreScan, ReplayV1, Copy, Copied, BackfillFails
<1>6. QED
  BY <1>1, <1>2, <1>3, <1>4, <1>5 DEF Next

(***************************************************************************)
(* The alerts.                                                             *)
(***************************************************************************)

\* What was announced stays so, when an alert that goes away leaves a trace.
LEMMA AnnouncedKept ==
    ASSUME TypeOK, Grows, alerts \subseteq alerts', muted \subseteq muted',
           \A p \in Procs : proc[p].alert # 0 =>
              \/ proc'[p].alert = proc[p].alert
              \/ log[proc[p].alert].type \in alerts' \cup muted'
    PROVE  Announced \subseteq Announced'
<1>1. ASSUME NEW p \in Procs, proc[p].alert # 0
      PROVE  log[proc[p].alert].type \in Announced'
  <2>1. proc[p].alert \in 1..Len(log)
    BY <1>1 DEF TypeOK
  <2>2. log'[proc[p].alert] = log[proc[p].alert]
    BY <2>1 DEF Grows
  <2>3. CASE proc'[p].alert = proc[p].alert
    BY <1>1, <2>2, <2>3 DEF Announced
  <2>4. CASE log[proc[p].alert].type \in alerts' \cup muted'
    BY <2>4 DEF Announced
  <2>5. QED
    BY <1>1, <2>3, <2>4
<1>2. QED
  BY <1>1 DEF Announced

\* Every step keeps the types of failed mirrors announced.
LEMMA AlertStep ==
    TypeOK /\ TypeOK' /\ Grows /\ AlertInv /\ FailureAlerted /\ Next
      => AlertInv' /\ FailureAlerted'
<1> SUFFICES ASSUME TypeOK, TypeOK', Grows, AlertInv, FailureAlerted, Next
             PROVE  AlertInv' /\ FailureAlerted'
  OBVIOUS
<1>0. /\ proc \in Tasks /\ alerted \in [Procs -> SUBSET TeeTypes]
      /\ (\A p \in Procs : alerted[p] \subseteq Announced) /\ failed \subseteq Announced
  BY DEF TypeOK, Tasks, AlertInv, FailureAlerted
<1>1. ASSUME Announced \subseteq Announced', failed' = failed,
             \A p \in Procs : alerted'[p] \subseteq alerted[p]
      PROVE  AlertInv' /\ FailureAlerted'
  <2>1. AlertInv'
    BY <1>0, <1>1 DEF AlertInv
  <2>2. FailureAlerted'
    BY <1>0, <1>1 DEF FailureAlerted
  <2>3. QED
    BY <2>1, <2>2
<1>2. ASSUME \A p \in Procs : proc'[p].alert = proc[p].alert,
             UNCHANGED <<alerted, failed, alerts, muted>>
      PROVE  AlertInv' /\ FailureAlerted'
  BY <1>1, <1>2, AnnouncedKept
<1>3. ASSUME NEW p \in Procs, NEW todo \in Seq(Nat),
             proc' = [proc EXCEPT ![p].todo = todo],
             UNCHANGED <<alerted, failed, alerts, muted>>
      PROVE  AlertInv' /\ FailureAlerted'
  BY <1>0, <1>2, <1>3, TodoChange DEF Others
<1>4. ASSUME NEW p \in Procs, NEW types \in Seq(TeeTypes), TeeAppend(p, types)
      PROVE  AlertInv' /\ FailureAlerted'
  <2> DEFINE mine == [i \in 1..Len(types) |-> Len(log) + i]
  <2>1. /\ proc' = [proc EXCEPT ![p].todo = mine]
        /\ UNCHANGED <<alerted, failed, alerts, muted>>
    BY <1>4 DEF TeeAppend, history
  <2>2. mine \in Seq(Nat)
    BY DEF TypeOK
  <2>3. QED
    BY <1>3, <2>1, <2>2
<1>5. ASSUME NEW p \in Procs, Mirror(p)
      PROVE  AlertInv' /\ FailureAlerted'
  <2>1. /\ proc[p].todo # << >> /\ proc[p].todo \in Seq(Nat)
        /\ proc' = [proc EXCEPT ![p].todo = Tail(proc[p].todo)]
        /\ UNCHANGED <<alerted, failed, alerts, muted>>
    BY <1>5 DEF Mirror, history, TypeOK
  <2>2. QED
    BY <1>3, <2>1, RangeTail
<1>6. ASSUME NEW p \in Procs, MirrorFails(p)
      PROVE  AlertInv' /\ FailureAlerted'
  <2> DEFINE n    == Head(proc[p].todo)
             type == log[n].type
             due  == IF AlertDue(p, type) THEN n ELSE 0
  <2>1. /\ proc[p].todo # << >> /\ proc[p].alert = 0
        /\ proc' = [proc EXCEPT ![p].todo = Tail(proc[p].todo), ![p].alert = due]
        /\ alerted' = [alerted EXCEPT ![p] = @ \cup {type}]
        /\ failed' = failed \cup {type}
        /\ UNCHANGED <<log, alerts, muted>>
    BY <1>6 DEF MirrorFails
  <2>2. proc[p].todo \in Seq(Nat) /\ Range(proc[p].todo) \subseteq 1..Len(log)
    BY DEF TypeOK
  <2>3. Tail(proc[p].todo) \in Seq(Nat) /\ n \in 1..Len(log)
    BY <2>1, <2>2, RangeTail
  <2>4. due \in Nat /\ (AlertDue(p, type) => due = n /\ due # 0)
    BY <2>3
  <2> HIDE DEF due
  <2>5. proc'[p].alert = due /\ \A q \in Procs \ {p} : proc'[q] = proc[q]
    <3>1. proc \in Tasks /\ Tail(proc[p].todo) \in Seq(Nat) /\ due \in Nat
      BY <1>0, <2>3, <2>4
    <3>2. proc' = [proc EXCEPT ![p].todo = Tail(proc[p].todo), ![p].alert = due]
      BY <2>1
    <3>3. proc'[p].alert = due /\ Others(p)
      BY <3>1, <3>2, TaskChange
    <3>4. QED
      BY <3>3 DEF Others
  <2>6. Announced \subseteq Announced'
    BY <2>1, <2>5, AnnouncedKept
  <2>7. type \in Announced'
    <3>1. CASE AlertDue(p, type)
      BY <2>1, <2>4, <2>5, <3>1 DEF Announced
    <3>2. CASE ~ AlertDue(p, type)
      BY <1>0, <2>6, <3>2 DEF AlertDue
    <3>3. QED
      BY <3>1, <3>2
  <2>8. \A q \in Procs : alerted'[q] \subseteq alerted[q] \cup {type}
    BY <1>0, <2>1
  <2> HIDE DEF type
  <2>9. AlertInv'
    BY <1>0, <2>6, <2>7, <2>8 DEF AlertInv
  <2>10. FailureAlerted'
    BY <1>0, <2>1, <2>6, <2>7 DEF FailureAlerted
  <2>11. QED
    BY <2>9, <2>10
<1>7. ASSUME NEW p \in Procs, EmitAlert(p) \/ EmitAlertFails(p)
      PROVE  AlertInv' /\ FailureAlerted'
  <2>1. /\ proc' = [proc EXCEPT ![p].alert = 0] /\ UNCHANGED <<alerted, failed>>
        /\ alerts \subseteq alerts' /\ muted \subseteq muted'
        /\ log[proc[p].alert].type \in alerts' \cup muted'
    BY <1>7 DEF EmitAlert, EmitAlertFails
  <2>2. \A q \in Procs \ {p} : proc'[q] = proc[q]
    BY <1>0, <2>1, AlertChange DEF Others
  <2>3. Announced \subseteq Announced'
    BY <2>1, <2>2, AnnouncedKept
  <2>4. QED
    BY <1>1, <2>1, <2>3
<1>8. ASSUME NEW p \in Procs, Crash(p)
      PROVE  AlertInv' /\ FailureAlerted'
  <2>1. /\ proc' = [proc EXCEPT ![p] = Resting] /\ UNCHANGED <<failed, alerts>>
        /\ alerted' = [alerted EXCEPT ![p] = {}]
        /\ muted \subseteq muted'
        /\ proc[p].alert # 0 => log[proc[p].alert].type \in muted'
    BY <1>8 DEF Crash
  <2>2. \A q \in Procs \ {p} : proc'[q] = proc[q]
    BY <1>0, <2>1, TaskDropped DEF Others
  <2>3. Announced \subseteq Announced'
    BY <2>1, <2>2, AnnouncedKept
  <2>4. \A q \in Procs : alerted'[q] \subseteq alerted[q]
    BY <1>0, <2>1
  <2>5. QED
    BY <1>1, <2>1, <2>3, <2>4
<1>9. ASSUME \/ \E type \in TeeTypes : Pull(type) \/ CountV1(type)
             \/ Archive \/ CountV2 \/ EndRecon
             \/ \E b \in Backfills : \/ \E type \in TeeTypes : PreScan(b, type)
                                     \/ ReplayV1(b)
                                     \/ \E n \in backfill[b].todo : Copy(b, n)
                                     \/ Copied(b) \/ BackfillFails(b)
      PROVE  AlertInv' /\ FailureAlerted'
  <2>1. UNCHANGED <<proc, alerted, failed, alerts, muted>>
    BY <1>9 DEF Pull, CountV1, Archive, CountV2, EndRecon, PreScan, ReplayV1, Copy, Copied,
                BackfillFails, history
  <2>2. QED
    BY <1>2, <2>1
<1>10. QED
  <2>1. \A first, second \in TeeTypes :
          <<first>> \in Seq(TeeTypes) /\ <<first, second>> \in Seq(TeeTypes)
    OBVIOUS
  <2>2. QED
    BY <1>4, <1>5, <1>6, <1>7, <1>8, <1>9, <2>1 DEF Next

(***************************************************************************)
(* The theorems.                                                           *)
(***************************************************************************)

\* The invariant holds at the start.
LEMMA TeeInit == Init => TeeInv
<1> SUFFICES ASSUME Init PROVE TeeInv
  OBVIOUS
<1>1. /\ log = << >> /\ Len(log) = 0 /\ hot = {} /\ mirror = << >> /\ Len(mirror) = 0
      /\ late = {} /\ failed = {}
      /\ alerted = [p \in Procs |-> {}]
      /\ proc = [p \in Procs |-> Resting]
      /\ backfill = [b \in Backfills |-> NoJob]
      /\ recon = NoReport
  BY DEF Init
<1>2. Range(<< >>) = {} /\ IsInjective(<< >>) /\ Mirrored = {}
  BY <1>1 DEF Range, IsInjective, Mirrored
<1>3. /\ Resting \in [todo : Seq(Nat), alert : Nat]
      /\ Resting.todo = << >> /\ Resting.alert = 0
  BY DEF Resting
<1>4. \A p \in Procs : /\ proc[p].todo = << >> /\ proc[p].alert = 0
                        /\ Range(proc[p].todo) = {} /\ Len(proc[p].todo) = 0
                        /\ alerted[p] = {}
  BY <1>1, <1>2, <1>3
<1>5. \A b \in Backfills : backfill[b].pc = "idle"
  BY <1>1, NoJobFacts
<1>6. TypeOK
  <2>1. /\ log \in Seq([type : TeeTypes, by : Procs \cup {NoProc}])
        /\ hot \subseteq 1..Len(log) /\ mirror \in Seq(Nat)
    BY <1>1
  <2>2. IsInjective(mirror) /\ Mirrored \subseteq 1..Len(log)
    BY <1>1, <1>2
  <2>3. alerted \in [Procs -> SUBSET TeeTypes] /\ proc \in Tasks
    BY <1>1, <1>3 DEF Tasks
  <2>4. \A p \in Procs : proc[p].alert <= Len(log) /\ Range(proc[p].todo) \subseteq 1..Len(log)
    BY <1>1, <1>4
  <2>5. backfill \in [Backfills -> Job] /\ recon \in Report
    BY <1>1, NoJobFacts, NoReportFacts
  <2>6. QED
    BY <2>1, <2>2, <2>3, <2>4, <2>5 DEF TypeOK, Tasks, Job, Report
<1>7. AheadInv
  BY <1>1, <1>4 DEF AheadInv, AheadOf
<1>8. OrderInv
  BY <1>1 DEF OrderInv
<1>9. BackfillInv
  BY <1>5 DEF BackfillInv, JobInv
<1>10. ReconInv /\ VerdictSound
  BY <1>1, NoReportFacts DEF ReconInv, VerdictSound
<1>11. AlertInv /\ FailureAlerted
  BY <1>1, <1>4 DEF AlertInv, FailureAlerted
<1>12. QED
  BY <1>6, <1>7, <1>8, <1>9, <1>10, <1>11 DEF TeeInv

\* The invariant is inductive.
LEMMA TeeStep == TeeInv /\ [Next]_vars => TeeInv'
<1> SUFFICES ASSUME TeeInv, [Next]_vars PROVE TeeInv'
  OBVIOUS
<1>1. CASE Next
  <2>1. TypeOK' /\ Grows
    BY <1>1, TypeStep DEF TeeInv
  <2>2. BackfillInv' /\ AheadInv' /\ OrderInv'
    BY <1>1, <2>1, BackfillStep, AheadStep, OrderStep DEF TeeInv
  <2>3. ReconInv' /\ VerdictSound' /\ AlertInv' /\ FailureAlerted'
    BY <1>1, <2>1, ReconStep, AlertStep DEF TeeInv
  <2>4. QED
    BY <2>1, <2>2, <2>3 DEF TeeInv
<1>2. CASE UNCHANGED vars
  BY <1>2 DEF vars, TeeInv, TypeOK, AheadInv, AheadOf, OrderInv, BackfillInv, JobInv, ReconInv,
              AlertInv, FailureAlerted, VerdictSound, Announced, Mirrored, OfType
<1>3. QED
  BY <1>1, <1>2

\* The invariant holds throughout.
LEMMA TeeInvariant == Spec => []TeeInv
BY TeeInit, TeeStep, PTL DEF Spec

\* No double and no stray row: whatever the tees, the backfills and the gate do, and
\* wherever they fail, INSERT OR IGNORE leaves the V2 store with V1 events only, each
\* once.
THEOREM TeeTypeCorrect == Spec => []TypeOK
<1>1. TeeInv => TypeOK
  BY DEF TeeInv
<1>2. QED
  BY <1>1, TeeInvariant, PTL

\* The claim of v2-store-tee.ts that the fold order is preserved, with the exceptions
\* that FoldOrder names, for any number of processes and concurrent backfills.
THEOREM TeeFoldOrder == Spec => []FoldOrder
<1>1. TeeInv => FoldOrder
  <2>1. SUFFICES ASSUME TypeOK, OrderInv, NEW i \in 1..Len(mirror), NEW j \in 1..Len(mirror),
                        i < j, mirror[j] < mirror[i], log[mirror[i]] = log[mirror[j]],
                        log[mirror[i]].by # NoProc,
                        mirror[j] \in hot \ late
                 PROVE  FALSE
    BY DEF TeeInv, FoldOrder
  <2>2. PICK k \in 1..Len(mirror) : k < i /\ mirror[k] = mirror[j]
    BY <2>1 DEF OrderInv
  <2>3. mirror \in Seq(Nat) /\ IsInjective(mirror)
    BY <2>1 DEF TypeOK
  <2>4. k = j
    BY <2>2, <2>3 DEF IsInjective
  <2>5. QED
    BY <2>1, <2>2, <2>3, <2>4
<1>2. QED
  BY <1>1, TeeInvariant, PTL

\* The claim that a failed mirror is never swallowed, although a process remembers that
\* it has alerted before it does.
THEOREM TeeFailureAlerted == Spec => []FailureAlerted
<1>1. TeeInv => FailureAlerted
  BY DEF TeeInv
<1>2. QED
  BY <1>1, TeeInvariant, PTL

\* What the coverage gate concludes from its two counts, taken at different moments.
THEOREM TeeVerdictSound == Spec => []VerdictSound
<1>1. TeeInv => VerdictSound
  BY DEF TeeInv
<1>2. QED
  BY <1>1, TeeInvariant, PTL

\* A backfill that ends has mirrored all that it replayed, although its pre-scan was
\* stale by then.
THEOREM TeeBackfillComplete == Spec => []BackfillComplete
<1>1. TeeInv => BackfillComplete
  BY DEF TeeInv, BackfillInv, JobInv, BackfillComplete
<1>2. QED
  BY <1>1, TeeInvariant, PTL
=============================================================================

------------------------ MODULE EventTriggerBusProofs ------------------------
(***************************************************************************)
(* Proofs about the event-trigger bus, for any number of processes,        *)
(* events, handlers and faults: at most one invocation and one audit per   *)
(* dispatch, and a cursor that never passes over a dispatch.               *)
(***************************************************************************)
EXTENDS EventTriggerBus, TLAPS, FiniteSetTheorems

\* The other processes' ticks are untouched by a step of one process.
LEMMA TickUpdate ==
  ASSUME tick \in [Procs -> Tick], NEW p \in Procs, NEW j \in Tick,
         tick' = [tick EXCEPT ![p] = j]
  PROVE  /\ tick' \in [Procs -> Tick]
         /\ tick'[p] = j
         /\ \A q \in Procs \ {p} : tick'[q] = tick[q]
  OBVIOUS

LEMMA AtType ==
  ASSUME NEW pc \in {"closed", "open", "fold", "rescue"}, NEW n \in Nat
  PROVE  /\ At(pc, n) \in Tick
         /\ At(pc, n).pc = pc /\ At(pc, n).from = n /\ At(pc, n).snap = 0
         /\ At(pc, n).seen = {} /\ At(pc, n).todo = {} /\ At(pc, n).cur = NoPair
  BY DEF At, Tick

LEMMA TypeBounds ==
  ASSUME TypeOK
  PROVE  /\ lastSeq \in Nat
         /\ \A p \in Procs : /\ tick[p] \in Tick
                             /\ tick[p].from \in Nat /\ tick[p].snap \in Nat
                             /\ tick[p].from <= lastSeq + 1 /\ tick[p].snap <= lastSeq
                             /\ Working(p) <=> tick[p].cur # NoPair
                             /\ Working(p) => tick[p].cur \in Pairs
  BY DEF TypeOK, Tick

\* An insert takes the next sequence, above every bound in force.
LEMMA InsertType ==
  ASSUME TypeOK, NEW e \in Events, NEW h \in Handlers \cup {NoHandler}, Insert(e, h)
  PROVE  /\ hot' \subseteq Row
         /\ lastSeq' \in Nat
         /\ cursorFile \in 0..(lastSeq' + 1)
         /\ \A p \in Procs : tick[p].from <= lastSeq' + 1 /\ tick[p].snap <= lastSeq'
<1>1. lastSeq \in Nat /\ lastSeq' = lastSeq + 1
  BY DEF Insert, TypeOK
<1>2. hot' \subseteq Row
  BY <1>1 DEF Insert, TypeOK, Row
<1>. QED BY <1>1, <1>2, TypeBounds DEF TypeOK

\* A tick that is well typed, within the bounds, and holds a pair while working.
TickOK(t, last) ==
    /\ t \in Tick
    /\ t.from <= last + 1 /\ t.snap <= last
    /\ t.pc \in {"claimed", "ok", "failed"} <=> t.cur # NoPair

\* A step that replaces the tick of one process by such a tick keeps the types.
LEMMA TickStepType ==
  ASSUME TypeOK, NEW p \in Procs, tick' = [tick EXCEPT ![p] = tick'[p]],
         lastSeq' \in Nat, lastSeq <= lastSeq', TickOK(tick'[p], lastSeq')
  PROVE  /\ tick' \in [Procs -> Tick]
         /\ \A q \in Procs : TickOK(tick'[q], lastSeq')
<1>1. /\ tick' \in [Procs -> Tick]
      /\ \A q \in Procs \ {p} : tick'[q] = tick[q]
  BY TickUpdate DEF TypeOK, TickOK
<1>2. \A q \in Procs \ {p} : TickOK(tick[q], lastSeq')
  BY TypeBounds DEF TickOK, Working
<1>. QED BY <1>1, <1>2

-----------------------------------------------------------------------------
(***************************************************************************)
(* What each step makes of its process's tick.                             *)
(***************************************************************************)

\* The step leaves process p with this tick, and the other processes alone.
Becomes(p, pc, from, snap, seen, todo, cur) ==
    /\ tick'[p].pc = pc /\ tick'[p].from = from /\ tick'[p].snap = snap
    /\ tick'[p].seen = seen /\ tick'[p].todo = todo /\ tick'[p].cur = cur
    /\ tick'[p] \in Tick
    /\ tick' = [tick EXCEPT ![p] = tick'[p]]
    /\ \A q \in Procs \ {p} : tick'[q] = tick[q]

Restarts(p, pc, from) == Becomes(p, pc, from, 0, {}, {}, NoPair)

LEMMA TickEffect ==
  ASSUME TypeOK, NEW p \in Procs
  PROVE  /\ Open(p) => Restarts(p, "open", 0)
         /\ ReadCursor(p) => Restarts(p, "fold", cursorFile)
         /\ \A n \in 0..lastSeq : StartRun(p, n) => Restarts(p, "fold", n + 1)
         /\ FinishRun(p) => Restarts(p, "open", 0)
         /\ WriteCursor(p) \/ Crash(p) \/ CrashWriting(p) => Restarts(p, "closed", 0)
         /\ TickThrows(p) => Restarts(p, IF p \in Tickers THEN "closed" ELSE "rescue", 0)
<1> USE DEF Restarts, Becomes, TypeOK
<1>1. Open(p) => Restarts(p, "open", 0)
  BY AtType DEF Open
<1>2. ReadCursor(p) => Restarts(p, "fold", cursorFile)
  <2>1. cursorFile \in Nat
    OBVIOUS
  <2>. QED BY <2>1, AtType DEF ReadCursor
<1>3. ASSUME NEW n \in 0..lastSeq PROVE StartRun(p, n) => Restarts(p, "fold", n + 1)
  <2>1. n + 1 \in Nat
    OBVIOUS
  <2>. QED BY <2>1, AtType DEF StartRun
<1>4. FinishRun(p) => Restarts(p, "open", 0)
  BY AtType DEF FinishRun
<1>5. WriteCursor(p) \/ Crash(p) \/ CrashWriting(p) => Restarts(p, "closed", 0)
  BY AtType DEF WriteCursor, Crash, CrashWriting
<1>6. TickThrows(p) => Restarts(p, IF p \in Tickers THEN "closed" ELSE "rescue", 0)
  BY AtType DEF TickThrows
<1>. QED BY <1>1, <1>2, <1>3, <1>4, <1>5, <1>6

LEMMA LoopEffect ==
  ASSUME TypeOK, NEW p \in Procs
  PROVE  LET t == tick[p] IN
         /\ Prefold(p) =>
              Becomes(p, "snapshot", t.from, t.snap, AuditPairs, t.todo, t.cur)
         /\ \A n \in 0..lastSeq : Snapshot(p, n) =>
              Becomes(p, "walk", t.from, n, t.seen, t.todo, t.cur)
         /\ \A d \in t.todo :
              /\ WinClaim(p, d) =>
                   Becomes(p, "claimed", t.from, t.snap, t.seen, t.todo \ {d}, PairOf(d))
              /\ LoseClaim(p, d) =>
                   Becomes(p, t.pc, t.from, t.snap, t.seen, t.todo \ {d}, t.cur)
         /\ \A outcome \in {"ok", "failed"} : Invoke(p, outcome) =>
              Becomes(p, outcome, t.from, t.snap, t.seen, t.todo, t.cur)
         /\ AfterAudit(p) =>
              Becomes(p, IF t.pc = "failed" THEN "alert" ELSE "dispatch",
                      t.from, t.snap, t.seen, t.todo, NoPair)
         /\ AfterAlert(p) =>
              \/ t.pc = "alert"
                 /\ Becomes(p, "dispatch", t.from, t.snap, t.seen, t.todo, t.cur)
              \/ t.pc = "rescue" /\ Restarts(p, "open", 0)
<1> DEFINE t == tick[p]
<1>0. t \in Tick /\ tick \in [Procs -> Tick]
  BY DEF TypeOK
<1> USE DEF Becomes
<1>1. Prefold(p) => Becomes(p, "snapshot", t.from, t.snap, AuditPairs, t.todo, t.cur)
  <2>1. AuditPairs \subseteq Pairs
    BY DEF AuditPairs, AuditRows, PairOf, Pairs, TypeOK, Row
  <2> DEFINE j == [t EXCEPT !.pc = "snapshot", !.seen = AuditPairs]
  <2>2. /\ j \in Tick /\ j.pc = "snapshot" /\ j.seen = AuditPairs
        /\ j.from = t.from /\ j.snap = t.snap /\ j.todo = t.todo /\ j.cur = t.cur
    BY <1>0, <2>1 DEF Tick
  <2>3. Prefold(p) => tick' = [tick EXCEPT ![p] = j]
    BY DEF Prefold
  <2> HIDE DEF j
  <2>. QED BY <1>0, <2>2, <2>3
<1>2. ASSUME NEW n \in 0..lastSeq
      PROVE  Snapshot(p, n) => Becomes(p, "walk", t.from, n, t.seen, t.todo, t.cur)
  <2>1. n \in Nat
    BY DEF TypeOK
  <2> DEFINE j == [t EXCEPT !.pc = "walk", !.snap = n]
  <2>2. /\ j \in Tick /\ j.pc = "walk" /\ j.snap = n
        /\ j.from = t.from /\ j.seen = t.seen /\ j.todo = t.todo /\ j.cur = t.cur
    BY <1>0, <2>1 DEF Tick
  <2>3. Snapshot(p, n) => tick' = [tick EXCEPT ![p] = j]
    BY DEF Snapshot
  <2> HIDE DEF j
  <2>. QED BY <1>0, <2>2, <2>3
<1>3. ASSUME NEW d \in t.todo
      PROVE  WinClaim(p, d) =>
               Becomes(p, "claimed", t.from, t.snap, t.seen, t.todo \ {d}, PairOf(d))
  <2>1. PairOf(d) \in Pairs
    BY <1>0 DEF Tick, Dispatch, PairOf, Pairs
  <2>. QED BY <1>0, <2>1 DEF WinClaim, Tick
<1>4. ASSUME NEW d \in t.todo
      PROVE  LoseClaim(p, d) =>
               Becomes(p, t.pc, t.from, t.snap, t.seen, t.todo \ {d}, t.cur)
  BY <1>0 DEF LoseClaim, Tick
<1>5. ASSUME NEW outcome \in {"ok", "failed"}
      PROVE  Invoke(p, outcome) =>
               Becomes(p, outcome, t.from, t.snap, t.seen, t.todo, t.cur)
  BY <1>0 DEF Invoke, Tick
<1>6. AfterAudit(p) =>
        Becomes(p, IF t.pc = "failed" THEN "alert" ELSE "dispatch",
                t.from, t.snap, t.seen, t.todo, NoPair)
  <2> DEFINE pc == IF t.pc = "failed" THEN "alert" ELSE "dispatch"
             j  == [t EXCEPT !.pc = pc, !.cur = NoPair]
  <2>1. pc \in {"alert", "dispatch"}
    OBVIOUS
  <2>2. AfterAudit(p) => tick' = [tick EXCEPT ![p] = j]
    BY <1>0 DEF AfterAudit
  <2> HIDE DEF pc
  <2>3. /\ j \in Tick /\ j.pc = pc /\ j.cur = NoPair
        /\ j.from = t.from /\ j.snap = t.snap /\ j.seen = t.seen /\ j.todo = t.todo
    BY <1>0, <2>1 DEF Tick
  <2> HIDE DEF j
  <2>. QED BY <1>0, <2>2, <2>3 DEF pc
<1>7. AfterAlert(p) =>
        \/ t.pc = "alert"
           /\ Becomes(p, "dispatch", t.from, t.snap, t.seen, t.todo, t.cur)
        \/ t.pc = "rescue" /\ Restarts(p, "open", 0)
  BY <1>0, AtType DEF AfterAlert, Tick, Restarts, At
<1>. QED BY <1>1, <1>2, <1>3, <1>4, <1>5, <1>6, <1>7

\* The walk's budget of snapshot - from + 1 rows never runs out before the
\* snapshot: there are at most that many sequences, gaps or not.
LEMMA WalkReaches ==
  ASSUME TypeOK, NEW from \in Nat, NEW snap \in Nat,
         NEW r \in hot, from <= r.seq, r.seq <= snap
  PROVE  r \in WalkedRows(from, snap)
<1>1. r.seq \in Nat
  BY DEF TypeOK, Row
<1>2. IsFiniteSet(from..r.seq) /\ Cardinality(from..r.seq) = r.seq - from + 1
  <2>1. from \in Int /\ r.seq \in Int /\ ~(from > r.seq)
    BY <1>1
  <2>. QED BY <2>1, FS_Interval
<1>3. (from..r.seq) \cap Seqs \subseteq from..r.seq
  OBVIOUS
<1>4. /\ Cardinality((from..r.seq) \cap Seqs) <= Cardinality(from..r.seq)
      /\ IsFiniteSet((from..r.seq) \cap Seqs)
  BY <1>2, <1>3, FS_Subset
<1>5. Cardinality((from..r.seq) \cap Seqs) \in Nat
  BY <1>4, FS_CardinalityType
<1>. QED BY <1>1, <1>2, <1>4, <1>5 DEF WalkedRows, WalkPosition

LEMMA WalkEffect ==
  ASSUME TypeOK, NEW p \in Procs, Walk(p)
  PROVE  LET t == tick[p] IN
         \E due \in SUBSET Dispatch :
           /\ Becomes(p, "dispatch", t.from, t.snap, {}, due, t.cur)
           /\ \A r \in WalkedRows(t.from, t.snap) \cap SourceRows :
                \A h \in SubscribersOf[r.event] :
                  <<r.event, h>> \in t.seen \cup {PairOf(d) : d \in due}
<1> DEFINE t == tick[p]
           walked == WalkedRows(t.from, t.snap) \cap SourceRows
           due    == {d \in [seq : Seqs, event : Events, handler : Handlers] :
                        /\ \E r \in walked : r.seq = d.seq /\ r.event = d.event
                        /\ d.handler \in SubscribersOf[d.event]
                        /\ PairOf(d) \notin t.seen}
           j == [t EXCEPT !.pc = "dispatch", !.seen = {}, !.todo = due]
<1>0. t \in Tick /\ tick \in [Procs -> Tick]
  BY DEF TypeOK
<1>1. due \in SUBSET Dispatch
  BY DEF Dispatch, Seqs, TypeOK, Row
<1>2. ASSUME NEW r \in walked, NEW h \in SubscribersOf[r.event],
             <<r.event, h>> \notin t.seen
      PROVE  <<r.event, h>> \in {PairOf(d) : d \in due}
  <2> DEFINE d == [seq |-> r.seq, event |-> r.event, handler |-> h]
  <2>1. r \in hot /\ r.event \in Events /\ r.seq \in Seqs
    BY DEF WalkedRows, TypeOK, Row, Seqs
  <2>2. h \in Handlers
    BY <2>1, BusAssumption
  <2>3. d \in [seq : Seqs, event : Events, handler : Handlers]
    BY <2>1, <2>2
  <2>4. d.seq = r.seq /\ d.event = r.event /\ d.handler = h /\ PairOf(d) = <<r.event, h>>
    BY DEF PairOf
  <2> HIDE DEF d, walked
  <2>5. d \in due
    BY <1>2, <2>3, <2>4
  <2>. QED BY <2>4, <2>5
<1>3. tick' = [tick EXCEPT ![p] = j]
  BY DEF Walk
<1> HIDE DEF due
<1>4. /\ j \in Tick /\ j.pc = "dispatch" /\ j.seen = {} /\ j.todo = due
      /\ j.from = t.from /\ j.snap = t.snap /\ j.cur = t.cur
  BY <1>0, <1>1 DEF Tick
<1> HIDE DEF j
<1>5. Becomes(p, "dispatch", t.from, t.snap, {}, due, t.cur)
  BY <1>0, <1>3, <1>4 DEF Becomes
<1>. QED BY <1>1, <1>2, <1>5

-----------------------------------------------------------------------------
(***************************************************************************)
(* Types.                                                                  *)
(***************************************************************************)

LEMMA InitTyped == Init => TypeOK
<1> SUFFICES ASSUME Init PROVE TypeOK
  OBVIOUS
<1> USE BusAssumption
<1>1. PICK legacy \in {{}} \cup {{pair} : pair \in Pairs} :
         /\ hot = LegacyRows(legacy)
         /\ lastSeq = Cardinality(legacy)
         /\ audited = legacy
         /\ published = {pair[1] : pair \in legacy}
         /\ invocations = [pair \in Pairs |-> IF pair \in legacy THEN 1 ELSE 0]
  BY DEF Init
<1>2. legacy \subseteq Pairs /\ lastSeq \in Nat
  <2>1. CASE legacy = {}
    BY <1>1, <2>1, FS_EmptySet
  <2>2. CASE \E pair \in Pairs : legacy = {pair}
    <3>1. PICK pair \in Pairs : legacy = {pair}
      BY <2>2
    <3>2. Cardinality({pair}) = 1
      BY FS_Singleton
    <3>. QED BY <1>1, <3>1, <3>2
  <2>. QED BY <1>1, <2>1, <2>2
<1>3. hot \subseteq Row /\ published \subseteq Events
  BY <1>1, <1>2 DEF LegacyRows, Row, Pairs
<1>4. \A p \in Procs : tick[p] = At("closed", 0)
  BY DEF Init
<1>5. tick \in [Procs -> Tick]
  BY AtType DEF Init
<1>6. \A p \in Procs : /\ tick[p].from <= lastSeq + 1 /\ tick[p].snap <= lastSeq
                       /\ Working(p) <=> tick[p].cur # NoPair
  BY <1>2, <1>4, AtType DEF Working
<1>. QED BY <1>1, <1>2, <1>3, <1>5, <1>6 DEF TypeOK, Init

\* A step that only moves on one tick.
LEMMA TickOnlyType ==
  ASSUME TypeOK, NEW p \in Procs, tick' = [tick EXCEPT ![p] = tick'[p]],
         TickOK(tick'[p], lastSeq),
         UNCHANGED <<hot, lastSeq, invocations, published, audited>>,
         claims' \subseteq Pairs, cursorFile' \in 0..(lastSeq + 1),
         faults' \in 0..MaxFaults
  PROVE  TypeOK'
<1>1. lastSeq \in Nat /\ lastSeq <= lastSeq
  BY DEF TypeOK
<1>2. /\ tick' \in [Procs -> Tick]
      /\ \A q \in Procs : TickOK(tick'[q], lastSeq')
  BY <1>1, TickStepType
<1>. QED BY <1>2 DEF TypeOK, TickOK, Working

LEMMA StepTyped ==
  ASSUME TypeOK, NEW p \in Procs, Step(p) \/ \E n \in 0..lastSeq : StartRun(p, n)
  PROVE  TypeOK'
<1> DEFINE t == tick[p]
<1>0. /\ lastSeq \in Nat /\ TickOK(t, lastSeq) /\ t.from \in Nat /\ t.snap \in Nat
      /\ claims \subseteq Pairs /\ cursorFile \in 0..(lastSeq + 1)
      /\ faults \in 0..MaxFaults
  BY TypeBounds DEF TypeOK, TickOK, Working
<1>1. ASSUME NEW pc \in {"closed", "open", "fold", "rescue"}, NEW n \in 0..(lastSeq + 1),
             Restarts(p, pc, n)
      PROVE  TickOK(tick'[p], lastSeq) /\ tick' = [tick EXCEPT ![p] = tick'[p]]
  BY <1>0, <1>1 DEF Restarts, Becomes, TickOK
<1>2. ASSUME NEW pc, NEW seen, NEW todo, NEW cur,
             Becomes(p, pc, t.from, t.snap, seen, todo, cur),
             pc \in {"claimed", "ok", "failed"} <=> cur # NoPair
      PROVE  TickOK(tick'[p], lastSeq) /\ tick' = [tick EXCEPT ![p] = tick'[p]]
  BY <1>0, <1>2 DEF Becomes, TickOK
<1>3. CASE Open(p)
  <2>1. AuditPairs \subseteq Pairs
    BY DEF AuditPairs, AuditRows, PairOf, Pairs, TypeOK, Row
  <2>2. TickOK(tick'[p], lastSeq) /\ tick' = [tick EXCEPT ![p] = tick'[p]]
    BY <1>0, <1>1, <1>3, TickEffect
  <2>. QED BY <1>0, <1>3, <2>1, <2>2, TickOnlyType DEF Open
<1>4. CASE ReadCursor(p) \/ FinishRun(p) \/ \E n \in 0..lastSeq : StartRun(p, n)
  <2>1. TickOK(tick'[p], lastSeq) /\ tick' = [tick EXCEPT ![p] = tick'[p]]
    BY <1>0, <1>1, <1>4, TickEffect
  <2>. QED BY <1>0, <1>4, <2>1, TickOnlyType DEF ReadCursor, FinishRun, StartRun
<1>5. CASE Prefold(p)
  <2>0. /\ Becomes(p, "snapshot", t.from, t.snap, AuditPairs, t.todo, t.cur)
        /\ t.cur = NoPair
    BY <1>0, <1>5, LoopEffect DEF Prefold, TickOK
  <2>1. TickOK(tick'[p], lastSeq) /\ tick' = [tick EXCEPT ![p] = tick'[p]]
    BY <1>2, <2>0
  <2>. QED BY <1>0, <1>5, <2>1, TickOnlyType DEF Prefold
<1>6. ASSUME NEW n \in 0..lastSeq, Snapshot(p, n) PROVE TypeOK'
  <2>0. /\ Becomes(p, "walk", t.from, n, t.seen, t.todo, t.cur)
        /\ t.cur = NoPair
    BY <1>0, <1>6, LoopEffect DEF Snapshot, TickOK
  <2>1. TickOK(tick'[p], lastSeq) /\ tick' = [tick EXCEPT ![p] = tick'[p]]
    BY <1>0, <2>0 DEF Becomes, TickOK
  <2>. QED BY <1>0, <1>6, <2>1, TickOnlyType DEF Snapshot
<1>7. CASE Walk(p)
  <2>1. PICK due : Becomes(p, "dispatch", t.from, t.snap, {}, due, t.cur)
    BY <1>7, WalkEffect
  <2>2. TickOK(tick'[p], lastSeq) /\ tick' = [tick EXCEPT ![p] = tick'[p]]
    <3>1. t.cur = NoPair
      BY <1>0, <1>7 DEF Walk, TickOK
    <3>. QED BY <1>2, <2>1, <3>1
  <2>. QED BY <1>0, <1>7, <2>2, TickOnlyType DEF Walk
<1>8. ASSUME NEW d \in t.todo, WinClaim(p, d) PROVE TypeOK'
  <2>1. PairOf(d) \in Pairs /\ PairOf(d) # NoPair
    BY <1>0, BusAssumption DEF TickOK, Tick, Dispatch, PairOf, Pairs
  <2>2. TickOK(tick'[p], lastSeq) /\ tick' = [tick EXCEPT ![p] = tick'[p]]
    <3>1. Becomes(p, "claimed", t.from, t.snap, t.seen, t.todo \ {d}, PairOf(d))
      BY <1>8, LoopEffect
    <3>. QED BY <1>2, <2>1, <3>1
  <2>. QED BY <1>0, <1>8, <2>1, <2>2, TickOnlyType DEF WinClaim
<1>9. ASSUME NEW d \in t.todo, LoseClaim(p, d) PROVE TypeOK'
  <2>0. /\ Becomes(p, t.pc, t.from, t.snap, t.seen, t.todo \ {d}, t.cur)
        /\ t.pc \in {"claimed", "ok", "failed"} <=> t.cur # NoPair
    BY <1>0, <1>9, LoopEffect DEF TickOK
  <2>1. TickOK(tick'[p], lastSeq) /\ tick' = [tick EXCEPT ![p] = tick'[p]]
    BY <1>2, <2>0
  <2>. QED BY <1>0, <1>9, <2>1, TickOnlyType DEF LoseClaim
<1>10. ASSUME NEW outcome \in {"ok", "failed"}, Invoke(p, outcome) PROVE TypeOK'
  <2>1. TickOK(tick'[p], lastSeq) /\ tick' = [tick EXCEPT ![p] = tick'[p]]
    BY <1>0, <1>2, <1>10, LoopEffect DEF Invoke, TickOK
  <2>2. lastSeq <= lastSeq /\ lastSeq' = lastSeq
    BY <1>0, <1>10 DEF Invoke
  <2>3. /\ tick' \in [Procs -> Tick]
        /\ \A q \in Procs : TickOK(tick'[q], lastSeq')
    BY <1>0, <2>1, <2>2, TickStepType
  <2>4. invocations' \in [Pairs -> Nat]
    <3>1. t.cur \in Pairs
      BY <1>10, TypeBounds DEF Invoke, Working
    <3>. QED BY <1>10, <3>1 DEF Invoke, TypeOK
  <2>. QED BY <1>10, <2>3, <2>4 DEF Invoke, TypeOK, TickOK, Working
<1>11. CASE WriteCursor(p)
  <2>1. NextCursor(p) \in 0..(lastSeq + 1)
    BY <1>0 DEF NextCursor, TickOK
  <2>2. TickOK(tick'[p], lastSeq) /\ tick' = [tick EXCEPT ![p] = tick'[p]]
    BY <1>0, <1>1, <1>11, TickEffect
  <2>. QED BY <1>0, <1>11, <2>1, <2>2, TickOnlyType DEF WriteCursor
<1>12. ASSUME AfterAlert(p)
       PROVE  TickOK(tick'[p], lastSeq) /\ tick' = [tick EXCEPT ![p] = tick'[p]]
  BY <1>0, <1>1, <1>2, <1>12, LoopEffect DEF TickOK
<1>13. CASE AlertFails(p)
  BY <1>0, <1>12, <1>13, TickOnlyType DEF AlertFails
<1>14. ASSUME NEW e \in Events, NEW h \in Handlers \cup {NoHandler}, Insert(e, h),
              TickOK(tick'[p], lastSeq), tick' = [tick EXCEPT ![p] = tick'[p]],
              UNCHANGED <<cursorFile, claims, invocations, faults>>,
              published' \subseteq Events, audited' \subseteq Pairs
       PROVE  TypeOK'
  <2>1. /\ hot' \subseteq Row /\ lastSeq' \in Nat /\ lastSeq <= lastSeq'
        /\ cursorFile \in 0..(lastSeq' + 1) /\ lastSeq' = lastSeq + 1
    BY <1>0, <1>14, InsertType DEF Insert
  <2>2. TickOK(tick'[p], lastSeq')
    BY <1>0, <1>14, <2>1 DEF TickOK, Tick
  <2>3. /\ tick' \in [Procs -> Tick]
        /\ \A q \in Procs : TickOK(tick'[q], lastSeq')
    BY <1>14, <2>1, <2>2, TickStepType
  <2>. QED BY <1>14, <2>1, <2>3 DEF TypeOK, TickOK, Working
<1>15. ASSUME NEW e \in Events, Alert(p, e) PROVE TypeOK'
  BY <1>12, <1>14, <1>15 DEF Alert, TypeOK
<1>16. CASE Audit(p)
  <2>1. t.cur \in Pairs /\ t.cur[1] \in Events /\ t.cur[2] \in Handlers
    BY <1>16, TypeBounds DEF Audit, Working, Pairs
  <2>2. TickOK(tick'[p], lastSeq) /\ tick' = [tick EXCEPT ![p] = tick'[p]]
    BY <1>2, <1>16, LoopEffect DEF Audit
  <2>. QED BY <1>14, <1>16, <2>1, <2>2 DEF Audit, TypeOK
<1>. QED
  BY <1>3, <1>4, <1>5, <1>6, <1>7, <1>8, <1>9, <1>10, <1>11, <1>13, <1>15, <1>16 DEF Step

LEMMA FaultTyped ==
  ASSUME TypeOK, NEW p \in Procs, Fault(p) PROVE TypeOK'
<1> DEFINE t == tick[p]
<1>0. /\ lastSeq \in Nat /\ TickOK(t, lastSeq) /\ t.from \in Nat /\ t.snap \in Nat
      /\ claims \subseteq Pairs /\ cursorFile \in 0..(lastSeq + 1) /\ 0 \in 0..(lastSeq + 1)
      /\ faults \in 0..MaxFaults
  BY TypeBounds DEF TypeOK, TickOK, Working
<1>1. /\ faults' \in 0..MaxFaults /\ claims' = claims
      /\ cursorFile' \in {cursorFile, 0}
      /\ UNCHANGED <<hot, lastSeq, invocations, published, audited>>
  BY <1>0, BusAssumption DEF Fault, AuditFails, TickThrows, Crash, CrashWriting
<1>2. TickOK(tick'[p], lastSeq) /\ tick' = [tick EXCEPT ![p] = tick'[p]]
  <2>1. CASE AuditFails(p)
    <3>1. Becomes(p, IF t.pc = "failed" THEN "alert" ELSE "dispatch",
                  t.from, t.snap, t.seen, t.todo, NoPair)
      BY <2>1, LoopEffect DEF AuditFails
    <3>. QED BY <1>0, <3>1 DEF Becomes, TickOK
  <2>2. CASE TickThrows(p) \/ Crash(p) \/ CrashWriting(p)
    <3>1. Restarts(p, "closed", 0) \/ Restarts(p, "rescue", 0)
      BY <2>2, TickEffect
    <3>. QED BY <1>0, <3>1 DEF Restarts, Becomes, TickOK
  <2>. QED BY <2>1, <2>2 DEF Fault
<1>. QED BY <1>0, <1>1, <1>2, TickOnlyType

\* The bus's state stays well typed, and no cursor, walk start or snapshot lies
\* beyond the sequences handed out.
THEOREM BusTypeCorrect == Spec => []TypeOK
<1>1. TypeOK /\ [Next]_vars => TypeOK'
  <2> SUFFICES ASSUME TypeOK, [Next]_vars PROVE TypeOK'
    OBVIOUS
  <2>1. ASSUME NEW e \in Events, Publish(e) PROVE TypeOK'
    BY <2>1, InsertType DEF Publish, TypeOK, Working
  <2>2. ASSUME NEW p \in Procs, NEW rows \in SUBSET hot, Evict(p, rows) PROVE TypeOK'
    BY <2>2 DEF Evict, TypeOK, Working
  <2>3. CASE UNCHANGED vars
    BY <2>3 DEF vars, TypeOK, Working
  <2>. QED BY <2>1, <2>2, <2>3, StepTyped, FaultTyped DEF Next
<1>. QED BY <1>1, InitTyped, PTL DEF Spec

-----------------------------------------------------------------------------
(***************************************************************************)
(* One invocation and one audit per dispatch.                              *)
(***************************************************************************)

LEMMA InsertRows ==
  ASSUME NEW e, NEW h, Insert(e, h)
  PROVE  /\ h = NoHandler => AuditPairs' = AuditPairs
         /\ h # NoHandler => AuditPairs' = AuditPairs \cup {<<e, h>>}
<1> DEFINE new == [seq |-> lastSeq + 1, event |-> e, handler |-> h]
<1>1. hot' = hot \cup {new} /\ new.handler = h /\ PairOf(new) = <<e, h>>
  BY DEF Insert, PairOf
<1> HIDE DEF new
<1>. QED BY <1>1 DEF AuditPairs, AuditRows

\* A step that leaves claims and histories alone, and after which its process is
\* working on no pair.
LEMMA DispatchQuiet ==
  ASSUME TypeOK, TypeOK', DispatchInv, NEW p \in Procs,
         UNCHANGED <<claims, invocations, audited>>, AuditPairs' = AuditPairs,
         \A q \in Procs \ {p} : tick'[q] = tick[q],
         tick'[p].cur = NoPair,
         tick'[p].pc = "closed" \/ tick[p].pc # "closed"
  PROVE  DispatchInv'
<1>1. ~Working(p)'
  BY DEF TypeOK
<1>2. Dispatched' = Dispatched
  BY DEF Dispatched
<1>3. ASSUME NEW q \in Procs PROVE DispatchOf(q)'
  <2>1. DispatchOf(q) /\ DispatchOf(p)
    BY DEF DispatchInv
  <2>2. CASE q = p
    BY <1>1, <1>2, <2>1, <2>2 DEF DispatchOf, Working
  <2>3. CASE q # p
    BY <1>2, <2>1, <2>3 DEF DispatchOf, Working
  <2>. QED BY <2>2, <2>3
<1>4. \A q, r \in Procs :
        Working(q)' /\ Working(r)' /\ q # r => tick'[q].cur # tick'[r].cur
  BY <1>1 DEF DispatchInv, Working
<1>. QED BY <1>2, <1>3, <1>4 DEF DispatchInv, AtMostOnceInvoked

LEMMA OpenKeepsDispatchInv ==
  ASSUME TypeOK, TypeOK', DispatchInv, NEW p \in Procs, Open(p) PROVE DispatchInv'
<1>1. /\ tick'[p].cur = NoPair /\ \A q \in Procs \ {p} : tick'[q] = tick[q]
  BY TickEffect DEF Restarts, Becomes
<1>2. /\ AuditPairs' = AuditPairs /\ Dispatched' = Dispatched
      /\ claims' = claims \cup AuditPairs
      /\ UNCHANGED <<invocations, audited>>
  BY DEF Open, AuditPairs, AuditRows, Dispatched
<1>3. Dispatched' \subseteq claims'
  BY <1>2 DEF DispatchInv
<1>4. ~Working(p)'
  BY <1>1 DEF TypeOK
<1>5. ASSUME NEW q \in Procs PROVE DispatchOf(q)'
  <2>1. DispatchOf(q)
    BY DEF DispatchInv
  <2>2. CASE q = p
    BY <1>3, <1>4, <2>2 DEF DispatchOf, Working
  <2>3. CASE q # p
    BY <1>1, <1>2, <1>3, <2>1, <2>3 DEF DispatchOf, Working
  <2>. QED BY <2>2, <2>3
<1>6. \A q, r \in Procs :
        Working(q)' /\ Working(r)' /\ q # r => tick'[q].cur # tick'[r].cur
  BY <1>1, <1>4 DEF DispatchInv, Working
<1>. QED BY <1>2, <1>3, <1>5, <1>6 DEF DispatchInv, AtMostOnceInvoked

LEMMA EvictKeepsDispatchInv ==
  ASSUME TypeOK, DispatchInv, NEW p \in Procs, NEW rows \in SUBSET hot, Evict(p, rows)
  PROVE  DispatchInv'
<1>1. /\ UNCHANGED <<claims, tick, invocations, audited>> /\ Dispatched' = Dispatched
      /\ AuditPairs' \subseteq AuditPairs
  BY DEF Evict, AuditPairs, AuditRows, Dispatched
<1>2. Dispatched \subseteq claims
  BY DEF Evict, DispatchInv, DispatchOf
<1>. QED BY <1>1, <1>2 DEF DispatchInv, DispatchOf, Working, AtMostOnceInvoked

LEMMA WinClaimKeepsDispatchInv ==
  ASSUME TypeOK, TypeOK', DispatchInv, NEW p \in Procs, NEW d \in tick[p].todo,
         WinClaim(p, d)
  PROVE  DispatchInv'
<1> DEFINE pair == PairOf(d)
<1>1. /\ tick'[p].pc = "claimed" /\ tick'[p].cur = pair
      /\ \A q \in Procs \ {p} : tick'[q] = tick[q]
  BY LoopEffect DEF Becomes
<1>2. /\ claims' = claims \cup {pair} /\ pair \notin claims /\ tick[p].pc = "dispatch"
      /\ UNCHANGED <<hot, invocations, audited>>
  BY DEF WinClaim, IsNextDispatch
<1>3. AuditPairs' = AuditPairs /\ Dispatched' = Dispatched
  BY <1>2 DEF AuditPairs, AuditRows, Dispatched
<1>4. pair \in Pairs
  BY TypeBounds DEF Tick, Dispatch, PairOf, Pairs
<1>5. /\ Dispatched \subseteq claims /\ pair \notin Dispatched
  BY <1>2 DEF DispatchInv, DispatchOf
<1>6. pair \notin audited /\ invocations[pair] = 0
  BY <1>4, <1>5 DEF Dispatched, TypeOK
<1> HIDE DEF pair
<1>7. ASSUME NEW q \in Procs PROVE DispatchOf(q)'
  <2>1. CASE q = p
    BY <1>1, <1>2, <1>3, <1>5, <1>6, <2>1 DEF DispatchOf, Working
  <2>2. CASE q # p
    BY <1>1, <1>2, <1>3, <2>2 DEF DispatchInv, DispatchOf, Working
  <2>. QED BY <2>1, <2>2
<1>8. ASSUME NEW q \in Procs \ {p}, Working(q)' PROVE tick'[q].cur # pair
  BY <1>1, <1>2, <1>8 DEF DispatchInv, DispatchOf, Working
<1>9. \A q, r \in Procs :
        Working(q)' /\ Working(r)' /\ q # r => tick'[q].cur # tick'[r].cur
  BY <1>1, <1>8 DEF DispatchInv, Working
<1>. QED BY <1>2, <1>3, <1>7, <1>9 DEF DispatchInv, AtMostOnceInvoked

\* The handler is invoked for a pair that no other process holds and that was
\* never invoked before.
LEMMA InvokeKeepsDispatchInv ==
  ASSUME TypeOK, TypeOK', DispatchInv, NEW p \in Procs,
         NEW outcome \in {"ok", "failed"}, Invoke(p, outcome)
  PROVE  DispatchInv'
<1> DEFINE pair == tick[p].cur
<1>1. /\ tick'[p].pc = outcome /\ tick'[p].cur = pair
      /\ \A q \in Procs \ {p} : tick'[q] = tick[q]
  BY LoopEffect DEF Becomes
<1>2. /\ tick[p].pc = "claimed" /\ Working(p)
      /\ invocations' = [invocations EXCEPT ![pair] = @ + 1]
      /\ UNCHANGED <<hot, claims, audited>>
  BY DEF Invoke, Working
<1>3. pair \in Pairs /\ pair \in claims \ audited /\ invocations[pair] = 0
  BY <1>2, TypeBounds DEF DispatchInv, DispatchOf
<1> HIDE DEF pair
<1>4. /\ invocations'[pair] = 1
      /\ \A other \in Pairs \ {pair} : invocations'[other] = invocations[other]
  BY <1>2, <1>3 DEF TypeOK
<1>5. AuditPairs' = AuditPairs /\ Dispatched' = Dispatched \cup {pair}
  BY <1>2, <1>3, <1>4 DEF AuditPairs, AuditRows, Dispatched, TypeOK
<1>6. ASSUME NEW q \in Procs PROVE DispatchOf(q)'
  <2>1. CASE q = p
    BY <1>1, <1>2, <1>3, <1>5, <2>1 DEF DispatchInv, DispatchOf, Working
  <2>2. CASE q # p
    <3>1. Working(q) => tick[q].cur # pair /\ tick[q].cur \in Pairs
      BY <1>2, <2>2, TypeBounds DEF DispatchInv, pair
    <3>. QED BY <1>1, <1>2, <1>3, <1>4, <1>5, <2>2, <3>1
             DEF DispatchInv, DispatchOf, Working
  <2>. QED BY <2>1, <2>2
<1>7. \A q, r \in Procs :
        Working(q)' /\ Working(r)' /\ q # r => tick'[q].cur # tick'[r].cur
  BY <1>1, <1>2 DEF DispatchInv, Working, pair
<1>8. AtMostOnceInvoked'
  BY <1>3, <1>4 DEF DispatchInv, AtMostOnceInvoked
<1>. QED BY <1>2, <1>3, <1>5, <1>6, <1>7, <1>8 DEF DispatchInv

LEMMA AuditKeepsDispatchInv ==
  ASSUME TypeOK, TypeOK', DispatchInv, NEW p \in Procs, Audit(p)
  PROVE  DispatchInv'
<1> DEFINE pair == tick[p].cur
<1>1. tick'[p].cur = NoPair /\ \A q \in Procs \ {p} : tick'[q] = tick[q]
  BY LoopEffect DEF Audit, Becomes
<1>2. /\ Working(p) /\ tick[p].pc # "closed"
      /\ audited' = audited \cup {pair}
      /\ UNCHANGED <<claims, invocations>>
  BY DEF Audit, Working
<1>3. /\ pair \in Pairs /\ pair \in claims \ audited /\ pair[2] # NoHandler
      /\ pair = <<pair[1], pair[2]>>
  BY <1>2, TypeBounds, BusAssumption DEF DispatchInv, DispatchOf, Pairs
<1>4. AuditPairs' = AuditPairs \cup {pair}
  BY <1>3, InsertRows DEF Audit
<1>5. Dispatched' = Dispatched \cup {pair}
  BY <1>2 DEF Dispatched
<1>6. ~Working(p)'
  BY <1>1 DEF TypeOK
<1> HIDE DEF pair
<1>7. ASSUME NEW q \in Procs PROVE DispatchOf(q)'
  <2>1. CASE q = p
    BY <1>2, <1>3, <1>5, <1>6, <2>1 DEF DispatchInv, DispatchOf, Working
  <2>2. CASE q # p
    <3>1. Working(q) => tick[q].cur # pair
      BY <1>2, <2>2 DEF DispatchInv, pair
    <3>. QED BY <1>1, <1>2, <1>3, <1>5, <2>2, <3>1 DEF DispatchInv, DispatchOf, Working
  <2>. QED BY <2>1, <2>2
<1>8. \A q, r \in Procs :
        Working(q)' /\ Working(r)' /\ q # r => tick'[q].cur # tick'[r].cur
  BY <1>1, <1>6 DEF DispatchInv, Working
<1>. QED BY <1>2, <1>3, <1>4, <1>5, <1>7, <1>8 DEF DispatchInv, AtMostOnceInvoked

LEMMA StepKeepsDispatchInv ==
  TypeOK /\ TypeOK' /\ DispatchInv /\ [Next]_vars => DispatchInv'
<1> SUFFICES ASSUME TypeOK, TypeOK', DispatchInv, [Next]_vars PROVE DispatchInv'
  OBVIOUS
<1>1. ASSUME NEW e \in Events, Publish(e) PROVE DispatchInv'
  BY <1>1, InsertRows DEF Publish, DispatchInv, DispatchOf, Working, Dispatched,
     AtMostOnceInvoked
<1>2. CASE UNCHANGED vars
  BY <1>2 DEF vars, DispatchInv, DispatchOf, Working, Dispatched, AtMostOnceInvoked,
     AuditPairs, AuditRows
<1>3. ASSUME NEW p \in Procs, NEW n \in Nat, NEW pc, Restarts(p, pc, n),
             UNCHANGED <<hot, claims, invocations, audited>>,
             pc = "closed" \/ tick[p].pc # "closed"
      PROVE  DispatchInv'
  BY <1>3, DispatchQuiet DEF Restarts, Becomes, AuditPairs, AuditRows
<1>4. ASSUME NEW p \in Procs,
             \/ ReadCursor(p) \/ FinishRun(p) \/ WriteCursor(p) \/ TickThrows(p)
             \/ Crash(p) \/ CrashWriting(p) \/ \E n \in 0..lastSeq : StartRun(p, n)
      PROVE  DispatchInv'
  <2>1. \E n \in Nat, pc \in {"closed", "open", "fold", "rescue"} : Restarts(p, pc, n)
    BY <1>4, TickEffect DEF TypeOK
  <2>2. /\ tick[p].pc # "closed" \/ TickThrows(p)
        /\ TickThrows(p) => tick[p].pc # "closed"
        /\ UNCHANGED <<hot, claims, invocations, audited>>
    BY <1>4 DEF ReadCursor, StartRun, FinishRun, WriteCursor, TickThrows, Crash,
       CrashWriting, TickDone
  <2>. QED BY <1>3, <2>1, <2>2
<1>5. ASSUME NEW p \in Procs, Prefold(p) \/ Walk(p) \/ AlertFails(p) \/ AuditFails(p)
               \/ (\E n \in 0..lastSeq : Snapshot(p, n))
               \/ (\E d \in tick[p].todo : LoseClaim(p, d))
      PROVE  DispatchInv'
  <2>1. /\ tick[p].pc # "closed"
        /\ tick[p].cur = NoPair \/ AuditFails(p)
        /\ UNCHANGED <<hot, claims, invocations, audited>>
    BY <1>5, TypeBounds DEF Prefold, Walk, AlertFails, AuditFails, Snapshot, LoseClaim,
       IsNextDispatch, AfterAlert, Working
  <2>2. tick'[p].cur = NoPair /\ \A q \in Procs \ {p} : tick'[q] = tick[q]
    BY <1>5, <2>1, LoopEffect, WalkEffect DEF AlertFails, AuditFails, Restarts, Becomes
  <2>. QED BY <2>1, <2>2, DispatchQuiet DEF AuditPairs, AuditRows
<1>6. ASSUME NEW p \in Procs, NEW e \in Events, Alert(p, e) PROVE DispatchInv'
  <2>1. /\ tick[p].pc # "closed" /\ tick[p].cur = NoPair
        /\ UNCHANGED <<claims, invocations, audited>> /\ AuditPairs' = AuditPairs
    BY <1>6, TypeBounds, InsertRows DEF Alert, AfterAlert, Working
  <2>2. tick'[p].cur = NoPair /\ \A q \in Procs \ {p} : tick'[q] = tick[q]
    BY <1>6, <2>1, LoopEffect DEF Alert, Restarts, Becomes
  <2>. QED BY <2>1, <2>2, DispatchQuiet
<1>. QED
  BY <1>1, <1>2, <1>4, <1>5, <1>6, OpenKeepsDispatchInv, EvictKeepsDispatchInv,
     WinClaimKeepsDispatchInv, InvokeKeepsDispatchInv, AuditKeepsDispatchInv
  DEF Next, Step, Fault

LEMMA InitDispatchInv == Init => DispatchInv
<1> SUFFICES ASSUME Init PROVE DispatchInv
  OBVIOUS
<1>1. PICK legacy \in {{}} \cup {{pair} : pair \in Pairs} :
         /\ hot = LegacyRows(legacy)
         /\ audited = legacy
         /\ invocations = [pair \in Pairs |-> IF pair \in legacy THEN 1 ELSE 0]
  BY DEF Init
<1>2. \A pair \in legacy : pair \in Pairs /\ pair[2] \in Handlers
                           /\ pair = <<pair[1], pair[2]>>
  BY <1>1 DEF Pairs
<1>3. AuditPairs = legacy
  <2>1. \A pair \in legacy :
          LET r == [seq |-> 1, event |-> pair[1], handler |-> pair[2]] IN
          PairOf(r) = pair /\ r.handler # NoHandler
    BY <1>2, BusAssumption DEF PairOf
  <2>. QED BY <1>1, <2>1 DEF AuditPairs, AuditRows, LegacyRows
<1>4. Dispatched = legacy
  BY <1>1, <1>2 DEF Dispatched
<1>5. \A p \in Procs : tick[p].pc = "closed"
  BY AtType DEF Init
<1>. QED BY <1>1, <1>3, <1>4, <1>5 DEF DispatchInv, DispatchOf, Working, AtMostOnceInvoked

\* At most one invocation per (event, handler) pair, ever: whatever the number of
\* concurrent ticks, their crashes, and the archiving of events and audits.
THEOREM BusAtMostOnce == Spec => []AtMostOnceInvoked
<1>1. DispatchInv => AtMostOnceInvoked
  BY DEF DispatchInv
<1>. QED
  BY <1>1, InitDispatchInv, StepKeepsDispatchInv, BusTypeCorrect, PTL DEF Spec

\* No second BusDispatched row is ever appended for a pair.
THEOREM BusAuditedOnce == Spec => AuditedOnce
<1>1. TypeOK /\ DispatchInv /\ [Next]_vars =>
        [\A r \in hot' \ hot : r.handler # NoHandler => PairOf(r) \notin audited]_vars
  <2> SUFFICES ASSUME TypeOK, DispatchInv, [Next]_vars,
                      NEW r \in hot' \ hot, r.handler # NoHandler
               PROVE  PairOf(r) \notin audited
    OBVIOUS
  <2>1. ASSUME NEW e, Insert(e, NoHandler) PROVE FALSE
    BY <2>1 DEF Insert
  <2>2. ASSUME NEW p \in Procs, Audit(p) PROVE PairOf(r) \notin audited
    <3> DEFINE pair == tick[p].cur
    <3>1. pair \in Pairs /\ pair \notin audited /\ pair = <<pair[1], pair[2]>>
      BY <2>2, TypeBounds DEF Audit, Working, DispatchInv, DispatchOf, Pairs
    <3>2. r = [seq |-> lastSeq + 1, event |-> pair[1], handler |-> pair[2]]
      BY <2>2 DEF Audit, Insert
    <3>. QED BY <3>1, <3>2 DEF PairOf
  <2>3. CASE hot' \subseteq hot
    BY <2>3
  <2>4. \/ hot' \subseteq hot
        \/ \E e : Insert(e, NoHandler)
        \/ \E p \in Procs : Audit(p)
    BY DEF Next, Step, Fault, vars, Publish, Evict, Open, ReadCursor, StartRun, Prefold,
       Snapshot, Walk, WinClaim, LoseClaim, Invoke, Alert, AlertFails, FinishRun,
       WriteCursor, AuditFails, TickThrows, Crash, CrashWriting
  <2>. QED BY <2>1, <2>2, <2>3, <2>4
<1>. QED
  BY <1>1, InitDispatchInv, StepKeepsDispatchInv, BusTypeCorrect, PTL
  DEF Spec, AuditedOnce

-----------------------------------------------------------------------------
(***************************************************************************)
(* The bus implements the at-most-once dispatcher.                         *)
(***************************************************************************)

\* Only an open, a won claim, an invocation and an audit touch claims and histories.
LEMMA DispatchSteps ==
  ASSUME [Next]_vars
  PROVE  \/ UNCHANGED <<claims, invocations, audited>>
         \/ \E p \in Procs :
              \/ Open(p) \/ Audit(p)
              \/ \E d \in tick[p].todo : WinClaim(p, d)
              \/ \E outcome \in {"ok", "failed"} : Invoke(p, outcome)
<1>1. ASSUME NEW p \in Procs, Step(p) \/ Fault(p)
      PROVE  \/ UNCHANGED <<claims, invocations, audited>>
             \/ Open(p) \/ Audit(p)
             \/ \E d \in tick[p].todo : WinClaim(p, d)
             \/ \E outcome \in {"ok", "failed"} : Invoke(p, outcome)
  BY <1>1 DEF Step, Fault, ReadCursor, Prefold, Snapshot, Walk, LoseClaim, Alert,
     AlertFails, FinishRun, WriteCursor, AuditFails, TickThrows, Crash, CrashWriting
<1>. QED BY <1>1 DEF Next, vars, Publish, Evict, StartRun

\* A won claim begins a pair that was neither claimed nor audited; an invocation runs
\* a pair that was begun and did not run; nothing else shows.
LEMMA DispatchRefines ==
  ASSUME TypeOK, DispatchInv, [Next]_vars
  PROVE  [Dispatches!Next]_<<claims \cup audited, invocations>>
<1>1. ASSUME NEW p \in Procs, Open(p) \/ Audit(p)
      PROVE  UNCHANGED <<claims \cup audited, invocations>>
  <2>1. CASE Open(p)
    BY <2>1 DEF Open, DispatchInv
  <2>2. CASE Audit(p)
    BY <2>2 DEF Audit, DispatchInv, DispatchOf, Working
  <2>. QED BY <1>1, <2>1, <2>2
<1>2. ASSUME NEW p \in Procs, NEW d \in tick[p].todo, WinClaim(p, d)
      PROVE  Dispatches!Next
  <2> DEFINE pair == PairOf(d)
  <2>1. pair \in Pairs
    BY TypeBounds DEF Tick, Dispatch, PairOf, Pairs
  <2>2. /\ pair \notin claims /\ claims' = claims \cup {pair}
        /\ tick[p].pc # "closed" /\ UNCHANGED <<audited, invocations>>
    BY <1>2 DEF WinClaim, IsNextDispatch
  <2>3. pair \notin audited
    BY <2>2 DEF DispatchInv, DispatchOf, Dispatched
  <2> HIDE DEF pair
  <2>4. Dispatches!Begin(pair)
    BY <2>2, <2>3 DEF Dispatches!Begin
  <2>. QED BY <2>1, <2>4 DEF Dispatches!Next
<1>3. ASSUME NEW p \in Procs, NEW outcome \in {"ok", "failed"}, Invoke(p, outcome)
      PROVE  Dispatches!Next
  <2> DEFINE pair == tick[p].cur
  <2>1. /\ Working(p) /\ tick[p].pc = "claimed"
        /\ invocations' = [invocations EXCEPT ![pair] = @ + 1]
        /\ UNCHANGED <<claims, audited>>
    BY <1>3 DEF Invoke, Working
  <2>2. pair \in Pairs /\ pair \in claims /\ invocations[pair] = 0
    BY <2>1, TypeBounds DEF DispatchInv, DispatchOf
  <2> HIDE DEF pair
  <2>3. Dispatches!Run(pair)
    BY <2>1, <2>2 DEF Dispatches!Run
  <2>. QED BY <2>2, <2>3 DEF Dispatches!Next
<1>. QED BY <1>1, <1>2, <1>3, DispatchSteps

LEMMA InitRefines == Init => Dispatches!Init
<1> SUFFICES ASSUME Init PROVE Dispatches!Init
  OBVIOUS
<1>1. PICK legacy \in {{}} \cup {{pair} : pair \in Pairs} :
         /\ audited = legacy
         /\ invocations = [pair \in Pairs |-> IF pair \in legacy THEN 1 ELSE 0]
  BY DEF Init
<1>2. claims \cup audited = legacy /\ legacy \subseteq Pairs
  BY <1>1 DEF Init
<1>. QED BY <1>1, <1>2 DEF Dispatches!Init

\* The bus implements the at-most-once dispatcher: a pair is won once and for good, and
\* its handler is invoked only after that and once, for any number of bus:tick and
\* agent-running processes, archived and returning events, faults, and the audits of
\* program versions without claims.
THEOREM BusImplementsAtMostOnce == Spec => ImplementsAtMostOnce
<1>1. /\ TypeOK /\ DispatchInv /\ [Next]_vars
      => [Dispatches!Next]_<<claims \cup audited, invocations>>
  BY DispatchRefines
<1>. QED
  BY <1>1, InitRefines, InitDispatchInv, StepKeepsDispatchInv, BusTypeCorrect, PTL
  DEF Spec, ImplementsAtMostOnce, Dispatches!Spec

-----------------------------------------------------------------------------
(***************************************************************************)
(* The cursor never passes over a dispatch.                                *)
(***************************************************************************)

\* What is covered stays covered: claims only grow, and new rows lie above the
\* sequences handed out so far.
LEMMA CoverFrame ==
  ASSUME NEW n \in Nat, lastSeq \in Nat, n <= lastSeq + 1, Covered(n),
         claims \subseteq claims',
         \A r \in SourceRows' : r.seq \in Nat /\ (r \in SourceRows \/ r.seq > lastSeq)
  PROVE  \A r \in SourceRows' : r.seq < n =>
           \A h \in SubscribersOf[r.event] : <<r.event, h>> \in claims'
<1> SUFFICES ASSUME NEW r \in SourceRows', r.seq < n
             PROVE  \A h \in SubscribersOf[r.event] : <<r.event, h>> \in claims'
  OBVIOUS
<1>1. r \in SourceRows
  OBVIOUS
<1>. QED BY <1>1 DEF Covered

LEMMA CursorFrame ==
  ASSUME TypeOK, NEW q \in Procs, CursorOf(q), tick'[q] = tick[q],
         claims \subseteq claims',
         \A r \in SourceRows' : r.seq \in Nat /\ (r \in SourceRows \/ r.seq > lastSeq)
  PROVE  CursorOf(q)'
<1>1. /\ lastSeq \in Nat /\ tick[q].from \in Nat /\ tick[q].snap \in Nat
      /\ tick[q].from <= lastSeq + 1 /\ tick[q].snap <= lastSeq
  BY TypeBounds
<1>2. q \in Tickers => Covered(tick[q].from)'
  BY <1>1, CoverFrame DEF CursorOf, Covered
<1>3. ASSUME q \in Tickers, HasWalked(q), NEW r \in SourceRows', r.seq <= tick[q].snap,
             NEW h \in SubscribersOf[r.event]
      PROVE  <<r.event, h>> \in claims' \cup {PairOf(d) : d \in tick[q].todo}
  <2>1. r \in SourceRows
    BY <1>1, <1>3
  <2>. QED BY <1>3, <2>1 DEF CursorOf
<1>. QED BY <1>2, <1>3 DEF CursorOf, HasWalked

\* New rows are numbered above all others.
LEMMA RowFrame ==
  ASSUME TypeOK, TypeOK', CursorInv, [Next]_vars
  PROVE  /\ \A r \in hot' : r.seq <= lastSeq'
         /\ \A r \in SourceRows' : r.seq \in Nat /\ (r \in SourceRows \/ r.seq > lastSeq)
         /\ claims \subseteq claims'
<1>1. /\ lastSeq \in Nat
      /\ \A r \in hot : r.seq \in Nat /\ r.seq <= lastSeq
      /\ \A r \in hot' : r.seq \in Nat
  BY DEF TypeOK, Row, CursorInv
<1>2. \/ hot' \subseteq hot /\ lastSeq' = lastSeq
      \/ \E e, h : Insert(e, h)
  <2>1. CASE UNCHANGED vars
    BY <2>1 DEF vars
  <2>2. ASSUME NEW e \in Events, Publish(e)
        PROVE  Insert(e, NoHandler)
    BY <2>2 DEF Publish
  <2>3. ASSUME NEW p \in Procs, NEW rows \in SUBSET hot, Evict(p, rows)
        PROVE  hot' \subseteq hot /\ lastSeq' = lastSeq
    BY <2>3 DEF Evict
  <2>4. ASSUME NEW p \in Procs, NEW n \in 0..lastSeq, StartRun(p, n)
        PROVE  hot' \subseteq hot /\ lastSeq' = lastSeq
    BY <2>4 DEF StartRun
  <2>5. ASSUME NEW p \in Procs, Step(p)
        PROVE  \/ hot' \subseteq hot /\ lastSeq' = lastSeq
               \/ \E e, h : Insert(e, h)
    <3>1. CASE Audit(p)
      BY <3>1 DEF Audit
    <3>2. ASSUME NEW e \in Events, Alert(p, e)
          PROVE  Insert(e, NoHandler)
      BY <3>2 DEF Alert
    <3>3. ASSUME NEW d \in tick[p].todo, WinClaim(p, d) \/ LoseClaim(p, d)
          PROVE  hot' \subseteq hot /\ lastSeq' = lastSeq
      BY <3>3 DEF WinClaim, LoseClaim
    <3>4. ASSUME \/ Open(p) \/ ReadCursor(p) \/ Prefold(p) \/ Walk(p)
                 \/ AlertFails(p) \/ FinishRun(p) \/ WriteCursor(p)
          PROVE  hot' \subseteq hot /\ lastSeq' = lastSeq
      BY <3>4 DEF Open, ReadCursor, Prefold, Walk, AlertFails, FinishRun, WriteCursor
    <3>5. ASSUME NEW n \in 0..lastSeq, Snapshot(p, n)
          PROVE  hot' \subseteq hot /\ lastSeq' = lastSeq
      BY <3>5 DEF Snapshot
    <3>6. ASSUME NEW outcome \in {"ok", "failed"}, Invoke(p, outcome)
          PROVE  hot' \subseteq hot /\ lastSeq' = lastSeq
      BY <3>6 DEF Invoke
    <3>. QED BY <2>5, <3>1, <3>2, <3>3, <3>4, <3>5, <3>6 DEF Step
  <2>6. ASSUME NEW p \in Procs, Fault(p)
        PROVE  hot' \subseteq hot /\ lastSeq' = lastSeq
    BY <2>6 DEF Fault, AuditFails, TickThrows, Crash, CrashWriting
  <2>. QED BY <2>1, <2>2, <2>3, <2>4, <2>5, <2>6 DEF Next
<1>3. ASSUME hot' \subseteq hot, lastSeq' = lastSeq
      PROVE  /\ \A r \in hot' : r.seq <= lastSeq'
             /\ \A r \in SourceRows' : r \in SourceRows \/ r.seq > lastSeq
  BY <1>1, <1>3 DEF SourceRows
<1>4. ASSUME NEW e, NEW h, Insert(e, h)
      PROVE  /\ \A r \in hot' : r.seq <= lastSeq'
             /\ \A r \in SourceRows' : r \in SourceRows \/ r.seq > lastSeq
  <2> DEFINE new == [seq |-> lastSeq + 1, event |-> e, handler |-> h]
  <2>1. hot' = hot \cup {new} /\ new.seq = lastSeq + 1 /\ lastSeq' = lastSeq + 1
    BY <1>4 DEF Insert
  <2> HIDE DEF new
  <2>. QED BY <1>1, <2>1 DEF SourceRows
<1>5. claims \subseteq claims'
  <2>1. CASE UNCHANGED vars
    BY <2>1 DEF vars
  <2>2. ASSUME NEW e \in Events, Publish(e)
        PROVE  claims' = claims
    BY <2>2 DEF Publish
  <2>3. ASSUME NEW p \in Procs, \/ \E rows \in SUBSET hot : Evict(p, rows)
                                \/ \E n \in 0..lastSeq : StartRun(p, n)
                                \/ Fault(p)
        PROVE  claims' = claims
    BY <2>3 DEF Evict, StartRun, Fault, AuditFails, TickThrows, Crash, CrashWriting
  <2>4. ASSUME NEW p \in Procs, Step(p)
        PROVE  claims \subseteq claims'
    BY <2>4 DEF Step, Open, ReadCursor, Prefold, Snapshot, Walk, WinClaim, LoseClaim,
       Invoke, Audit, Alert, AlertFails, FinishRun, WriteCursor
  <2>. QED BY <2>1, <2>2, <2>3, <2>4 DEF Next
<1>6. \A r \in SourceRows' : r.seq \in Nat
  BY <1>1 DEF SourceRows
<1>. QED BY <1>2, <1>3, <1>4, <1>5, <1>6

\* A tick that starts, or is over, has claimed nothing to be covered but what lies
\* below its start.
LEMMA RestartCursorOf ==
  ASSUME TypeOK', NEW p \in Procs, NEW pc \in {"closed", "open", "fold", "rescue"},
         NEW n, Restarts(p, pc, n), n = 0 \/ (p \in Tickers => Covered(n)')
  PROVE  CursorOf(p)'
<1>1. \A r \in SourceRows' : ~(r.seq < 0)
  BY DEF SourceRows, TypeOK, Row
<1>. QED BY <1>1 DEF CursorOf, Restarts, Becomes, HasWalked, Covered

\* A tick that moves on with the same start, snapshot and list.
LEMMA MoveCursorOf ==
  ASSUME TypeOK, NEW p \in Procs, CursorOf(p), NEW pc, NEW snap, NEW todo, NEW cur,
         Becomes(p, pc, tick[p].from, snap, tick[p].seen, todo, cur),
         HasWalked(p)' => /\ HasWalked(p) /\ snap = tick[p].snap
                          /\ \A d \in tick[p].todo : d \in todo \/ PairOf(d) \in claims',
         claims \subseteq claims',
         \A r \in SourceRows' : r.seq \in Nat /\ (r \in SourceRows \/ r.seq > lastSeq)
  PROVE  CursorOf(p)'
<1>1. /\ lastSeq \in Nat /\ tick[p].from \in Nat /\ tick[p].snap \in Nat
      /\ tick[p].from <= lastSeq + 1 /\ tick[p].snap <= lastSeq
  BY TypeBounds
<1>2. p \in Tickers => Covered(tick[p].from)'
  <2>1. p \in Tickers => Covered(tick[p].from)
    BY DEF CursorOf
  <2>2. tick'[p].from = tick[p].from
    BY DEF Becomes
  <2>. QED BY <1>1, <2>1, <2>2, CoverFrame DEF Covered
<1>3. ASSUME p \in Tickers, HasWalked(p)', NEW r \in SourceRows', r.seq <= snap,
             NEW h \in SubscribersOf[r.event]
      PROVE  <<r.event, h>> \in claims' \cup {PairOf(d) : d \in todo}
  <2>1. r \in SourceRows /\ r.seq <= tick[p].snap
    BY <1>1, <1>3
  <2>2. <<r.event, h>> \in claims \cup {PairOf(d) : d \in tick[p].todo}
    BY <1>3, <2>1 DEF CursorOf
  <2>. QED BY <1>3, <2>2
<1>. QED BY <1>2, <1>3 DEF CursorOf, Becomes

\* After the walk, every due dispatch up to the snapshot is claimed or on the list.
LEMMA WalkCursorOf ==
  ASSUME TypeOK, NEW p \in Procs, CursorOf(p), Walk(p) PROVE CursorOf(p)'
<1> DEFINE t == tick[p]
<1>1. t.from \in Nat /\ t.snap \in Nat
  BY TypeBounds
<1>2. PICK due \in SUBSET Dispatch :
        /\ Becomes(p, "dispatch", t.from, t.snap, {}, due, t.cur)
        /\ \A r \in WalkedRows(t.from, t.snap) \cap SourceRows :
             \A h \in SubscribersOf[r.event] :
               <<r.event, h>> \in t.seen \cup {PairOf(d) : d \in due}
  BY WalkEffect
<1>3. UNCHANGED <<hot, claims>>
  BY DEF Walk
<1>4. ASSUME p \in Tickers, NEW r \in SourceRows, r.seq <= t.snap,
             NEW h \in SubscribersOf[r.event]
      PROVE  <<r.event, h>> \in claims \cup {PairOf(d) : d \in due}
  <2>0. r \in hot /\ r.seq \in Nat
    BY DEF SourceRows, TypeOK, Row
  <2>1. CASE r.seq < t.from
    BY <1>4, <2>1 DEF CursorOf, Covered
  <2>2. CASE t.from <= r.seq
    <3>1. r \in WalkedRows(t.from, t.snap)
      BY <1>1, <1>4, <2>0, <2>2, WalkReaches
    <3>. QED BY <1>2, <1>4, <3>1 DEF CursorOf
  <2>. QED BY <1>1, <2>0, <2>1, <2>2
<1>. QED BY <1>2, <1>3, <1>4 DEF CursorOf, Becomes, Covered, SourceRows

LEMMA StepKeepsCursorInv ==
  TypeOK /\ TypeOK' /\ DispatchInv /\ CursorInv /\ [Next]_vars => CursorInv'
<1> SUFFICES ASSUME TypeOK, TypeOK', DispatchInv, CursorInv, [Next]_vars
             PROVE  CursorInv'
  OBVIOUS
<1>1. /\ \A r \in hot' : r.seq <= lastSeq'
      /\ \A r \in SourceRows' : r.seq \in Nat /\ (r \in SourceRows \/ r.seq > lastSeq)
      /\ claims \subseteq claims'
  BY RowFrame
<1>2. cursorFile' = cursorFile => CursorSafe'
  BY <1>1, CoverFrame DEF CursorInv, CursorSafe, Covered, TypeOK
<1>3. ASSUME NEW p \in Procs, \A q \in Procs \ {p} : tick'[q] = tick[q],
             CursorSafe', CursorOf(p)'
      PROVE  CursorInv'
  BY <1>1, <1>3, CursorFrame DEF CursorInv
<1>4. CASE UNCHANGED tick /\ UNCHANGED cursorFile
  BY <1>1, <1>2, <1>4, CursorFrame DEF CursorInv
<1>5. ASSUME NEW p \in Procs, Open(p) \/ FinishRun(p) \/ Crash(p) \/ TickThrows(p)
      PROVE  CursorInv'
  <2>1. \E pc \in {"closed", "open", "rescue"} : Restarts(p, pc, 0)
    BY <1>5, TickEffect
  <2>2. CursorOf(p)' /\ \A q \in Procs \ {p} : tick'[q] = tick[q]
    BY <2>1, RestartCursorOf DEF Restarts, Becomes
  <2>. QED BY <1>2, <1>3, <1>5, <2>2 DEF Open, FinishRun, Crash, TickThrows
<1>6. ASSUME NEW p \in Procs, ReadCursor(p) PROVE CursorInv'
  <2>1. Restarts(p, "fold", cursorFile) /\ cursorFile' = cursorFile
    BY <1>6, TickEffect DEF ReadCursor
  <2>2. CursorSafe'
    BY <1>2, <2>1
  <2>3. Covered(cursorFile)'
    BY <2>2 DEF CursorSafe
  <2>4. CursorOf(p)' /\ \A q \in Procs \ {p} : tick'[q] = tick[q]
    BY <2>1, <2>3, RestartCursorOf DEF Restarts, Becomes, Covered
  <2>. QED BY <1>3, <2>2, <2>4
<1>7. ASSUME NEW p \in Procs, NEW n \in 0..lastSeq, StartRun(p, n) PROVE CursorInv'
  <2>1. Restarts(p, "fold", n + 1) /\ cursorFile' = cursorFile /\ p \notin Tickers
    BY <1>7, TickEffect, BusAssumption DEF StartRun
  <2>2. CursorOf(p)' /\ \A q \in Procs \ {p} : tick'[q] = tick[q]
    BY <2>1, RestartCursorOf DEF Restarts, Becomes
  <2>. QED BY <1>2, <1>3, <2>1, <2>2
<1>8. ASSUME NEW p \in Procs, WriteCursor(p) PROVE CursorInv'
  <2>1. /\ Restarts(p, "closed", 0) /\ p \in Tickers /\ HasWalked(p) /\ tick[p].todo = {}
        /\ cursorFile' = tick[p].snap + 1 /\ tick[p].snap \in Nat
        /\ UNCHANGED <<hot, claims>>
    BY <1>8, TickEffect, TypeBounds DEF WriteCursor, NextCursor, TickDone, HasWalked
  <2>2. CursorOf(p)
    BY DEF CursorInv
  <2>3. \A r \in SourceRows : r.seq < tick[p].snap + 1 =>
          \A h \in SubscribersOf[r.event] : <<r.event, h>> \in claims
    <3>1. \A r \in SourceRows : r.seq \in Nat
      BY DEF SourceRows, TypeOK, Row
    <3>2. \A r \in SourceRows : r.seq < tick[p].snap + 1 => r.seq <= tick[p].snap
      BY <2>1, <3>1
    <3>. QED BY <2>1, <2>2, <3>2 DEF CursorOf
  <2>4. CursorSafe'
    BY <2>1, <2>3 DEF CursorSafe, Covered, SourceRows
  <2>5. CursorOf(p)' /\ \A q \in Procs \ {p} : tick'[q] = tick[q]
    BY <2>1, RestartCursorOf DEF Restarts, Becomes
  <2>. QED BY <1>3, <2>4, <2>5
<1>9. ASSUME NEW p \in Procs, CrashWriting(p) PROVE CursorInv'
  <2>1. Restarts(p, "closed", 0) /\ cursorFile' = 0
    BY <1>9, TickEffect DEF CrashWriting
  <2>2. \A r \in SourceRows' : ~(r.seq < 0)
    BY <1>1
  <2>3. CursorSafe'
    BY <2>1, <2>2 DEF CursorSafe, Covered
  <2>4. CursorOf(p)' /\ \A q \in Procs \ {p} : tick'[q] = tick[q]
    BY <2>1, RestartCursorOf DEF Restarts, Becomes
  <2>. QED BY <1>3, <2>3, <2>4
<1>10. ASSUME NEW p \in Procs, Prefold(p) PROVE CursorInv'
  <2>1. /\ Becomes(p, "snapshot", tick[p].from, tick[p].snap, AuditPairs, tick[p].todo,
                   tick[p].cur)
        /\ tick[p].pc # "closed"
        /\ UNCHANGED <<hot, claims, cursorFile>>
    BY <1>10, LoopEffect DEF Prefold
  <2>2. AuditPairs \subseteq claims
    BY <2>1 DEF DispatchInv, DispatchOf, Dispatched
  <2>3. CursorOf(p)'
    BY <2>1, <2>2 DEF CursorInv, CursorOf, Becomes, HasWalked, Covered, SourceRows
  <2>. QED BY <1>2, <1>3, <2>1, <2>3 DEF Becomes
<1>11. ASSUME NEW p \in Procs, Walk(p) PROVE CursorInv'
  <2>1. CursorOf(p)'
    BY <1>11, WalkCursorOf DEF CursorInv
  <2>2. cursorFile' = cursorFile /\ \A q \in Procs \ {p} : tick'[q] = tick[q]
    BY <1>11, WalkEffect DEF Walk, Becomes
  <2>. QED BY <1>2, <1>3, <2>1, <2>2
<1>12. ASSUME NEW p \in Procs, NEW pc, NEW snap, NEW todo, NEW cur,
              Becomes(p, pc, tick[p].from, snap, tick[p].seen, todo, cur),
              HasWalked(p)' => /\ HasWalked(p) /\ snap = tick[p].snap
                               /\ \A d \in tick[p].todo : d \in todo \/ PairOf(d) \in claims',
              cursorFile' = cursorFile
       PROVE  CursorInv'
  <2>1. CursorOf(p)'
    BY <1>1, <1>12, MoveCursorOf DEF CursorInv
  <2>. QED BY <1>2, <1>3, <1>12, <2>1 DEF Becomes
<1>13. ASSUME NEW p \in Procs, NEW n \in 0..lastSeq, Snapshot(p, n) PROVE CursorInv'
  <2>1. /\ Becomes(p, "walk", tick[p].from, n, tick[p].seen, tick[p].todo, tick[p].cur)
        /\ cursorFile' = cursorFile
    BY <1>13, LoopEffect DEF Snapshot
  <2>2. ~HasWalked(p)'
    BY <2>1 DEF Becomes, HasWalked
  <2>. QED BY <1>12, <2>1, <2>2
<1>14. ASSUME NEW p \in Procs, NEW d \in tick[p].todo, WinClaim(p, d) \/ LoseClaim(p, d)
       PROVE  CursorInv'
  <2>1. \E pc, cur : Becomes(p, pc, tick[p].from, tick[p].snap, tick[p].seen,
                             tick[p].todo \ {d}, cur)
    BY <1>14, LoopEffect
  <2>2. HasWalked(p) /\ cursorFile' = cursorFile /\ PairOf(d) \in claims'
    BY <1>14 DEF WinClaim, LoseClaim, IsNextDispatch, HasWalked
  <2>. QED BY <1>12, <2>1, <2>2
<1>15. ASSUME NEW p \in Procs, Audit(p) \/ AuditFails(p)
                \/ \E outcome \in {"ok", "failed"} : Invoke(p, outcome)
       PROVE  CursorInv'
  <2>1. \E pc, cur : Becomes(p, pc, tick[p].from, tick[p].snap, tick[p].seen,
                             tick[p].todo, cur)
    BY <1>15, LoopEffect DEF Audit, AuditFails
  <2>2. HasWalked(p) /\ cursorFile' = cursorFile
    BY <1>15 DEF Audit, AuditFails, Invoke, HasWalked
  <2>. QED BY <1>12, <2>1, <2>2
<1>16. ASSUME NEW p \in Procs, AlertFails(p) \/ \E e \in Events : Alert(p, e)
       PROVE  CursorInv'
  <2>0. cursorFile' = cursorFile /\ AfterAlert(p)
    BY <1>16 DEF AlertFails, Alert
  <2>1. CASE tick[p].pc = "alert"
    <3>1. Becomes(p, "dispatch", tick[p].from, tick[p].snap, tick[p].seen, tick[p].todo,
                  tick[p].cur)
      BY <2>0, <2>1, LoopEffect
    <3>2. HasWalked(p)
      BY <2>1 DEF HasWalked
    <3>. QED BY <1>12, <2>0, <3>1, <3>2
  <2>2. CASE tick[p].pc = "rescue"
    <3>1. Restarts(p, "open", 0)
      BY <2>0, <2>2, LoopEffect
    <3>2. CursorOf(p)' /\ \A q \in Procs \ {p} : tick'[q] = tick[q]
      BY <3>1, RestartCursorOf DEF Restarts, Becomes
    <3>. QED BY <1>2, <1>3, <2>0, <3>2
  <2>. QED BY <2>0, <2>1, <2>2 DEF AfterAlert
<1>17. (\E e \in Events : Publish(e))
       \/ (\E p \in Procs : \E rows \in SUBSET hot : Evict(p, rows)) \/ UNCHANGED vars
         => UNCHANGED tick /\ UNCHANGED cursorFile
  BY DEF Publish, Evict, vars
<1>. QED
  BY <1>4, <1>5, <1>6, <1>7, <1>8, <1>9, <1>10, <1>11, <1>13, <1>14, <1>15, <1>16, <1>17
  DEF Next, Step, Fault

LEMMA InitCursorInv == Init => CursorInv
<1> SUFFICES ASSUME Init PROVE CursorInv
  OBVIOUS
<1>0. TypeOK
  BY InitTyped
<1>1. SourceRows = {}
  BY BusAssumption DEF Init, SourceRows, LegacyRows, Pairs
<1>2. \A r \in hot : r.seq <= lastSeq
  <2>1. PICK legacy \in {{}} \cup {{pair} : pair \in Pairs} :
           hot = LegacyRows(legacy) /\ lastSeq = Cardinality(legacy)
    BY DEF Init
  <2>2. CASE legacy = {}
    BY <2>1, <2>2 DEF LegacyRows
  <2>3. CASE \E pair \in Pairs : legacy = {pair}
    <3>1. PICK pair \in Pairs : legacy = {pair}
      BY <2>3
    <3>2. Cardinality({pair}) = 1
      BY FS_Singleton
    <3>. QED BY <2>1, <3>1, <3>2 DEF LegacyRows
  <2>. QED BY <2>1, <2>2, <2>3
<1>3. \A p \in Procs : tick[p].seen = {}
  BY AtType DEF Init
<1>. QED BY <1>1, <1>2, <1>3 DEF CursorInv, CursorSafe, CursorOf, Covered

\* The cursor file never passes over a dispatch: concurrent bus:tick processes,
\* a cursor written late, gaps in the sequence and crashes included.
THEOREM BusCursorSafe == Spec => []CursorSafe
<1>1. CursorInv => CursorSafe
  BY DEF CursorInv
<1>. QED
  BY <1>1, InitDispatchInv, StepKeepsDispatchInv, InitCursorInv, StepKeepsCursorInv,
     BusTypeCorrect, PTL DEF Spec
=============================================================================

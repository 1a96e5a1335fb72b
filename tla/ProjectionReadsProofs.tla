------------------------ MODULE ProjectionReadsProofs ------------------------
(***************************************************************************)
(* Proofs about ProjectionReads: its invariants hold for every number of   *)
(* processes, events, archived events and snapshots kept, for every cadence*)
(* and however far events are dated ahead of the clock.                    *)
(***************************************************************************)
EXTENDS ProjectionReads, TLAPS, FiniteSetTheorems, NaturalsInduction

(***************************************************************************)
(* The log, the table and the excuses only grow, but for what is archived. *)
(***************************************************************************)

Extended ==
    /\ Len(log) \in Nat /\ Len(log') \in Nat /\ Len(log) <= Len(log')
    /\ \A n \in 1..Len(log) : log'[n] = log[n]
    /\ hot' \subseteq 1..Len(log')
    /\ \A n \in hot' : n <= Len(log) => n \in hot
    /\ \A st \in Streams : written[st] \subseteq written'[st]
    /\ reloaded \subseteq reloaded'

LEMMA HotFacts ==
    ASSUME LogInv
    PROVE  /\ Len(log) \in Nat /\ IsFiniteSet(hot)
           /\ Cardinality(hot) \in Nat /\ Cardinality(hot) <= Len(log)
<1> DEFINE all == 1..Len(log)
<1>1. Len(log) \in Nat /\ hot \in SUBSET all
  BY DEF LogInv
<1>2. IsFiniteSet(all) /\ Cardinality(all) = Len(log)
  BY <1>1, FS_Interval
<1> HIDE DEF all
<1>3. IsFiniteSet(hot) /\ Cardinality(hot) <= Cardinality(all)
  BY <1>1, <1>2, FS_Subset
<1>4. Cardinality(hot) \in Nat
  BY <1>3, FS_CardinalityType
<1>5. QED
  BY <1>1, <1>2, <1>3, <1>4

\* A delta has no more events than there are sequences after its seed.
LEMMA DeltaCount ==
    ASSUME NEW upto \in Nat, NEW last \in Nat, upto <= last,
           NEW delta \in SUBSET ((upto + 1)..last)
    PROVE  Cardinality(delta) \in Nat /\ upto + Cardinality(delta) <= last
<1> DEFINE first == upto + 1
           range == first..last
<1>1. first \in Nat
  OBVIOUS
<1>2. /\ IsFiniteSet(range)
      /\ Cardinality(range) = IF first > last THEN 0 ELSE last - first + 1
  <2> HIDE DEF first
  <2>1. QED
    BY <1>1, FS_Interval
<1>3. Cardinality(range) = last - upto
  BY <1>2
<1>4. delta \in SUBSET range
  OBVIOUS
<1> HIDE DEF range
<1>5. IsFiniteSet(delta) /\ Cardinality(delta) <= Cardinality(range)
  BY <1>2, <1>4, FS_Subset
<1>6. Cardinality(delta) \in Nat
  BY <1>5, FS_CardinalityType
<1>7. QED
  BY <1>3, <1>5, <1>6

LEMMA ExcusedKept ==
    ASSUME Extended, NEW st \in Streams, NEW n \in 1..Len(log), Excused(st, n)
    PROVE  Excused(st, n)'
BY DEF Extended, Excused

LEMMA DatedKept ==
    ASSUME Extended, NEW state, NEW asOf, Dated(state, asOf)
    PROVE  Dated(state, asOf)'
BY DEF Extended, Dated

LEMMA CompleteKept ==
    ASSUME Extended, NEW st \in Streams, NEW state, NEW asOf, NEW upto \in Nat,
           NEW passed, Complete(st, state, asOf, upto, passed)
    PROVE  Complete(st, state, asOf, upto, passed)'
<1>1. /\ Len(log) \in Nat /\ Len(log') \in Nat /\ Len(log) <= Len(log')
      /\ \A n \in 1..Len(log) : log'[n] = log[n]
      /\ hot' \subseteq 1..Len(log')
      /\ \A n \in hot' : n <= Len(log) => n \in hot
  BY DEF Extended
<1>2. upto <= Len(log)
  BY DEF Complete
<1>3. ASSUME NEW n \in hot', n <= upto, Accepts(st, n)', log'[n].asOf <= asOf, n \notin state
      PROVE  Excused(st, n)' \/ n \in passed
  <2>1. n \in 1..Len(log) /\ n \in hot
    BY <1>1, <1>2, <1>3
  <2>2. Accepts(st, n) /\ log[n].asOf <= asOf
    BY <1>1, <1>3, <2>1 DEF Accepts
  <2>3. Excused(st, n) \/ n \in passed
    BY <1>3, <2>1, <2>2 DEF Complete
  <2>4. QED
    BY <2>1, <2>3, ExcusedKept
<1>4. QED
  BY <1>1, <1>2, <1>3 DEF Complete

LEMMA RowKept ==
    ASSUME Extended, NEW st \in Streams, NEW row, RowOK(st, row)
    PROVE  RowOK(st, row)'
<1>1. row \in Row
  BY DEF RowOK
<1>2. PICK state, asOf : state = row.state /\ asOf = row.asOf
  OBVIOUS
<1> DEFINE upto == row.upto
<1>u. upto \in Nat
  BY <1>1 DEF Row
<1> HIDE DEF upto
<1>3. Dated(state, asOf)'
  BY <1>2, DatedKept DEF RowOK
<1>4. \E w \in written'[st] : w.asOf = row.asOf /\ w.upto = row.upto
  BY DEF RowOK, Extended
<1>5. st \notin reloaded' => Complete(st, row.state, row.asOf, row.upto, {})'
  <2>0. PICK passed : passed = {}
    OBVIOUS
  <2>1. Complete(st, state, asOf, upto, passed) => Complete(st, state, asOf, upto, passed)'
    BY <1>u, CompleteKept
  <2>2. st \notin reloaded' => st \notin reloaded
    BY DEF Extended
  <2>3. QED
    BY <1>2, <2>0, <2>1, <2>2 DEF RowOK, upto
<1>6. st = "signals" => row.folded = row.upto
  BY DEF RowOK
<1>7. QED
  BY <1>1, <1>2, <1>3, <1>4, <1>5, <1>6 DEF RowOK, upto

(***************************************************************************)
(* Readers.                                                                *)
(***************************************************************************)

ReaderOK(p) ==
    /\ \A row \in reader[p].snap : RowOK(Stream(p), row)
    /\ \A row \in reader[p].snap : row.asOf <= reader[p].asOf
    /\ reader[p].pc \in {"reload", "delta"} => reader[p].snap # {}
    /\ reader[p].pc = "delta" /\ Stream(p) \notin reloaded =>
         reader[p].from = (CHOOSE row \in reader[p].snap : TRUE).upto + 1
    /\ p \in Registers => reader[p].cursor <= Len(log)
    /\ reader[p].pc \in {"folded", "insert"} =>
         /\ Dated(reader[p].state, reader[p].asOf)
         /\ Stream(p) \notin reloaded =>
              Complete(Stream(p), reader[p].state, reader[p].asOf, Upto(p),
                       reader[p].passed)
    /\ Missing(p)
    /\ reader[p].pc # "folded" => reader[p].missed = {}

LEMMA ReadParts ==
    ReadInv <=> reader \in [Readers -> Read] /\ \A p \in Readers : ReaderOK(p)
BY DEF ReadInv, ReaderOK

LEMMA StreamType ==
    \A p \in Readers : Stream(p) \in Streams /\ (Stream(p) = "register" <=> p \in Registers)
BY DEF Stream, Streams

LEMMA ReaderKept ==
    ASSUME Extended, NEW p \in Readers, reader[p] \in Read, reader'[p] = reader[p], ReaderOK(p)
    PROVE  ReaderOK(p)'
<1>1. PICK r \in Read : r = reader[p]
  OBVIOUS
<1>2. PICK st \in Streams : st = Stream(p) /\ st = Stream(p)'
  BY StreamType DEF Stream
<1>3. \A row \in r.snap : RowOK(st, row)'
  BY <1>1, <1>2, RowKept DEF ReaderOK
<1>4. r.pc \in {"folded", "insert"} => Dated(r.state, r.asOf)'
  <2>1. PICK state, asOf : state = r.state /\ asOf = r.asOf
    OBVIOUS
  <2>2. Dated(state, asOf) => Dated(state, asOf)'
    BY DatedKept
  <2>3. QED
    BY <1>1, <2>1, <2>2 DEF ReaderOK
<1>5. Upto(p) = Upto(p)' /\ Upto(p) \in Nat
  BY <1>1 DEF Upto, Read
<1>6. r.pc \in {"folded", "insert"} /\ st \notin reloaded' =>
        Complete(Stream(p), reader[p].state, reader[p].asOf, Upto(p), reader[p].passed)'
  <2>1. PICK state, asOf, upto, passed :
          state = r.state /\ asOf = r.asOf /\ upto = Upto(p) /\ passed = r.passed
    OBVIOUS
  <2>2. Complete(st, state, asOf, upto, passed) => Complete(st, state, asOf, upto, passed)'
    BY <1>5, <2>1, CompleteKept
  <2>3. st \notin reloaded' => st \notin reloaded
    BY DEF Extended
  <2>4. QED
    BY <1>1, <1>2, <1>5, <2>1, <2>2, <2>3 DEF ReaderOK
<1>7. Missing(p)'
  <2>1. reader[p].missed \subseteq 1..Len(log)
    BY DEF ReaderOK, Missing
  <2>2. st \notin reloaded' => \A n \in reader[p].missed : Excused(st, n)'
    BY <1>2, <2>1, ExcusedKept DEF ReaderOK, Missing, Extended
  <2>3. QED
    BY <1>2, <2>1, <2>2 DEF Missing, Extended
<1>8. p \in Registers => reader'[p].cursor <= Len(log')
  BY <1>1 DEF ReaderOK, Extended, Read
<1>9. r.pc = "delta" /\ st \notin reloaded' =>
        r.from = (CHOOSE row \in r.snap : TRUE).upto + 1
  BY <1>1, <1>2 DEF ReaderOK, Extended
<1>10. /\ r.pc \in {"reload", "delta"} => r.snap # {}
       /\ r.pc # "folded" => r.missed = {}
       /\ \A row \in r.snap : row.asOf <= r.asOf
  BY <1>1 DEF ReaderOK
<1>11. QED
  BY <1>1, <1>2, <1>3, <1>4, <1>6, <1>7, <1>8, <1>9, <1>10 DEF ReaderOK

Pcs == {"idle", "begun", "load", "naive", "reload", "delta", "folded", "insert", "prune"}

Others(p) == \A q \in Readers \ {p} : reader'[q] = reader[q]

Becomes(p, next) == reader' \in [Readers -> Read] /\ Others(p) /\ reader'[p] = next

\* The read goes on, with this as its locals.
Moves(p, pc, asOf, cursor, snap, from, state, folded, passed, missed) ==
    /\ reader' \in [Readers -> Read] /\ Others(p)
    /\ reader'[p].pc = pc /\ reader'[p].asOf = asOf /\ reader'[p].cursor = cursor
    /\ reader'[p].snap = snap /\ reader'[p].from = from /\ reader'[p].state = state
    /\ reader'[p].folded = folded /\ reader'[p].passed = passed
    /\ reader'[p].missed = missed

LEMMA IdleFacts ==
    /\ Idle \in Read /\ Idle.pc = "idle" /\ Idle.snap = {} /\ Idle.missed = {}
    /\ Idle.cursor = 0
BY ReadsAssumption DEF Idle, Read, Times



LEMMA Sets ==
    ASSUME reader \in [Readers -> Read], NEW p \in Readers, NEW next \in Read,
           reader' = [reader EXCEPT ![p] = next]
    PROVE  Becomes(p, next)
BY DEF Becomes, Others

LEMMA BecomesIdle ==
    ASSUME reader \in [Readers -> Read], NEW p \in Readers,
           reader' = [reader EXCEPT ![p] = Idle]
    PROVE  Becomes(p, Idle)
BY IdleFacts, Sets

LEMMA GoesCursor ==
    ASSUME reader \in [Readers -> Read], NEW p \in Readers, NEW pc \in Pcs, NEW cursor \in Nat,
           reader' = [reader EXCEPT ![p].pc = pc, ![p].cursor = cursor]
    PROVE  Moves(p, pc, reader[p].asOf, cursor, reader[p].snap, reader[p].from,
                 reader[p].state, reader[p].folded, reader[p].passed, reader[p].missed)
BY DEF Moves, Others, Read, Pcs

LEMMA GoesSnap ==
    ASSUME reader \in [Readers -> Read], NEW p \in Readers, NEW pc \in Pcs,
           NEW snap \in SUBSET Row,
           reader' = [reader EXCEPT ![p].pc = pc, ![p].snap = snap]
    PROVE  Moves(p, pc, reader[p].asOf, reader[p].cursor, snap, reader[p].from,
                 reader[p].state, reader[p].folded, reader[p].passed, reader[p].missed)
BY DEF Moves, Others, Read, Pcs

LEMMA GoesFrom ==
    ASSUME reader \in [Readers -> Read], NEW p \in Readers, NEW pc \in Pcs, NEW from \in Nat,
           reader' = [reader EXCEPT ![p].pc = pc, ![p].from = from]
    PROVE  Moves(p, pc, reader[p].asOf, reader[p].cursor, reader[p].snap, from,
                 reader[p].state, reader[p].folded, reader[p].passed, reader[p].missed)
BY DEF Moves, Others, Read, Pcs

LEMMA GoesSaving ==
    ASSUME reader \in [Readers -> Read], NEW p \in Readers, NEW pc \in Pcs,
           NEW missed \in SUBSET Nat,
           reader' = [reader EXCEPT ![p] = [@ EXCEPT !.pc = pc, !.missed = missed]]
    PROVE  Moves(p, pc, reader[p].asOf, reader[p].cursor, reader[p].snap, reader[p].from,
                 reader[p].state, reader[p].folded, reader[p].passed, missed)
BY DEF Moves, Others, Read, Pcs

LEMMA GoesFolded ==
    ASSUME reader \in [Readers -> Read], NEW p \in Readers, NEW pc \in Pcs,
           NEW state \in SUBSET Nat, NEW folded \in Nat, NEW passed \in SUBSET Nat,
           reader' = [reader EXCEPT ![p] = [@ EXCEPT !.pc = pc, !.state = state,
                                                  !.folded = folded, !.passed = passed]]
    PROVE  Moves(p, pc, reader[p].asOf, reader[p].cursor, reader[p].snap, reader[p].from,
                 state, folded, passed, reader[p].missed)
<1> DEFINE r == reader[p]
           half == [r EXCEPT !.pc = pc, !.state = state]
           next == [half EXCEPT !.folded = folded, !.passed = passed]
<1>1. r \in Read
  OBVIOUS
<1>2. reader' = [reader EXCEPT ![p] = next]
  OBVIOUS
<1> HIDE DEF r
<1>3. /\ half \in Read /\ half.pc = pc /\ half.state = state /\ half.asOf = r.asOf
      /\ half.cursor = r.cursor /\ half.snap = r.snap /\ half.from = r.from
      /\ half.missed = r.missed
  BY <1>1 DEF Read, Pcs
<1> HIDE DEF half
<1>4. /\ next \in Read /\ next.pc = pc /\ next.state = state /\ next.asOf = r.asOf
      /\ next.cursor = r.cursor /\ next.snap = r.snap /\ next.from = r.from
      /\ next.missed = r.missed /\ next.folded = folded /\ next.passed = passed
  BY <1>3 DEF Read
<1> HIDE DEF next
<1>5. Becomes(p, next)
  BY <1>2, <1>4, Sets
<1>6. QED
  BY <1>4, <1>5 DEF Becomes, Moves, r

LEMMA GoesSeeded ==
    ASSUME reader \in [Readers -> Read], NEW p \in Readers, NEW pc \in Pcs,
           NEW snap \in SUBSET Row, NEW from \in Nat,
           NEW state \in SUBSET Nat, NEW folded \in Nat, NEW passed \in SUBSET Nat,
           NEW missed \in SUBSET Nat,
           reader' = [reader EXCEPT ![p] = [@ EXCEPT !.pc = pc, !.snap = snap,
                        !.from = from, !.state = state, !.folded = folded,
                        !.passed = passed, !.missed = missed]]
    PROVE  Moves(p, pc, reader[p].asOf, reader[p].cursor, snap, from, state, folded,
                 passed, missed)
<1> DEFINE r == reader[p]
           third == [r EXCEPT !.pc = pc, !.snap = snap]
           half == [third EXCEPT !.from = from, !.state = state]
           last == [half EXCEPT !.folded = folded, !.passed = passed]
           next == [last EXCEPT !.missed = missed]
<1>1. r \in Read
  OBVIOUS
<1>2. reader' = [reader EXCEPT ![p] = next]
  OBVIOUS
<1> HIDE DEF r
<1>3. /\ third \in Read /\ third.pc = pc /\ third.snap = snap /\ third.asOf = r.asOf
      /\ third.cursor = r.cursor
  BY <1>1 DEF Read, Pcs
<1> HIDE DEF third
<1>4. /\ half \in Read /\ half.pc = pc /\ half.snap = snap /\ half.asOf = r.asOf
      /\ half.cursor = r.cursor /\ half.from = from /\ half.state = state
  BY <1>3 DEF Read
<1> HIDE DEF half
<1>l. /\ last \in Read /\ last.pc = pc /\ last.snap = snap /\ last.asOf = r.asOf
      /\ last.cursor = r.cursor /\ last.from = from /\ last.state = state
      /\ last.folded = folded /\ last.passed = passed
  BY <1>4 DEF Read
<1> HIDE DEF last
<1>5. /\ next \in Read /\ next.pc = pc /\ next.snap = snap /\ next.asOf = r.asOf
      /\ next.cursor = r.cursor /\ next.from = from /\ next.state = state
      /\ next.folded = folded /\ next.passed = passed /\ next.missed = missed
  BY <1>l DEF Read
<1> HIDE DEF next
<1>6. Becomes(p, next)
  BY <1>2, <1>5, Sets
<1>7. QED
  BY <1>5, <1>6 DEF Becomes, Moves, r

(***************************************************************************)
(* What a step of one reader leaves true.                                  *)
(***************************************************************************)

LEMMA SameExtends ==
    ASSUME LogInv, log' = log, hot' \subseteq hot, reloaded \subseteq reloaded',
           \A st \in Streams : written[st] \subseteq written'[st]
    PROVE  Extended
BY HotFacts DEF LogInv, Extended

LEMMA OneReader ==
    ASSUME Extended, ReadInv, NEW p \in Readers, reader' \in [Readers -> Read], Others(p),
           ReaderOK(p)'
    PROVE  ReadInv'
<1>1. ASSUME NEW q \in Readers
      PROVE  ReaderOK(q)'
  <2>1. CASE q = p
    BY <2>1
  <2>2. CASE q # p
    <3>1. reader'[q] = reader[q] /\ ReaderOK(q) /\ reader[q] \in Read
      BY <2>2, ReadParts DEF Others
    <3>2. QED
      BY <3>1, ReaderKept
  <2>3. QED
    BY <2>1, <2>2
<1>2. QED
  BY <1>1 DEF ReadInv, ReaderOK

\* A reader that has folded nothing yet, or no more.
LEMMA Blank ==
    ASSUME Extended, ReadInv, NEW p \in Readers, reader' \in [Readers -> Read], Others(p),
           reader'[p].pc \notin {"reload", "delta", "folded", "insert"},
           \A row \in reader'[p].snap : RowOK(Stream(p), row)',
           \A row \in reader'[p].snap : row.asOf <= reader'[p].asOf,
           p \in Registers => reader'[p].cursor <= Len(log'), reader'[p].missed = {}
    PROVE  ReadInv'
<1>1. ReaderOK(p)'
  BY DEF ReaderOK, Missing
<1>2. QED
  BY <1>1, OneReader

LEMMA IdleReader ==
    ASSUME Extended, ReadInv, NEW p \in Readers, Becomes(p, Idle)
    PROVE  ReadInv'
<1>1. /\ reader' \in [Readers -> Read] /\ Others(p) /\ reader'[p].pc = "idle"
      /\ reader'[p].snap = {} /\ reader'[p].missed = {} /\ reader'[p].cursor = 0
  BY IdleFacts DEF Becomes
<1>2. reader'[p].cursor <= Len(log')
  BY <1>1 DEF Extended
<1>3. QED
  BY <1>1, <1>2, Blank

\* A step that only reads.
Still ==
    /\ now' = now /\ log' = log /\ hot' = hot /\ apart' = apart /\ table' = table
    /\ written' = written /\ reloaded' = reloaded

LEMMA StillFacts ==
    ASSUME LogInv, TableInv, Still
    PROVE  LogInv' /\ TableInv' /\ Extended
<1>1. LogInv'
  BY DEF LogInv, Still
<1>2. Extended
  BY SameExtends DEF Still
<1>3. TableInv'
  <2>1. \A st \in Streams : \A row \in table'[st] : RowOK(st, row)'
    BY <1>2, RowKept DEF TableInv, Still
  <2>2. QED
    BY <2>1 DEF TableInv, Still
<1>4. QED
  BY <1>1, <1>2, <1>3

LEMMA BeginKeeps ==
    ASSUME LogInv, TableInv, ReadInv, NEW p \in Readers,
           \/ BeginRegister(p)
           \/ \E horizonEnd \in Times : BeginBacktest(p, horizonEnd)
    PROVE  LogInv' /\ TableInv' /\ ReadInv'
<1>1. Still
  BY DEF BeginRegister, BeginBacktest, Begin, Still, env
<1>2. LogInv' /\ TableInv' /\ Extended
  BY <1>1, StillFacts
<1>3. PICK pc \in {"begun", "load"}, asOf \in Times :
        reader' = [reader EXCEPT ![p] = [Idle EXCEPT !.pc = pc, !.asOf = asOf]]
  BY DEF BeginRegister, BeginBacktest, LogInv
<1> DEFINE begun == [Idle EXCEPT !.pc = pc, !.asOf = asOf]
<1>4. /\ begun \in Read /\ begun.pc = pc /\ begun.snap = {} /\ begun.missed = {}
      /\ begun.cursor = 0
  BY <1>3 DEF Idle, Read
<1> HIDE DEF begun
<1>5. Becomes(p, begun)
  BY <1>3, <1>4, Sets, ReadParts DEF begun
<1>6. reader'[p].cursor <= Len(log')
  BY <1>2, <1>4, <1>5 DEF Becomes, Extended
<1>7. QED
  BY <1>2, <1>4, <1>5, <1>6, Blank DEF Becomes

LEMMA TakeCursorKeeps ==
    ASSUME LogInv, TableInv, ReadInv, NEW p \in Readers, TakeCursor(p)
    PROVE  LogInv' /\ TableInv' /\ ReadInv'
<1>1. Still
  BY DEF TakeCursor, Quiet, Still, env
<1>2. LogInv' /\ TableInv' /\ Extended
  BY <1>1, StillFacts
<1>3. reader \in [Readers -> Read] /\ Cardinality(hot) \in Nat /\ "load" \in Pcs
  BY HotFacts, ReadParts DEF Pcs
<1>4. Moves(p, "load", reader[p].asOf, Cardinality(hot), reader[p].snap, reader[p].from,
            reader[p].state, reader[p].folded, reader[p].passed, reader[p].missed)
  BY <1>3, GoesCursor DEF TakeCursor
<1>5. /\ reader' \in [Readers -> Read] /\ Others(p) /\ reader'[p].pc = "load"
      /\ reader'[p].cursor = Cardinality(hot) /\ reader'[p].snap = reader[p].snap
      /\ reader'[p].missed = reader[p].missed /\ reader'[p].asOf = reader[p].asOf
  BY <1>4 DEF Moves
<1>6. ReaderOK(p) /\ reader[p].pc = "begun"
  BY ReadParts DEF TakeCursor
<1>7. \A row \in reader'[p].snap : RowOK(Stream(p), row)'
  <2>1. PICK st \in Streams : st = Stream(p) /\ st = Stream(p)'
    BY StreamType DEF Stream
  <2>2. \A row \in reader[p].snap : RowOK(st, row)'
    BY <1>2, <1>6, <2>1, RowKept DEF ReaderOK
  <2>3. QED
    BY <1>5, <2>1, <2>2
<1>8. /\ reader'[p].missed = {}
      /\ \A row \in reader'[p].snap : row.asOf <= reader'[p].asOf
  BY <1>5, <1>6 DEF ReaderOK
<1>9. reader'[p].cursor <= Len(log')
  BY <1>1, <1>5, HotFacts DEF Still
<1>10. QED
  BY <1>2, <1>5, <1>7, <1>8, <1>9, Blank

LEMMA LoadKeeps ==
    ASSUME LogInv, TableInv, ReadInv, NEW p \in Readers, Load(p)
    PROVE  LogInv' /\ TableInv' /\ ReadInv'
<1>1. Still
  BY DEF Load, Quiet, Still, env
<1>2. LogInv' /\ TableInv' /\ Extended
  BY <1>1, StillFacts
<1>3. PICK st \in Streams : st = Stream(p) /\ st = Stream(p)'
  BY StreamType DEF Stream
<1> DEFINE found == LoadSnapshot(table[Stream(p)], reader[p].asOf)
           pc == IF found = {} THEN "naive" ELSE "reload"
<1>4. /\ found \in SUBSET Row /\ \A row \in found : RowOK(st, row)
      /\ \A row \in found : row.asOf <= reader[p].asOf
  <2>1. /\ found \subseteq table[st] /\ table[st] \in SUBSET Row
        /\ \A row \in found : row.asOf <= reader[p].asOf
    BY <1>3 DEF LoadSnapshot, TableInv
  <2>2. \A row \in table[st] : RowOK(st, row)
    BY DEF TableInv
  <2>3. QED
    BY <2>1, <2>2
<1>5. pc \in Pcs /\ reader \in [Readers -> Read] /\ ReaderOK(p) /\ reader[p].pc = "load"
  BY ReadParts DEF Pcs, Load
<1>6. reader' = [reader EXCEPT ![p].pc = pc, ![p].snap = found]
  BY DEF Load
<1>7. pc \in {"naive", "reload"} /\ (pc = "reload" => found # {})
  OBVIOUS
<1> HIDE DEF found, pc
<1>8. Moves(p, pc, reader[p].asOf, reader[p].cursor, found, reader[p].from,
            reader[p].state, reader[p].folded, reader[p].passed, reader[p].missed)
  BY <1>4, <1>5, <1>6, GoesSnap
<1>9. /\ reader' \in [Readers -> Read] /\ Others(p) /\ reader'[p].pc = pc
      /\ reader'[p].cursor = reader[p].cursor /\ reader'[p].snap = found
      /\ reader'[p].missed = reader[p].missed /\ reader'[p].asOf = reader[p].asOf
  BY <1>8 DEF Moves
<1>10. \A row \in found : RowOK(st, row)'
  BY <1>2, <1>4, RowKept
<1>11. /\ reader'[p].missed = {}
       /\ p \in Registers => reader'[p].cursor <= Len(log')
       /\ \A row \in reader'[p].snap : row.asOf <= reader'[p].asOf
  BY <1>1, <1>4, <1>5, <1>9 DEF ReaderOK, Still
<1>12. ReaderOK(p)'
  BY <1>3, <1>7, <1>9, <1>10, <1>11 DEF ReaderOK, Missing
<1>13. QED
  BY <1>2, <1>9, <1>12, OneReader

LEMMA ReplayIs ==
    ASSUME NEW p \in Readers, NEW from, NEW asOf
    PROVE  Replay(p, from, asOf) =
             {n \in hot \ Passed(p) :
                from <= n /\ log[n].asOf <= asOf /\ Accepts(Stream(p), n)}
BY StreamType DEF Replay, Accepts, Stream

\* A fold of the whole table misses nothing.
LEMMA FoldNaiveKeeps ==
    ASSUME LogInv, TableInv, ReadInv, NEW p \in Readers, FoldNaive(p)
    PROVE  LogInv' /\ TableInv' /\ ReadInv'
<1>1. Still
  BY DEF FoldNaive, Quiet, Still, env
<1>2. LogInv' /\ TableInv' /\ Extended
  BY <1>1, StillFacts
<1>3. reader \in [Readers -> Read] /\ ReaderOK(p) /\ reader[p].pc = "naive"
  BY ReadParts DEF FoldNaive
<1> DEFINE pc == "folded"
           state == Replay(p, 1, reader[p].asOf)
           folded == Cardinality(state)
           passed == Passed(p)
<1>4. reader' = [reader EXCEPT ![p] = [@ EXCEPT !.pc = pc, !.state = state,
                                             !.folded = folded, !.passed = passed]]
  BY DEF FoldNaive
<1>5. state = {n \in hot \ passed :
                 1 <= n /\ log[n].asOf <= reader[p].asOf /\ Accepts(Stream(p), n)}
  BY ReplayIs
<1>p. passed \in SUBSET Nat
  BY DEF Passed, LogInv
<1>6. state \in SUBSET (1..Len(log)) /\ Len(log) \in Nat /\ pc = "folded" /\ pc \in Pcs
  BY <1>5, HotFacts DEF LogInv, Pcs
<1>7. folded \in Nat /\ folded <= Len(log)
  <2>1. /\ IsFiniteSet(1..Len(log))
        /\ Cardinality(1..Len(log)) = Len(log)
    BY <1>6, FS_Interval
  <2> HIDE DEF state
  <2>2. IsFiniteSet(state) /\ Cardinality(state) <= Len(log)
    BY <1>6, <2>1, FS_Subset
  <2>3. QED
    BY <2>2, FS_CardinalityType
<1> HIDE DEF pc, state, folded, passed
<1>8. state \in SUBSET Nat
  BY <1>6
<1>9. Moves(p, pc, reader[p].asOf, reader[p].cursor, reader[p].snap, reader[p].from,
            state, folded, passed, reader[p].missed)
  BY <1>3, <1>4, <1>6, <1>7, <1>8, <1>p, GoesFolded
<1>10. /\ reader' \in [Readers -> Read] /\ Others(p) /\ reader'[p].pc = "folded"
       /\ reader'[p].asOf = reader[p].asOf /\ reader'[p].cursor = reader[p].cursor
       /\ reader'[p].snap = reader[p].snap /\ reader'[p].state = state
       /\ reader'[p].folded = folded /\ reader'[p].passed = passed
       /\ reader'[p].missed = reader[p].missed
  BY <1>6, <1>9 DEF Moves
<1>11. PICK st \in Streams : st = Stream(p) /\ st = Stream(p)'
  BY StreamType DEF Stream
<1>12. \A row \in reader[p].snap : RowOK(st, row)'
  BY <1>2, <1>3, <1>11, RowKept DEF ReaderOK
<1>13. /\ reader'[p].missed = {}
       /\ p \in Registers => reader'[p].cursor <= Len(log')
       /\ \A row \in reader'[p].snap : row.asOf <= reader'[p].asOf
  BY <1>1, <1>3, <1>10 DEF ReaderOK, Still
<1>14. PICK held, asOf, upto : held = state /\ asOf = reader[p].asOf /\ upto = Upto(p)'
  OBVIOUS
<1>15. Dated(held, asOf)
  BY <1>5, <1>6, <1>14 DEF Dated
<1>16. Complete(st, held, asOf, upto, passed)
  <2>1. upto <= Len(log)
    BY <1>1, <1>7, <1>10, <1>13, <1>14 DEF Upto, Still
  <2>2. \A n \in hot : 1 <= n
    BY <1>6 DEF LogInv
  <2>3. \A n \in hot : Accepts(st, n) /\ log[n].asOf <= asOf => n \in held \/ n \in passed
    BY <1>5, <1>11, <1>14, <2>2
  <2>4. QED
    BY <2>1, <2>3 DEF Complete
<1>f. PICK apartThen : apartThen = passed
  OBVIOUS
<1>17. Dated(held, asOf)' /\ Complete(st, held, asOf, upto, apartThen)'
  <2>1. Dated(held, asOf)'
    BY <1>1, <1>15 DEF Dated, Still
  <2>2. Complete(st, held, asOf, upto, apartThen)'
    BY <1>1, <1>16, <1>f DEF Complete, Accepts, Excused, Still
  <2>3. QED
    BY <2>1, <2>2
<1>18. Dated(reader[p].state, reader[p].asOf)'
  BY <1>10, <1>14, <1>17
<1>19. Complete(Stream(p), reader[p].state, reader[p].asOf, Upto(p), reader[p].passed)'
  BY <1>10, <1>11, <1>14, <1>17, <1>f
<1>20. ReaderOK(p)'
  BY <1>10, <1>11, <1>12, <1>13, <1>18, <1>19 DEF ReaderOK, Missing
<1>21. QED
  BY <1>2, <1>10, <1>20, OneReader

\* Only a row of another look-up than the first changes where the delta begins, and
\* then the read is told apart.
LEMMA ReloadKeeps ==
    ASSUME LogInv, TableInv, ReadInv, NEW p \in Readers, Reload(p)
    PROVE  LogInv' /\ TableInv' /\ ReadInv'
<1>1. /\ now' = now /\ log' = log /\ hot' = hot /\ apart' = apart
      /\ table' = table /\ written' = written
      /\ reloaded \subseteq reloaded'
  BY DEF Reload, env
<1>2. LogInv' /\ Extended
  BY <1>1, SameExtends DEF LogInv
<1>3. TableInv'
  <2>1. \A st \in Streams : \A row \in table'[st] : RowOK(st, row)'
    BY <1>1, <1>2, RowKept DEF TableInv
  <2>2. QED
    BY <1>1, <2>1 DEF TableInv
<1>4. PICK st \in Streams : st = Stream(p) /\ st = Stream(p)'
  BY StreamType DEF Stream
<1>5. reader \in [Readers -> Read] /\ ReaderOK(p) /\ reader[p].pc = "reload"
  BY ReadParts DEF Reload
<1> DEFINE found == LoadSnapshot(table[Stream(p)], reader[p].asOf)
           from == IF found = {} THEN 1 ELSE (CHOOSE row \in found : TRUE).upto + 1
           pc == "delta"
<1>6. found \in SUBSET Row
  BY <1>4 DEF LoadSnapshot, TableInv
<1>7. from \in Nat
  <2> HIDE DEF found
  <2>1. CASE found = {}
    BY <2>1
  <2>2. CASE found # {}
    <3>1. (CHOOSE row \in found : TRUE) \in Row
      BY <1>6, <2>2
    <3>2. (CHOOSE row \in found : TRUE).upto \in Nat
      BY <3>1 DEF Row
    <3>3. QED
      BY <2>2, <3>2
  <2>3. QED
    BY <2>1, <2>2
<1>8. reader' = [reader EXCEPT ![p].pc = pc, ![p].from = from]
  BY DEF Reload
<1>9. st \notin reloaded' => found = reader[p].snap
  BY <1>4 DEF Reload
<1>10. reader[p].snap # {}
  BY <1>5 DEF ReaderOK
<1>11. st \notin reloaded' => from = (CHOOSE row \in reader[p].snap : TRUE).upto + 1
  BY <1>9, <1>10
<1>12. pc = "delta" /\ pc \in Pcs
  BY DEF Pcs
<1> HIDE DEF found, from, pc
<1>13. Moves(p, pc, reader[p].asOf, reader[p].cursor, reader[p].snap, from,
             reader[p].state, reader[p].folded, reader[p].passed, reader[p].missed)
  BY <1>5, <1>7, <1>8, <1>12, GoesFrom
<1>14. /\ reader' \in [Readers -> Read] /\ Others(p) /\ reader'[p].pc = "delta"
       /\ reader'[p].cursor = reader[p].cursor /\ reader'[p].snap = reader[p].snap
       /\ reader'[p].from = from /\ reader'[p].missed = reader[p].missed
       /\ reader'[p].asOf = reader[p].asOf
  BY <1>12, <1>13 DEF Moves
<1>15. \A row \in reader[p].snap : RowOK(st, row)'
  BY <1>2, <1>4, <1>5, RowKept DEF ReaderOK
<1>16. /\ reader'[p].missed = {}
       /\ p \in Registers => reader'[p].cursor <= Len(log')
       /\ \A row \in reader'[p].snap : row.asOf <= reader'[p].asOf
  BY <1>1, <1>5, <1>14 DEF ReaderOK
<1>17. ReaderOK(p)'
  BY <1>4, <1>10, <1>11, <1>14, <1>15, <1>16 DEF ReaderOK, Missing
<1>18. QED
  BY <1>2, <1>3, <1>14, <1>17, OneReader

\* What the seed and a delta that begins after it miss, the seed had the excuse to miss
\* or is itself the excuse.
LEMMA FoldDeltaKeeps ==
    ASSUME LogInv, TableInv, ReadInv, NEW p \in Readers, FoldDelta(p)
    PROVE  LogInv' /\ TableInv' /\ ReadInv'
<1>1. Still
  BY DEF FoldDelta, Quiet, Still, env
<1>2. LogInv' /\ TableInv' /\ Extended
  BY <1>1, StillFacts
<1>3. reader \in [Readers -> Read] /\ ReaderOK(p) /\ reader[p].pc = "delta"
  BY ReadParts DEF FoldDelta
<1>4. PICK st \in Streams : st = Stream(p) /\ st = Stream(p)'
  BY StreamType DEF Stream
<1>5. PICK asOf, from : asOf = reader[p].asOf /\ from = reader[p].from
  OBVIOUS
<1>6. PICK seed : seed = CHOOSE row \in reader[p].snap : TRUE
  OBVIOUS
<1>7. seed \in reader[p].snap /\ RowOK(st, seed) /\ seed \in Row
  BY <1>3, <1>4, <1>6 DEF ReaderOK, RowOK
<1>8. seed.upto \in Nat /\ seed.folded \in Nat /\ seed.state \in SUBSET Nat
  BY <1>7 DEF Row
<1>9. PICK delta : delta = Replay(p, from, asOf)
  OBVIOUS
<1>10. PICK missed : missed = Replay(p, 1, asOf) \ (seed.state \cup delta)
  OBVIOUS
<1>p. PICK passed : passed = Passed(p)
  OBVIOUS
<1>11. delta = {n \in hot \ passed : from <= n /\ log[n].asOf <= asOf /\ Accepts(st, n)}
  BY <1>4, <1>9, <1>p, ReplayIs
<1>12. missed = {n \in hot \ passed : /\ 1 <= n /\ log[n].asOf <= asOf /\ Accepts(st, n)
                                      /\ n \notin seed.state \cup delta}
  BY <1>4, <1>10, <1>p, ReplayIs
<1>13. Len(log) \in Nat /\ hot \subseteq 1..Len(log)
  BY HotFacts DEF LogInv
<1>q. passed \in SUBSET Nat
  BY <1>p DEF Passed, LogInv
<1>14. delta \in SUBSET Nat /\ missed \in SUBSET Nat /\ missed \subseteq 1..Len(log)
  <2>1. delta \subseteq hot /\ missed \subseteq hot
    BY <1>11, <1>12
  <2>2. hot \subseteq Nat
    BY <1>13
  <2>3. QED
    BY <1>13, <2>1, <2>2
<1>15. PICK folded : folded = seed.folded + Cardinality(delta)
  OBVIOUS
<1>16. PICK state : state = seed.state \cup delta
  OBVIOUS
<1>17. folded \in Nat /\ state \in SUBSET Nat
  <2>1. delta \in SUBSET hot /\ IsFiniteSet(hot)
    BY <1>11, HotFacts
  <2>2. Cardinality(delta) \in Nat
    BY <2>1, FS_Subset, FS_CardinalityType
  <2>3. folded \in Nat
    BY <1>8, <1>15, <2>2
  <2>4. state \in SUBSET Nat
    BY <1>8, <1>14, <1>16
  <2>5. QED
    BY <2>3, <2>4
<1> DEFINE pc == "folded"
           snap == {}
           zero == 0
<1>18. reader' = [reader EXCEPT ![p] = [@ EXCEPT !.pc = pc, !.snap = snap,
                    !.from = zero, !.state = state, !.folded = folded,
                    !.passed = passed, !.missed = missed]]
  BY <1>5, <1>6, <1>9, <1>10, <1>15, <1>16, <1>p DEF FoldDelta
<1>19. pc = "folded" /\ pc \in Pcs /\ snap = {} /\ snap \in SUBSET Row /\ zero \in Nat
  BY DEF Pcs
<1> HIDE DEF pc, snap, zero
<1>20. Moves(p, pc, reader[p].asOf, reader[p].cursor, snap, zero, state, folded,
             passed, missed)
  BY <1>3, <1>14, <1>17, <1>18, <1>19, <1>q, GoesSeeded
<1>21. /\ reader' \in [Readers -> Read] /\ Others(p) /\ reader'[p].pc = "folded"
       /\ reader'[p].asOf = asOf /\ reader'[p].cursor = reader[p].cursor
       /\ reader'[p].snap = {} /\ reader'[p].state = state
       /\ reader'[p].folded = folded /\ reader'[p].passed = passed
       /\ reader'[p].missed = missed
  <2>1. /\ reader' \in [Readers -> Read] /\ Others(p) /\ reader'[p].pc = pc
        /\ reader'[p].asOf = reader[p].asOf /\ reader'[p].cursor = reader[p].cursor
        /\ reader'[p].snap = snap /\ reader'[p].state = state
        /\ reader'[p].folded = folded /\ reader'[p].passed = passed
        /\ reader'[p].missed = missed
    BY <1>20 DEF Moves
  <2>2. QED
    BY <1>5, <1>19, <2>1
<1>22. /\ seed.asOf \in Nat /\ asOf \in Nat /\ seed.asOf <= asOf
  <2>1. seed.asOf \in Times /\ asOf \in Times
    BY <1>3, <1>5, <1>7 DEF Row, Read
  <2>2. seed.asOf <= asOf
    BY <1>3, <1>5, <1>7 DEF ReaderOK
  <2>3. QED
    BY <2>1, <2>2 DEF Times
<1>23. \A n \in 1..Len(log) : log[n].asOf \in Nat
  <2>1. \A n \in 1..Len(log) : log[n] \in Event
    BY DEF LogInv
  <2>2. QED
    BY <2>1 DEF Event
\* What is not in the delta lies behind the seed.
<1>24. st \notin reloaded => from = seed.upto + 1
  BY <1>3, <1>4, <1>5, <1>6 DEF ReaderOK
<1>25. Dated(state, asOf)
  <2>1. \A n \in seed.state : n \in 1..Len(log) /\ log[n].asOf <= seed.asOf
    BY <1>7 DEF RowOK, Dated
  <2>2. \A n \in seed.state : log[n].asOf <= asOf
    BY <1>22, <1>23, <2>1
  <2>3. \A n \in delta : n \in 1..Len(log) /\ log[n].asOf <= asOf
    BY <1>11, <1>13
  <2>4. QED
    BY <1>16, <2>1, <2>2, <2>3 DEF Dated
<1>26. ASSUME st \notin reloaded, NEW n \in hot, Accepts(st, n), log[n].asOf <= asOf,
              n \notin state, n \notin passed
       PROVE  Excused(st, n)
  <2>1. n \in Nat /\ n \notin delta /\ n \notin seed.state /\ n \in 1..Len(log)
    BY <1>13, <1>16, <1>26
  <2>2. ~ (from <= n)
    BY <1>11, <1>26, <2>1
  <2>3. n <= seed.upto
    BY <1>8, <1>24, <1>26, <2>1, <2>2
  <2>4. CASE log[n].asOf <= seed.asOf
    BY <1>7, <1>26, <2>1, <2>3, <2>4 DEF RowOK, Complete
  <2>5. CASE ~ (log[n].asOf <= seed.asOf)
    <3>1. seed.asOf < log[n].asOf
      BY <1>22, <1>23, <2>1, <2>5
    <3>2. PICK excuse \in written[st] : excuse.asOf = seed.asOf /\ excuse.upto = seed.upto
      BY <1>7 DEF RowOK
    <3>3. QED
      BY <2>3, <3>1, <3>2 DEF Excused
  <2>6. QED
    BY <2>4, <2>5
<1>27. PICK upto : upto = Upto(p)'
  OBVIOUS
<1>28. st \notin reloaded => upto <= Len(log)
  <2>1. CASE p \in Registers
    BY <1>3, <1>21, <1>27, <2>1 DEF Upto, ReaderOK
  <2>2. CASE p \notin Registers
    <3>1. SUFFICES ASSUME st \notin reloaded
                   PROVE  folded <= Len(log)
      BY <1>21, <1>27, <2>2 DEF Upto
    <3>2. st = "signals" /\ seed.folded = seed.upto /\ seed.upto <= Len(log)
      BY <1>4, <1>7, <2>2, <3>1 DEF Stream, RowOK, Complete
    <3>3. \A n \in delta : n \in (seed.upto + 1)..Len(log)
      BY <1>8, <1>11, <1>13, <1>24, <3>1
    <3>4. PICK last \in Nat, behind \in Nat : last = Len(log) /\ behind = seed.upto
      BY <1>8, <1>13
    <3>5. delta \in SUBSET ((behind + 1)..last) /\ behind <= last
      BY <3>2, <3>3, <3>4
    <3>6. behind + Cardinality(delta) <= last
      BY <3>5, DeltaCount
    <3>7. QED
      BY <1>15, <3>2, <3>4, <3>6
  <2>3. QED
    BY <2>1, <2>2
<1>29. st \notin reloaded => Complete(st, state, asOf, upto, passed)
  BY <1>26, <1>28 DEF Complete
<1>30. Dated(state, asOf)'
  BY <1>2, <1>25, DatedKept
<1>31. st \notin reloaded' => Complete(st, state, asOf, upto, passed)'
  <2>1. Complete(st, state, asOf, upto, passed) => Complete(st, state, asOf, upto, passed)'
    BY <1>1 DEF Complete, Accepts, Excused, Still
  <2>2. QED
    BY <1>1, <1>29, <2>1 DEF Still
<1>32. st \notin reloaded' => \A n \in missed : Excused(st, n)'
  <2>1. ASSUME st \notin reloaded, NEW n \in missed
        PROVE  Excused(st, n)
    BY <1>12, <1>16, <1>26, <2>1
  <2>2. QED
    BY <1>1, <2>1 DEF Excused, Still
<1>33. Missing(p)'
  BY <1>1, <1>4, <1>14, <1>21, <1>32 DEF Missing, Still
<1>34. p \in Registers => reader'[p].cursor <= Len(log')
  BY <1>1, <1>3, <1>21 DEF ReaderOK, Still
<1>35. ReaderOK(p)'
  BY <1>4, <1>21, <1>27, <1>30, <1>31, <1>33, <1>34 DEF ReaderOK
<1>36. QED
  BY <1>2, <1>21, <1>35, OneReader

\* The state that a read has folded is saved, or not.
LEMMA SnapshotKeeps ==
    ASSUME LogInv, TableInv, ReadInv, NEW p \in Readers,
           Snapshot(p) \/ NoSnapshot(p) \/ InsertThrows(p) \/ Crash(p)
    PROVE  LogInv' /\ TableInv' /\ ReadInv'
<1>1. Still
  BY DEF Snapshot, NoSnapshot, InsertThrows, Crash, Quiet, Still, env
<1>2. LogInv' /\ TableInv' /\ Extended
  BY <1>1, StillFacts
<1>3. reader \in [Readers -> Read] /\ ReaderOK(p)
  BY ReadParts
<1> DEFINE pc == "insert"
           missed == {}
<1>4. \/ reader' = [reader EXCEPT ![p] = Idle]
      \/ /\ reader[p].pc = "folded"
         /\ reader' = [reader EXCEPT ![p] = [@ EXCEPT !.pc = pc, !.missed = missed]]
  BY DEF Snapshot, NoSnapshot, InsertThrows, Crash
<1>5. pc = "insert" /\ pc \in Pcs /\ missed = {} /\ missed \in SUBSET Nat
  BY DEF Pcs
<1> HIDE DEF pc, missed
<1>6. CASE reader' = [reader EXCEPT ![p] = Idle]
  BY <1>2, <1>3, <1>6, BecomesIdle, IdleReader
<1>7. ASSUME reader[p].pc = "folded",
             reader' = [reader EXCEPT ![p] = [@ EXCEPT !.pc = pc, !.missed = missed]]
      PROVE  ReadInv'
  <2>1. Moves(p, pc, reader[p].asOf, reader[p].cursor, reader[p].snap, reader[p].from,
              reader[p].state, reader[p].folded, reader[p].passed, missed)
    BY <1>3, <1>5, <1>7, GoesSaving
  <2>2. /\ reader' \in [Readers -> Read] /\ Others(p) /\ reader'[p].pc = "insert"
        /\ reader'[p].asOf = reader[p].asOf /\ reader'[p].cursor = reader[p].cursor
        /\ reader'[p].snap = reader[p].snap /\ reader'[p].state = reader[p].state
        /\ reader'[p].folded = reader[p].folded /\ reader'[p].passed = reader[p].passed
        /\ reader'[p].missed = {}
    BY <1>5, <2>1 DEF Moves
  <2>3. PICK st \in Streams : st = Stream(p) /\ st = Stream(p)'
    BY StreamType DEF Stream
  <2>4. \A row \in reader[p].snap : RowOK(st, row)'
    BY <1>2, <1>3, <2>3, RowKept DEF ReaderOK
  <2>5. Upto(p)' = Upto(p)
    BY <2>2 DEF Upto
  <2>6. PICK state, asOf, upto, passed :
          /\ state = reader[p].state /\ asOf = reader[p].asOf
          /\ upto = Upto(p) /\ passed = reader[p].passed
    OBVIOUS
  <2>7. /\ Dated(state, asOf)
        /\ st \notin reloaded => Complete(st, state, asOf, upto, passed)
    BY <1>3, <1>7, <2>3, <2>6 DEF ReaderOK
  <2>8. /\ Dated(state, asOf)'
        /\ st \notin reloaded' => Complete(st, state, asOf, upto, passed)'
    <3>1. Dated(state, asOf)'
      BY <1>2, <2>7, DatedKept
    <3>2. Complete(st, state, asOf, upto, passed) => Complete(st, state, asOf, upto, passed)'
      BY <1>1 DEF Complete, Accepts, Excused, Still
    <3>3. QED
      BY <1>1, <2>7, <3>1, <3>2 DEF Still
  <2>9. /\ p \in Registers => reader'[p].cursor <= Len(log')
        /\ \A row \in reader'[p].snap : row.asOf <= reader'[p].asOf
    BY <1>1, <1>3, <2>2 DEF ReaderOK, Still
  <2>10. ReaderOK(p)'
    BY <2>2, <2>3, <2>4, <2>5, <2>6, <2>8, <2>9 DEF ReaderOK, Missing
  <2>11. QED
    BY <1>2, <2>2, <2>10, OneReader
<1>8. QED
  BY <1>2, <1>4, <1>6, <1>7

(***************************************************************************)
(* The table.                                                              *)
(***************************************************************************)

\* A set of natural numbers has a least one.
LEMMA Least ==
    ASSUME NEW T \in SUBSET Nat, T # {}
    PROVE  \E x \in T : \A y \in T : x <= y
<1> DEFINE R == OpToRel(<, Nat)
<1>1. IsWellFoundedOn(R, Nat)
  BY NatLessThanWellFounded
<1>2. \A x, y \in Nat : y < x => <<y, x>> \in R
  BY DEF OpToRel
<1> HIDE DEF R
<1>3. PICK x \in T : \A y \in T : ~ (<<y, x>> \in R)
  BY <1>1, WFMin
<1>4. ASSUME NEW y \in T
      PROVE  x <= y
  <2>1. x \in Nat /\ y \in Nat /\ ~ (y < x)
    BY <1>2, <1>3
  <2>2. QED
    BY <2>1
<1>5. QED
  BY <1>4

\* What is left of a table has a newest row, too.
LEMMA NewestKept ==
    ASSUME NEW rows \in SUBSET Row, Newest(rows), NEW kept \in SUBSET rows
    PROVE  Newest(kept)
<1> SUFFICES ASSUME kept # {}
             PROVE  \E row \in kept : \A other \in kept : other.id <= row.id
  BY DEF Newest
<1>1. PICK last \in rows : \A other \in rows : other.id <= last.id
  BY DEF Newest
<1>2. \A row \in rows : row.id \in Nat
  BY DEF Row
<1> DEFINE ages == {last.id - row.id : row \in kept}
<1>3. ages \in SUBSET Nat /\ ages # {}
  <2>1. \A row \in kept : last.id - row.id \in Nat
    BY <1>1, <1>2
  <2>2. QED
    BY <2>1
<1>4. PICK age \in ages : \A other \in ages : age <= other
  <2> HIDE DEF ages
  <2>1. QED
    BY <1>3, Least
<1>5. PICK row \in kept : age = last.id - row.id
  BY <1>4
<1>6. ASSUME NEW other \in kept
      PROVE  other.id <= row.id
  <2>1. last.id - other.id \in ages
    BY <1>6
  <2>2. last.id - row.id <= last.id - other.id
    BY <1>4, <1>5, <2>1
  <2>3. QED
    BY <1>1, <1>2, <1>5, <2>2
<1>7. QED
  BY <1>6

LEMMA NextIdFacts ==
    ASSUME NEW rows \in SUBSET Row, Newest(rows)
    PROVE  NextId(rows) \in Nat /\ \A row \in rows : row.id <= NextId(rows)
<1>1. CASE rows = {}
  BY <1>1 DEF NextId
<1>2. CASE rows # {}
  <2> DEFINE last == CHOOSE row \in rows : \A other \in rows : other.id <= row.id
  <2>1. last \in rows /\ \A other \in rows : other.id <= last.id
    BY <1>2 DEF Newest
  <2>2. \A row \in rows : row.id \in Nat
    BY DEF Row
  <2>3. NextId(rows) = last.id + 1
    BY <1>2 DEF NextId
  <2> HIDE DEF last
  <2>4. QED
    BY <2>1, <2>2, <2>3
<1>3. QED
  BY <1>1, <1>2

\* The new row says of itself what the read knows of its state.
LEMMA InsertKeeps ==
    ASSUME LogInv, TableInv, ReadInv, NEW p \in Readers, Insert(p)
    PROVE  LogInv' /\ TableInv' /\ ReadInv'
<1>1. reader \in [Readers -> Read] /\ ReaderOK(p) /\ reader[p].pc = "insert"
  BY ReadParts DEF Insert
<1>2. PICK st \in Streams : st = Stream(p) /\ st = Stream(p)'
  BY StreamType DEF Stream
<1>3. /\ table \in [Streams -> SUBSET Row]
      /\ written \in [Streams -> SUBSET [asOf : Times, upto : Nat, passed : SUBSET Nat]]
      /\ Newest(table[st])
      /\ \A a, b \in table[st] : a.asOf = b.asOf /\ a.upto = b.upto => a = b
  BY DEF TableInv
<1> DEFINE new == [id |-> NextId(table[st]), asOf |-> reader[p].asOf, upto |-> Upto(p),
                   state |-> reader[p].state, folded |-> reader[p].folded]
<1>4. /\ reader[p].asOf \in Times /\ Upto(p) \in Nat /\ reader[p].state \in SUBSET Nat
      /\ reader[p].folded \in Nat /\ reader[p].passed \in SUBSET Nat
  BY <1>1 DEF Read, Upto
<1>5. NextId(table[st]) \in Nat /\ \A row \in table[st] : row.id <= NextId(table[st])
  BY <1>3, NextIdFacts
<1>6. /\ new \in Row /\ new.id = NextId(table[st]) /\ new.asOf = reader[p].asOf
      /\ new.upto = Upto(p) /\ new.state = reader[p].state /\ new.folded = reader[p].folded
  BY <1>4, <1>5 DEF Row
<1>7. /\ table' = [table EXCEPT ![st] = @ \cup {new}]
      /\ written' = [written EXCEPT ![st] =
           @ \cup {[asOf |-> new.asOf, upto |-> new.upto, passed |-> reader[p].passed]}]
      /\ SameSnapshot(table[st], new.asOf, new.upto) = {}
      /\ now' = now /\ log' = log /\ hot' = hot /\ apart' = apart /\ reloaded' = reloaded
      /\ reader' = [reader EXCEPT ![p] = [Idle EXCEPT !.pc = "prune"]]
  BY <1>2 DEF Insert, env
<1>8. PICK row : row = new
  OBVIOUS
<1> HIDE DEF new
<1>9. /\ table' \in [Streams -> SUBSET Row] /\ table'[st] = table[st] \cup {row}
      /\ \A other \in Streams \ {st} : table'[other] = table[other]
  BY <1>3, <1>6, <1>7, <1>8
<1>p. PICK passed \in SUBSET Nat : passed = reader[p].passed
  BY <1>4
<1>10. [asOf |-> row.asOf, upto |-> row.upto, passed |-> passed]
         \in [asOf : Times, upto : Nat, passed : SUBSET Nat]
  BY <1>4, <1>6, <1>8
<1>11. PICK label : label = [asOf |-> row.asOf, upto |-> row.upto, passed |-> passed]
  OBVIOUS
<1>12. /\ written' = [written EXCEPT ![st] = @ \cup {label}]
       /\ label \in [asOf : Times, upto : Nat, passed : SUBSET Nat]
  BY <1>7, <1>8, <1>10, <1>11, <1>p
<1>13. /\ written' \in [Streams -> SUBSET [asOf : Times, upto : Nat, passed : SUBSET Nat]]
       /\ label \in written'[st]
       /\ \A other \in Streams : written[other] \subseteq written'[other]
  BY <1>3, <1>12
<1>14. LogInv' /\ Extended
  BY <1>7, <1>13, SameExtends DEF LogInv
<1>15. PICK state, asOf, upto : state = row.state /\ asOf = row.asOf /\ upto = row.upto
  OBVIOUS
<1>u. upto \in Nat
  BY <1>4, <1>6, <1>8, <1>15
<1>16. Dated(state, asOf)'
  <2>1. Dated(state, asOf)
    BY <1>1, <1>6, <1>8, <1>15 DEF ReaderOK
  <2>2. QED
    BY <1>14, <2>1, DatedKept
\* What its fold passed over, the row itself now excuses.
<1>17. st \notin reloaded' => Complete(st, state, asOf, upto, {})'
  <2>1. st \notin reloaded => Complete(st, state, asOf, upto, passed)
    BY <1>1, <1>2, <1>6, <1>8, <1>15, <1>p DEF ReaderOK
  <2>2. st \notin reloaded' => Complete(st, state, asOf, upto, passed)'
    BY <1>7, <1>14, <1>u, <2>1, CompleteKept
  <2>3. label \in written'[st] /\ label.upto = upto /\ label.passed = passed
    BY <1>11, <1>13, <1>15
  <2>4. \A n \in hot' : n <= upto /\ n \in passed => Excused(st, n)'
    BY <2>3 DEF Excused
  <2>5. QED
    BY <2>2, <2>4 DEF Complete
<1>18. st = "signals" => row.folded = row.upto
  BY <1>2, <1>6, <1>8 DEF Upto, Stream
<1>19. RowOK(st, row)'
  <2>1. label.asOf = row.asOf /\ label.upto = row.upto
    BY <1>11
  <2>2. QED
    BY <1>6, <1>8, <1>13, <1>15, <1>16, <1>17, <1>18, <2>1 DEF RowOK
<1>20. \A other \in Streams : \A any \in table'[other] : RowOK(other, any)'
  <2>1. ASSUME NEW other \in Streams, NEW any \in table[other]
        PROVE  RowOK(other, any)'
    BY <1>14, <2>1, RowKept DEF TableInv
  <2>2. ASSUME NEW other \in Streams, NEW any \in table'[other]
        PROVE  RowOK(other, any)'
    <3>1. CASE other # st
      BY <1>9, <2>1, <2>2, <3>1
    <3>2. CASE other = st
      BY <1>9, <1>19, <2>1, <2>2, <3>2
    <3>3. QED
      BY <3>1, <3>2
  <2>3. QED
    BY <2>2
<1>21. \A other \in Streams :
         \A a, b \in table'[other] : a.asOf = b.asOf /\ a.upto = b.upto => a = b
  <2>1. \A a \in table[st] : ~ (a.asOf = row.asOf /\ a.upto = row.upto)
    BY <1>7, <1>8 DEF SameSnapshot
  <2>2. \A a, b \in table'[st] : a.asOf = b.asOf /\ a.upto = b.upto => a = b
    BY <1>3, <1>9, <2>1
  <2>3. QED
    BY <1>9, <2>2 DEF TableInv
<1>22. \A other \in Streams : Newest(table'[other])
  <2>1. \A any \in table'[st] : any.id <= row.id
    BY <1>5, <1>6, <1>8, <1>9
  <2>2. Newest(table'[st])
    BY <1>9, <2>1 DEF Newest
  <2>3. QED
    BY <1>9, <2>2 DEF TableInv
<1>23. TableInv'
  BY <1>9, <1>13, <1>20, <1>21, <1>22 DEF TableInv, Newest
<1> DEFINE next == [Idle EXCEPT !.pc = "prune"]
<1>24. /\ next \in Read /\ next.pc = "prune" /\ next.snap = {} /\ next.missed = {}
       /\ next.cursor = 0
  BY IdleFacts DEF Idle, Read
<1> HIDE DEF next
<1>25. Becomes(p, next)
  BY <1>1, <1>7, <1>24, Sets DEF next
<1>26. reader'[p].cursor <= Len(log')
  BY <1>14, <1>24, <1>25 DEF Becomes, Extended
<1>27. ReadInv'
  BY <1>14, <1>24, <1>25, <1>26, Blank DEF Becomes
<1>28. QED
  BY <1>14, <1>23, <1>27

LEMMA PruneKeeps ==
    ASSUME LogInv, TableInv, ReadInv, NEW p \in Readers,
           NEW kept \in SUBSET table[Stream(p)], Prune(p, kept)
    PROVE  LogInv' /\ TableInv' /\ ReadInv'
<1>1. reader \in [Readers -> Read]
  BY ReadParts
<1>2. PICK st \in Streams : st = Stream(p)
  BY StreamType
<1>3. /\ table' = [table EXCEPT ![st] = kept] /\ kept \subseteq table[st]
      /\ now' = now /\ log' = log /\ hot' = hot /\ apart' = apart /\ reloaded' = reloaded
      /\ written' = written /\ reader' = [reader EXCEPT ![p] = Idle]
  BY <1>2 DEF Prune, env
<1>4. LogInv' /\ Extended
  BY <1>3, SameExtends DEF LogInv
<1>5. /\ table \in [Streams -> SUBSET Row]
      /\ written \in [Streams -> SUBSET [asOf : Times, upto : Nat, passed : SUBSET Nat]]
  BY DEF TableInv
<1>6. /\ table' \in [Streams -> SUBSET Row] /\ table'[st] = kept
      /\ \A other \in Streams : table'[other] \subseteq table[other]
      /\ \A other \in Streams \ {st} : table'[other] = table[other]
  <2>1. kept \in SUBSET Row
    BY <1>3, <1>5
  <2>2. QED
    BY <1>3, <1>5, <2>1
<1>7. \A other \in Streams : \A any \in table'[other] : RowOK(other, any)'
  BY <1>4, <1>6, RowKept DEF TableInv
<1>8. \A other \in Streams :
        \A a, b \in table'[other] : a.asOf = b.asOf /\ a.upto = b.upto => a = b
  BY <1>6 DEF TableInv
<1>9. \A other \in Streams : Newest(table'[other])
  BY <1>5, <1>6, NewestKept DEF TableInv
<1>10. TableInv'
  BY <1>3, <1>5, <1>6, <1>7, <1>8, <1>9 DEF TableInv, Newest
<1>11. QED
  BY <1>1, <1>3, <1>4, <1>10, BecomesIdle, IdleReader

(***************************************************************************)
(* The rest of the system.                                                 *)
(***************************************************************************)

LEMMA OutsideKeeps ==
    ASSUME LogInv, TableInv, ReadInv,
           \/ UNCHANGED vars
           \/ Clock
           \/ \E type \in Types, asOf \in 0..(MaxTime + Ahead), elsewhere \in BOOLEAN :
                AppendEvent(type, asOf, elsewhere)
           \/ \E n \in hot : Retag(n)
           \/ \E cutoff \in hot : Archive(cutoff)
    PROVE  LogInv' /\ TableInv' /\ ReadInv'
<1>1. table' = table /\ written' = written /\ reloaded' = reloaded /\ reader' = reader
  BY DEF vars, env, Clock, AppendEvent, Retag, Archive
<1>2. LogInv' /\ Extended
  <2>1. ASSUME NEW type \in Types, NEW asOf \in 0..(MaxTime + Ahead),
               NEW elsewhere \in BOOLEAN, AppendEvent(type, asOf, elsewhere)
        PROVE  LogInv' /\ Extended
    <3> DEFINE event == [type |-> type, asOf |-> asOf]
               last == Len(log)
    <3>1. event \in Event
      BY <2>1, ReadsAssumption DEF Event
    <3>2. log' = Append(log, event) /\ hot' = hot \cup {last + 1} /\ last < MaxSeq
      BY <2>1 DEF AppendEvent
    <3>3. log \in Seq(Event) /\ last \in Nat /\ hot \subseteq 1..last
      BY HotFacts DEF LogInv
    <3> HIDE DEF event
    <3>4. /\ log' \in Seq(Event) /\ Len(log') = last + 1
          /\ \A n \in 1..last : log'[n] = log[n]
      BY <3>1, <3>2, <3>3
    <3> HIDE DEF last
    <3>5. hot' \subseteq 1..(last + 1) /\ \A n \in hot' : n <= last => n \in hot
      BY <3>2, <3>3
    <3>6. last + 1 <= MaxSeq
      BY <3>2, <3>3, ReadsAssumption
    <3>7. now' \in Times
      BY <2>1 DEF AppendEvent, LogInv
    <3>a. apart' \subseteq 1..(last + 1)
      <4>1. apart \subseteq 1..last /\ apart' \subseteq apart \cup {last + 1}
        BY <2>1 DEF AppendEvent, LogInv, last
      <4>2. QED
        BY <3>3, <4>1
    <3>8. LogInv'
      BY <3>4, <3>5, <3>6, <3>7, <3>a DEF LogInv
    <3>9. Extended
      <4>1. /\ Len(log) \in Nat /\ Len(log') \in Nat /\ Len(log) <= Len(log')
            /\ \A n \in 1..Len(log) : log'[n] = log[n]
        BY <3>3, <3>4 DEF last
      <4>2. hot' \subseteq 1..Len(log') /\ \A n \in hot' : n <= Len(log) => n \in hot
        BY <3>4, <3>5 DEF last
      <4>3. (\A st \in Streams : written[st] \subseteq written'[st]) /\ reloaded \subseteq reloaded'
        BY <1>1
      <4>4. QED
        BY <4>1, <4>2, <4>3 DEF Extended
    <3>10. QED
      BY <3>8, <3>9
  <2>2. ASSUME log' = log, hot' \subseteq hot, apart' \subseteq apart \cup hot, now' \in Times
        PROVE  LogInv' /\ Extended
    BY <1>1, <2>2, SameExtends DEF LogInv
  <2>3. CASE UNCHANGED vars
    BY <2>2, <2>3 DEF vars, env, LogInv
  <2>4. CASE Clock
    BY <2>2, <2>4, ReadsAssumption DEF Clock, LogInv, Times
  <2>5. ASSUME NEW cutoff \in hot, Archive(cutoff)
        PROVE  LogInv' /\ Extended
    BY <2>2, <2>5 DEF Archive, LogInv
  <2>6. ASSUME NEW n \in hot, Retag(n)
        PROVE  LogInv' /\ Extended
    BY <2>2, <2>6 DEF Retag, LogInv
  <2>7. QED
    BY <2>1, <2>3, <2>4, <2>5, <2>6
<1>3. TableInv'
  <2>1. \A st \in Streams : \A row \in table'[st] : RowOK(st, row)'
    BY <1>1, <1>2, RowKept DEF TableInv
  <2>2. QED
    BY <1>1, <2>1 DEF TableInv, Newest
<1>4. ReadInv'
  <2>1. \A p \in Readers : ReaderOK(p)'
    BY <1>1, <1>2, ReaderKept, ReadParts
  <2>2. QED
    BY <1>1, <2>1 DEF ReadInv, ReaderOK
<1>5. QED
  BY <1>2, <1>3, <1>4

(***************************************************************************)
(* The theorems.                                                           *)
(***************************************************************************)

\* The inductive invariant: what every row and every read in progress knows of the
\* state that it holds.
THEOREM ReadsInductive == Spec => []ReadsInv
<1>1. Init => ReadsInv
  <2> SUFFICES ASSUME Init
               PROVE  ReadsInv
    OBVIOUS
  <2>1. /\ now = 0 /\ log = << >> /\ Len(log) = 0 /\ hot = {} /\ apart = {}
        /\ reloaded = {}
        /\ table = [st \in Streams |-> {}] /\ written = [st \in Streams |-> {}]
        /\ reader = [p \in Readers |-> Idle]
    BY DEF Init
  <2>2. LogInv
    BY <2>1, ReadsAssumption DEF LogInv, Times
  <2>3. TableInv
    BY <2>1 DEF TableInv, Newest
  <2>4. ReadInv
    BY <2>1, IdleFacts DEF ReadInv, Missing
  <2>5. QED
    BY <2>2, <2>3, <2>4 DEF ReadsInv
<1>2. ReadsInv /\ [Next]_vars => ReadsInv'
  <2> SUFFICES ASSUME ReadsInv, [Next]_vars
               PROVE  ReadsInv'
    OBVIOUS
  <2>1. LogInv /\ TableInv /\ ReadInv
    BY DEF ReadsInv
  <2>2. CASE \/ UNCHANGED vars
             \/ Clock
             \/ \E type \in Types, asOf \in 0..(MaxTime + Ahead), elsewhere \in BOOLEAN :
                  AppendEvent(type, asOf, elsewhere)
             \/ \E n \in hot : Retag(n)
             \/ \E cutoff \in hot : Archive(cutoff)
    BY <2>1, <2>2, OutsideKeeps DEF ReadsInv
  <2>3. ASSUME NEW p \in Readers,
               \/ BeginRegister(p)
               \/ \E horizonEnd \in Times : BeginBacktest(p, horizonEnd)
        PROVE  ReadsInv'
    BY <2>1, <2>3, BeginKeeps DEF ReadsInv
  <2>4. ASSUME NEW p \in Readers, TakeCursor(p) \/ Load(p) \/ FoldNaive(p)
        PROVE  ReadsInv'
    BY <2>1, <2>4, TakeCursorKeeps, LoadKeeps, FoldNaiveKeeps DEF ReadsInv
  <2>5. ASSUME NEW p \in Readers, Reload(p) \/ FoldDelta(p)
        PROVE  ReadsInv'
    BY <2>1, <2>5, ReloadKeeps, FoldDeltaKeeps DEF ReadsInv
  <2>6. ASSUME NEW p \in Readers, Snapshot(p) \/ NoSnapshot(p) \/ InsertThrows(p) \/ Crash(p)
        PROVE  ReadsInv'
    BY <2>1, <2>6, SnapshotKeeps DEF ReadsInv
  <2>7. ASSUME NEW p \in Readers, Insert(p) \/ \E kept \in SUBSET table[Stream(p)] : Prune(p, kept)
        PROVE  ReadsInv'
    BY <2>1, <2>7, InsertKeeps, PruneKeeps DEF ReadsInv
  <2>8. QED
    BY <2>2, <2>3, <2>4, <2>5, <2>6, <2>7 DEF Next
<1>3. QED
  BY <1>1, <1>2, PTL DEF Spec

\* Types, and UNIQUE on the table snapshots (store.ts): no race of saves and prunes
\* leaves two rows of one triple, and a read that goes on from a snapshot has one.
THEOREM ReadsTypeCorrect == Spec => []TypeOK
<1>1. ReadsInv => TypeOK
  <2> SUFFICES ASSUME ReadsInv
               PROVE  TypeOK
    OBVIOUS
  <2>1. now \in Times /\ Len(log) <= MaxSeq /\ hot \cup apart \subseteq 1..Len(log)
    BY DEF ReadsInv, LogInv
  <2>2. \A st \in Streams :
          /\ \A row \in table[st] : row \in Row
          /\ \A a, b \in table[st] : a.asOf = b.asOf /\ a.upto = b.upto => a = b
    BY DEF ReadsInv, TableInv
  <2>3. \A p \in Readers : reader[p].pc = "delta" => reader[p].snap # {}
    BY DEF ReadsInv, ReadInv
  <2>4. QED
    BY <2>1, <2>2, <2>3 DEF TypeOK
<1>2. QED
  BY <1>1, ReadsInductive, PTL

\* LocalProjector.replay and replayFromSnapshot (runtime.ts): a read as of some time
\* holds no event dated later, whatever snapshot it started from.
THEOREM ReadsNothingFromTheFuture == Spec => []NothingFromTheFuture
<1>1. ReadsInv => NothingFromTheFuture
  BY DEF ReadsInv, ReadInv, NothingFromTheFuture, Dated
<1>2. QED
  BY <1>1, ReadsInductive, PTL

\* The same code, over events that reclassifyEntity and reclassifyProvenance (store.ts)
\* may retag: a read through snapshots misses only what a snapshot's cursor counted
\* already and was dated later than that snapshot, or tagged out of the stream when it
\* was folded, unless its two look-ups differ.
THEOREM ReadsMissOnlyLaterDated == Spec => []MissesOnlyLaterDated
<1>1. ReadsInv => MissesOnlyLaterDated
  BY DEF ReadsInv, ReadInv, MissesOnlyLaterDated, Missing, Excused
<1>2. QED
  BY <1>1, ReadsInductive, PTL
=============================================================================

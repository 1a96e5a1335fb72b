-------------------------- MODULE PeriodCloseProofs --------------------------
(***************************************************************************)
(* Proofs about PeriodClose: its invariants hold for every number of       *)
(* readers, postings, archived events, crashes and snapshots kept, and for *)
(* every cadence.                                                          *)
(***************************************************************************)
EXTENDS PeriodClose, TLAPS, FiniteSetTheorems, NaturalsInduction

(***************************************************************************)
(* Sequences of events.                                                    *)
(***************************************************************************)

\* A set of natural numbers has a least one.
LEMMA Least ==
    ASSUME NEW T \in SUBSET Nat, T # {}
    PROVE  \E x \in T : \A y \in T : x <= y
<1> DEFINE R == OpToRel(<, Nat)
<1>1. IsWellFoundedOn(R, Nat)
  BY NatLessThanWellFounded
<1>2. \A x, y \in Nat : y < x => <<y, x>> \in R
  BY DEF OpToRel
<1> HIDE DEF R
<1>3. PICK x \in T : \A y \in T : ~ (<<y, x>> \in R)
  BY <1>1, WFMin
<1>4. ASSUME NEW y \in T
      PROVE  x <= y
  <2>1. x \in Nat /\ y \in Nat /\ ~ (y < x)
    BY <1>2, <1>3
  <2>2. QED
    BY <2>1
<1>5. QED
  BY <1>4

\* Latest is the greatest of sequences.
LEMMA LatestFacts ==
    ASSUME NEW last \in Nat, NEW S \in SUBSET (1..last), S # {}
    PROVE  Latest(S) \in S /\ \A m \in S : m <= Latest(S)
<1> DEFINE bounds == {k \in Nat : \A m \in S : m <= k}
<1>1. last \in bounds
  OBVIOUS
<1>2. PICK k \in bounds : \A other \in bounds : k <= other
  BY <1>1, Least
<1>3. PICK m \in S : TRUE
  OBVIOUS
<1>4. k \in Nat /\ (\A n \in S : n <= k) /\ m \in 1..last /\ m <= k
  BY <1>2, <1>3
<1>5. k - 1 \in Nat /\ ~ (k <= k - 1)
  BY <1>4
<1>6. k - 1 \notin bounds
  BY <1>2, <1>5
<1>7. PICK n \in S : ~ (n <= k - 1)
  BY <1>5, <1>6
<1>8. n \in Nat /\ n <= k
  BY <1>4, <1>7
<1>9. n = k
  BY <1>4, <1>7, <1>8
<1>10. \E n0 \in S : \A n1 \in S : n1 <= n0
  BY <1>4, <1>7, <1>9
<1>11. QED
  BY <1>10 DEF Latest

\* What an append does.
Appended(event) ==
    /\ log' \in Seq(Event) /\ Len(log') = Len(log) + 1
    /\ \A n \in 1..Len(log) : log'[n] = log[n]
    /\ log'[Len(log) + 1] = event
    /\ hot' = hot \cup {Len(log) + 1}

LEMMA AppendFacts ==
    ASSUME log \in Seq(Event), NEW event \in Event, AppendEvent(event)
    PROVE  Appended(event)
BY DEF AppendEvent, Appended

\* Events stay, and what was archived does not come back.
Extended ==
    /\ log' \in Seq(Event) /\ Len(log) \in Nat /\ Len(log') \in Nat /\ Len(log) <= Len(log')
    /\ \A n \in 1..Len(log) : log'[n] = log[n]
    /\ \A n \in hot' : n <= Len(log) => n \in hot

LEMMA AppendExtends ==
    ASSUME LogInv, NEW event, Appended(event)
    PROVE  Extended
BY DEF LogInv, Appended, Extended

LEMMA SameExtends ==
    ASSUME LogInv, log' = log, hot' \subseteq hot
    PROVE  Extended
BY DEF LogInv, Extended

(***************************************************************************)
(* What a step does to a call.                                             *)
(***************************************************************************)

Pcs == {"idle", "count", "load", "compute", "save", "insert", "prune", "have",
        "mark", "end", "closed"}

Others(p) == \A q \in Procs \ {p} : proc'[q] = proc[q]

Becomes(p, next) == proc' \in [Procs -> Call] /\ Others(p) /\ proc'[p] = next

\* The call goes on: its date, count and balance and what it has noted is this.
Moves(p, pc, closedAt, count, balance, tb, cursor, floor, archived, exact) ==
    /\ proc' \in [Procs -> Call] /\ Others(p)
    /\ proc'[p].pc = pc /\ proc'[p].closedAt = closedAt /\ proc'[p].count = count
    /\ proc'[p].balance = balance /\ proc'[p].tb = tb /\ proc'[p].cursor = cursor
    /\ proc'[p].floor = floor /\ proc'[p].archived = archived /\ proc'[p].exact = exact

LEMMA IdleFacts ==
    /\ Idle \in Call /\ Idle.pc = "idle" /\ Idle.balance = {}
BY DEF Idle, Call

LEMMA Sets ==
    ASSUME proc \in [Procs -> Call], NEW p \in Procs, NEW next \in Call,
           proc' = [proc EXCEPT ![p] = next]
    PROVE  Becomes(p, next)
BY DEF Becomes, Others

LEMMA BecomesIdle ==
    ASSUME proc \in [Procs -> Call], NEW p \in Procs, proc' = [proc EXCEPT ![p] = Idle]
    PROVE  Becomes(p, Idle)
BY IdleFacts, Sets

LEMMA Goes ==
    ASSUME proc \in [Procs -> Call], NEW p \in Procs, NEW pc \in Pcs, Goto(p, pc)
    PROVE  Moves(p, pc, proc[p].closedAt, proc[p].count, proc[p].balance, proc[p].tb,
                 proc[p].cursor, proc[p].floor, proc[p].archived, proc[p].exact)
BY DEF Goto, Moves, Others, Call, Pcs

LEMMA GoesBalance ==
    ASSUME proc \in [Procs -> Call], NEW p \in Procs, NEW pc \in Pcs,
           NEW balance \in SUBSET Nat,
           proc' = [proc EXCEPT ![p].pc = pc, ![p].balance = balance]
    PROVE  Moves(p, pc, proc[p].closedAt, proc[p].count, balance, proc[p].tb,
                 proc[p].cursor, proc[p].floor, proc[p].archived, proc[p].exact)
BY DEF Moves, Others, Call, Pcs

LEMMA GoesNamed ==
    ASSUME proc \in [Procs -> Call], NEW p \in Procs, NEW pc \in Pcs, NEW tb \in Nat,
           proc' = [proc EXCEPT ![p].pc = pc, ![p].tb = tb]
    PROVE  Moves(p, pc, proc[p].closedAt, proc[p].count, proc[p].balance, tb,
                 proc[p].cursor, proc[p].floor, proc[p].archived, proc[p].exact)
BY DEF Moves, Others, Call, Pcs

LEMMA GoesCursor ==
    ASSUME proc \in [Procs -> Call], NEW p \in Procs, NEW pc \in Pcs, NEW cursor \in Nat,
           proc' = [proc EXCEPT ![p].pc = pc, ![p].cursor = cursor]
    PROVE  Moves(p, pc, proc[p].closedAt, proc[p].count, proc[p].balance, proc[p].tb,
                 cursor, proc[p].floor, proc[p].archived, proc[p].exact)
BY DEF Moves, Others, Call, Pcs

LEMMA GoesDated ==
    ASSUME proc \in [Procs -> Call], NEW p \in Procs, NEW pc \in Pcs, NEW closedAt \in Nat,
           proc' = [proc EXCEPT ![p].pc = pc, ![p].closedAt = closedAt]
    PROVE  Moves(p, pc, closedAt, proc[p].count, proc[p].balance, proc[p].tb,
                 proc[p].cursor, proc[p].floor, proc[p].archived, proc[p].exact)
BY DEF Moves, Others, Call, Pcs

LEMMA GoesCounted ==
    ASSUME proc \in [Procs -> Call], NEW p \in Procs, NEW pc \in Pcs, NEW count \in Nat,
           NEW floor \in SUBSET Nat, NEW archived \in Nat,
           proc' = [proc EXCEPT ![p] = [@ EXCEPT !.pc = pc, !.count = count,
                                              !.floor = floor, !.archived = archived]]
    PROVE  Moves(p, pc, proc[p].closedAt, count, proc[p].balance, proc[p].tb,
                 proc[p].cursor, floor, archived, proc[p].exact)
<1> DEFINE c == proc[p]
           half == [c EXCEPT !.pc = pc, !.count = count]
           next == [half EXCEPT !.floor = floor, !.archived = archived]
<1>1. c \in Call
  OBVIOUS
<1>2. proc' = [proc EXCEPT ![p] = next]
  OBVIOUS
<1> HIDE DEF c
<1>3. /\ half \in Call /\ half.pc = pc /\ half.count = count /\ half.closedAt = c.closedAt
      /\ half.balance = c.balance /\ half.tb = c.tb /\ half.cursor = c.cursor
      /\ half.exact = c.exact
  BY <1>1 DEF Call, Pcs
<1> HIDE DEF half
<1>4. /\ next \in Call /\ next.pc = pc /\ next.count = count /\ next.closedAt = c.closedAt
      /\ next.balance = c.balance /\ next.tb = c.tb /\ next.cursor = c.cursor
      /\ next.exact = c.exact /\ next.floor = floor /\ next.archived = archived
  BY <1>3 DEF Call
<1> HIDE DEF next
<1>5. Becomes(p, next)
  BY <1>2, <1>4, Sets
<1>6. QED
  BY <1>4, <1>5 DEF Becomes, Moves, c

LEMMA GoesLoaded ==
    ASSUME proc \in [Procs -> Call], NEW p \in Procs, NEW pc \in Pcs,
           NEW balance \in SUBSET Nat, NEW exact \in BOOLEAN,
           proc' = [proc EXCEPT ![p] = [@ EXCEPT !.pc = pc, !.balance = balance,
                                              !.exact = exact]]
    PROVE  Moves(p, pc, proc[p].closedAt, proc[p].count, balance, proc[p].tb,
                 proc[p].cursor, proc[p].floor, proc[p].archived, exact)
<1> DEFINE c == proc[p]
           half == [c EXCEPT !.pc = pc, !.balance = balance]
           next == [half EXCEPT !.exact = exact]
<1>1. c \in Call
  OBVIOUS
<1>2. proc' = [proc EXCEPT ![p] = next]
  OBVIOUS
<1> HIDE DEF c
<1>3. /\ half \in Call /\ half.pc = pc /\ half.balance = balance
      /\ half.closedAt = c.closedAt /\ half.count = c.count /\ half.tb = c.tb
      /\ half.cursor = c.cursor /\ half.floor = c.floor /\ half.archived = c.archived
  BY <1>1 DEF Call, Pcs
<1> HIDE DEF half
<1>4. /\ next \in Call /\ next.pc = pc /\ next.balance = balance /\ next.exact = exact
      /\ next.closedAt = c.closedAt /\ next.count = c.count /\ next.tb = c.tb
      /\ next.cursor = c.cursor /\ next.floor = c.floor /\ next.archived = c.archived
  BY <1>3 DEF Call
<1> HIDE DEF next
<1>5. Becomes(p, next)
  BY <1>2, <1>4, Sets
<1>6. QED
  BY <1>4, <1>5 DEF Becomes, Moves, c

(***************************************************************************)
(* What each action does.                                                  *)
(***************************************************************************)

StoreSame == now' = now /\ log' = log /\ hot' = hot

\* p goes on to pc, and nothing of the others changes.
GoesOn(p, pc) ==
    Moves(p, pc, proc[p].closedAt, proc[p].count, proc[p].balance, proc[p].tb,
          proc[p].cursor, proc[p].floor, proc[p].archived, proc[p].exact)

LEMMA InProcs == Closer \in Procs /\ \A p \in Readers : p \in Procs /\ p # Closer
BY CloseAssumption DEF Procs

LEMMA HotFacts ==
    ASSUME LogInv
    PROVE  /\ Len(log) \in Nat
           /\ Cardinality(hot) \in Nat /\ Cardinality(Archived) \in Nat
           /\ Cardinality(hot) + Cardinality(Archived) = Len(log)
<1> DEFINE all == 1..Len(log)
<1>1. Len(log) \in Nat /\ hot \subseteq all
  BY DEF LogInv
<1>2. IsFiniteSet(all) /\ Cardinality(all) = Len(log)
  BY <1>1, FS_Interval
<1> HIDE DEF all
<1>3. all \cap hot = hot
  BY <1>1
<1>4. /\ IsFiniteSet(hot) /\ IsFiniteSet(all \ hot)
      /\ Cardinality(all \ hot) = Cardinality(all) - Cardinality(hot)
  <2>1. hot \in SUBSET all
    BY <1>1
  <2>2. IsFiniteSet(hot)
    BY <1>2, <2>1, FS_Subset
  <2>3. /\ IsFiniteSet(all \ hot)
        /\ Cardinality(all \ hot) = Cardinality(all) - Cardinality(all \cap hot)
    BY <1>2, <2>2, FS_Difference
  <2>4. QED
    BY <1>3, <2>2, <2>3
<1>5. Cardinality(hot) \in Nat /\ Cardinality(all \ hot) \in Nat
  BY <1>4, FS_CardinalityType
<1>6. Archived = all \ hot
  BY DEF Archived, all
<1>7. QED
  BY <1>1, <1>2, <1>4, <1>5, <1>6

LEMMA PostingsAre ==
    Postings = {n \in hot : Inside(n)}
BY DEF Postings, OfType, Inside

LEMMA CountFacts ==
    ASSUME LogInv, BalanceInv, NEW p \in Procs, Count(p)
    PROVE  /\ StoreSame /\ cache' = cache /\ ends' = ends /\ proc[p].pc = "count"
           /\ Moves(p, "load", proc[p].closedAt, Cardinality(hot), proc[p].balance, proc[p].tb,
                    proc[p].cursor, Postings, Cardinality(Archived), proc[p].exact)
<1> DEFINE count == Cardinality(hot)
           archived == Cardinality(Archived)
           floor == Postings
           pc == "load"
<1>1. /\ proc \in [Procs -> Call] /\ count \in Nat /\ archived \in Nat /\ pc \in Pcs
      /\ floor \in SUBSET Nat
  <2>1. count \in Nat /\ archived \in Nat
    BY HotFacts
  <2>2. hot \in SUBSET Nat
    BY DEF LogInv
  <2>3. floor \subseteq hot
    BY PostingsAre
  <2>4. proc \in [Procs -> Call]
    BY DEF BalanceInv
  <2>5. QED
    BY <2>1, <2>2, <2>3, <2>4 DEF Pcs
<1>2. proc' = [proc EXCEPT ![p] = [@ EXCEPT !.pc = pc, !.count = count, !.floor = floor,
                                         !.archived = archived]]
  BY DEF Count
<1> HIDE DEF count, archived, floor, pc
<1>3. Moves(p, pc, proc[p].closedAt, count, proc[p].balance, proc[p].tb,
            proc[p].cursor, floor, archived, proc[p].exact)
  BY <1>1, <1>2, GoesCounted
<1>4. QED
  BY <1>3 DEF Count, StoreSame, count, archived, floor, pc

LEMMA LoadFacts ==
    ASSUME LogInv, BalanceInv, NEW p \in Procs, LoadCached(p)
    PROVE  /\ StoreSame /\ cache' = cache /\ ends' = ends /\ proc[p].pc = "load"
           /\ \E hits \in SUBSET {row \in cache : row.upto = proc[p].count} :
                Moves(p, IF hits = {} THEN "compute" ELSE "have", proc[p].closedAt,
                      proc[p].count, UNION {row.balance : row \in hits}, proc[p].tb,
                      proc[p].cursor, proc[p].floor, proc[p].archived,
                      \A row \in hits : row.archived = proc[p].archived)
<1> DEFINE hits == {row \in LoadSnapshot(cache, 0) : Fresh(p, row)}
           pc == IF hits = {} THEN "compute" ELSE "have"
           balance == UNION {row.balance : row \in hits}
           exact == \A row \in hits : row.archived = proc[p].archived
<1>1. hits \in SUBSET {row \in cache : row.upto = proc[p].count}
  BY DEF LoadSnapshot, Fresh
<1>2. proc' = [proc EXCEPT ![p] = [@ EXCEPT !.pc = pc, !.balance = balance, !.exact = exact]]
  BY DEF LoadCached
<1> HIDE DEF hits
<1>3. balance \in SUBSET Nat
  <2>1. \A row \in cache : row.balance \subseteq Nat
    BY DEF BalanceInv, Covers
  <2>2. QED
    BY <1>1, <2>1
<1>4. proc \in [Procs -> Call] /\ pc \in Pcs /\ exact \in BOOLEAN
  BY DEF BalanceInv, Pcs
<1> HIDE DEF pc, balance, exact
<1>5. Moves(p, pc, proc[p].closedAt, proc[p].count, balance, proc[p].tb, proc[p].cursor,
            proc[p].floor, proc[p].archived, exact)
  BY <1>2, <1>3, <1>4, GoesLoaded
<1>6. StoreSame /\ cache' = cache /\ ends' = ends /\ proc[p].pc = "load"
  BY DEF LoadCached, StoreSame
<1>7. QED
  BY <1>1, <1>5, <1>6 DEF pc, balance, exact

LEMMA ComputeFacts ==
    ASSUME LogInv, BalanceInv, NEW p \in Procs, Compute(p)
    PROVE  /\ StoreSame /\ cache' = cache /\ ends' = ends /\ proc[p].pc = "compute"
           /\ Moves(p, "save", proc[p].closedAt, proc[p].count, Postings, proc[p].tb,
                    proc[p].cursor, proc[p].floor, proc[p].archived, proc[p].exact)
<1> DEFINE balance == Postings
           pc == "save"
<1>1. proc \in [Procs -> Call] /\ pc \in Pcs /\ balance \in SUBSET Nat
  <2>1. hot \subseteq Nat
    BY HotFacts DEF LogInv
  <2>2. balance \in SUBSET Nat
    BY <2>1, PostingsAre
  <2>3. QED
    BY <2>2 DEF BalanceInv, Pcs
<1>2. proc' = [proc EXCEPT ![p].pc = pc, ![p].balance = balance]
  BY DEF Compute
<1> HIDE DEF balance, pc
<1>3. Moves(p, pc, proc[p].closedAt, proc[p].count, balance, proc[p].tb,
            proc[p].cursor, proc[p].floor, proc[p].archived, proc[p].exact)
  BY <1>1, <1>2, GoesBalance
<1>4. QED
  BY <1>3 DEF Compute, StoreSame, balance, pc

LEMMA SaveFacts ==
    ASSUME BalanceInv, NEW p \in Procs, Save(p) \/ SkipSave(p)
    PROVE  /\ StoreSame /\ cache' = cache /\ ends' = ends /\ proc[p].pc = "save"
           /\ GoesOn(p, "insert") \/ GoesOn(p, "have")
<1>1. proc \in [Procs -> Call] /\ "insert" \in Pcs /\ "have" \in Pcs
  BY DEF BalanceInv, Pcs
<1>2. Goto(p, "insert") \/ Goto(p, "have")
  BY DEF Save, SkipSave
<1>3. GoesOn(p, "insert") \/ GoesOn(p, "have")
  BY <1>1, <1>2, Goes DEF GoesOn
<1>4. QED
  BY <1>3 DEF Save, SkipSave, StoreSame

LEMMA InsertFacts ==
    ASSUME BalanceInv, NEW p \in Procs, InsertCached(p)
    PROVE  /\ StoreSame /\ ends' = ends /\ proc[p].pc = "insert"
           /\ GoesOn(p, "prune")
           /\ \A row \in cache : ~ (row.asOf = 0 /\ row.upto = proc[p].count)
           /\ \E row : /\ row.asOf = 0 /\ row.upto = proc[p].count
                      /\ row.balance = proc[p].balance /\ row.archived = proc[p].archived
                      /\ cache' = cache \cup {row}
<1>1. proc \in [Procs -> Call] /\ "prune" \in Pcs
  BY DEF BalanceInv, Pcs
<1>2. GoesOn(p, "prune")
  BY <1>1, Goes DEF GoesOn, InsertCached
<1>3. \A row \in cache : ~ (row.asOf = 0 /\ row.upto = proc[p].count)
  BY DEF InsertCached, SameSnapshot
<1> DEFINE new == [id |-> NextId(cache), asOf |-> 0, upto |-> proc[p].count,
                   balance |-> proc[p].balance, archived |-> proc[p].archived]
<1>4. cache' = cache \cup {new}
  BY DEF InsertCached
<1>5. /\ new.asOf = 0 /\ new.upto = proc[p].count /\ new.balance = proc[p].balance
      /\ new.archived = proc[p].archived
  OBVIOUS
<1> HIDE DEF new
<1>6. QED
  BY <1>2, <1>3, <1>4, <1>5 DEF InsertCached, StoreSame

LEMMA InsertThrowsFacts ==
    ASSUME BalanceInv, NEW p \in Procs, InsertThrows(p)
    PROVE  StoreSame /\ cache' = cache /\ ends' = ends /\ Becomes(p, Idle)
BY BecomesIdle DEF InsertThrows, StoreSame, BalanceInv

LEMMA PruneFacts ==
    ASSUME BalanceInv, NEW p \in Procs, PruneCached(p)
    PROVE  /\ StoreSame /\ cache' \subseteq cache /\ ends' = ends /\ proc[p].pc = "prune"
           /\ GoesOn(p, "have")
<1>1. proc \in [Procs -> Call] /\ "have" \in Pcs
  BY DEF BalanceInv, Pcs
<1>2. GoesOn(p, "have")
  BY <1>1, Goes DEF GoesOn, PruneCached
<1>3. QED
  BY <1>2 DEF PruneCached, StoreSame, Pruned

LEMMA BeginInterimFacts ==
    ASSUME BalanceInv, NEW p \in Procs, BeginInterim(p)
    PROVE  /\ StoreSame /\ cache' = cache /\ ends' = ends /\ proc[p].pc = "idle"
           /\ GoesOn(p, "count")
<1>1. proc \in [Procs -> Call] /\ "count" \in Pcs
  BY DEF BalanceInv, Pcs
<1>2. GoesOn(p, "count")
  BY <1>1, Goes DEF GoesOn, BeginInterim
<1>3. QED
  BY <1>2 DEF BeginInterim, StoreSame

LEMMA BeginCloseFacts ==
    ASSUME LogInv, BalanceInv, BeginClose
    PROVE  /\ StoreSame /\ cache' = cache /\ ends' = ends /\ proc[Closer].pc = "idle"
           /\ MayClose
           /\ Moves(Closer, "count", now, proc[Closer].count, proc[Closer].balance,
                    proc[Closer].tb, proc[Closer].cursor, proc[Closer].floor,
                    proc[Closer].archived, proc[Closer].exact)
<1>1. proc \in [Procs -> Call] /\ "count" \in Pcs /\ now \in Nat /\ Closer \in Procs
  BY InProcs, CloseAssumption DEF BalanceInv, LogInv, Pcs
<1>2. proc' = [proc EXCEPT ![Closer].pc = "count", ![Closer].closedAt = now]
  BY DEF BeginClose
<1>3. QED
  BY <1>1, <1>2, GoesDated DEF BeginClose, StoreSame

LEMMA WatermarkFacts ==
    ASSUME LogInv, BalanceInv, TakeWatermark
    PROVE  /\ StoreSame /\ cache' = cache /\ ends' = ends /\ proc[Closer].pc = "mark"
           /\ Moves(Closer, "end", proc[Closer].closedAt, proc[Closer].count,
                    proc[Closer].balance, proc[Closer].tb, Len(log), proc[Closer].floor,
                    proc[Closer].archived, proc[Closer].exact)
<1>1. HighWatermark = Len(log) /\ Len(log) \in Nat
  <2>1. Len(log) \in Nat /\ hot \in SUBSET (1..Len(log))
    BY DEF LogInv
  <2>2. CASE hot = {}
    BY <2>1, <2>2 DEF LogInv, HighWatermark
  <2>3. CASE hot # {}
    <3>1. Latest(hot) \in hot /\ \A m \in hot : m <= Latest(hot)
      <4> DEFINE last == Len(log)
      <4>1. last \in Nat /\ hot \in SUBSET (1..last)
        BY <2>1
      <4> HIDE DEF last
      <4>2. QED
        BY <4>1, <2>3, LatestFacts
    <3>2. Latest(hot) \in 1..Len(log) /\ Len(log) \in hot
      <4>1. Latest(hot) \in 1..Len(log)
        BY <2>1, <3>1
      <4>2. Len(log) > 0
        BY <2>1, <4>1
      <4>3. QED
        BY <4>1, <4>2 DEF LogInv
    <3>3. Latest(hot) = Len(log)
      BY <2>1, <3>1, <3>2
    <3>4. QED
      BY <2>1, <2>3, <3>3 DEF HighWatermark
  <2>4. QED
    BY <2>2, <2>3
<1>2. proc \in [Procs -> Call] /\ "end" \in Pcs /\ Closer \in Procs
  BY InProcs DEF BalanceInv, Pcs
<1>3. proc' = [proc EXCEPT ![Closer].pc = "end", ![Closer].cursor = Len(log)]
  BY <1>1 DEF TakeWatermark
<1>4. QED
  BY <1>1, <1>2, <1>3, GoesCursor DEF TakeWatermark, StoreSame

LEMMA SnapshotEndFacts ==
    ASSUME BalanceInv, SnapshotEnd
    PROVE  /\ StoreSame /\ cache' = cache /\ proc[Closer].pc = "end"
           /\ GoesOn(Closer, "closed") /\ Unique(ends')
<1>1. proc \in [Procs -> Call] /\ "closed" \in Pcs /\ Closer \in Procs
  BY InProcs DEF BalanceInv, Pcs
<1>2. GoesOn(Closer, "closed")
  BY <1>1, Goes DEF GoesOn, SnapshotEnd
<1> DEFINE upto == Cardinality(proc[Closer].balance)
           row == [id |-> NextId(ends), asOf |-> proc[Closer].closedAt, upto |-> upto,
                   tb |-> proc[Closer].tb]
<1>3. row.asOf = proc[Closer].closedAt /\ row.upto = upto
  OBVIOUS
<1>4. IF SameSnapshot(ends, proc[Closer].closedAt, upto) = {}
      THEN ends' \in Pruned(ends \cup {row}, KeepN)
      ELSE ends' = ends
  BY DEF SnapshotEnd
<1> HIDE DEF row, upto
<1>5. CASE SameSnapshot(ends, proc[Closer].closedAt, upto) = {}
  <2>1. \A other \in ends : ~ (other.asOf = row.asOf /\ other.upto = row.upto)
    BY <1>3, <1>5 DEF SameSnapshot
  <2>2. ends' \subseteq ends \cup {row}
    BY <1>4, <1>5 DEF Pruned
  <2>3. QED
    <3>1. Unique(ends')
      BY <2>1, <2>2 DEF BalanceInv, Unique
    <3>2. QED
      BY <1>2, <3>1 DEF SnapshotEnd, StoreSame
<1>6. CASE SameSnapshot(ends, proc[Closer].closedAt, upto) # {}
  <2>1. Unique(ends')
    BY <1>4, <1>6 DEF BalanceInv
  <2>2. QED
    BY <1>2, <2>1 DEF SnapshotEnd, StoreSame
<1>7. QED
  BY <1>5, <1>6

LEMMA PostFacts ==
    ASSUME LogInv, NEW inside \in BOOLEAN, Post(inside)
    PROVE  /\ now' = now /\ cache' = cache /\ ends' = ends /\ proc' = proc
           /\ \E event \in Event : Appended(event) /\ event.type = "posting"
<1> DEFINE event == [type |-> "posting", inside |-> inside]
<1>1. event \in Event /\ event.type = "posting" /\ AppendEvent(event)
  BY DEF Event, Post
<1> HIDE DEF event
<1>2. Appended(event)
  BY <1>1, AppendFacts DEF LogInv
<1>3. QED
  BY <1>1, <1>2 DEF Post

\* An opening, the first or a later one, is dated now.
LEMMA OpenFacts ==
    ASSUME LogInv, Open \/ Reopen
    PROVE  /\ now' = now /\ cache' = cache /\ ends' = ends /\ proc' = proc
           /\ proc[Closer].pc = "idle"
           /\ \E event \in Event : Appended(event) /\ event.type = "opened" /\ event.asOf = now
<1>1. PICK reopenOf \in Nat :
        AppendEvent([type |-> "opened", asOf |-> now, reopenOf |-> reopenOf])
  <2>1. CASE Open
    BY <2>1 DEF Open
  <2>2. CASE Reopen
    <3> DEFINE last == Len(log)
               closes == OfType("closed")
    <3>1. last \in Nat /\ closes \in SUBSET (1..last) /\ closes # {}
      BY <2>2, HotFacts DEF Reopen, LogInv, OfType
    <3>2. AppendEvent([type |-> "opened", asOf |-> now, reopenOf |-> Latest(closes)])
      BY <2>2 DEF Reopen
    <3> HIDE DEF last, closes
    <3>3. Latest(closes) \in 1..last
      BY <3>1, LatestFacts
    <3>4. Latest(closes) \in Nat
      BY <3>1, <3>3
    <3>5. QED
      BY <3>2, <3>4
  <2>3. QED
    BY <2>1, <2>2
<1>2. now \in Nat
  BY CloseAssumption DEF LogInv
<1> DEFINE event == [type |-> "opened", asOf |-> now, reopenOf |-> reopenOf]
<1>3. event \in Event /\ event.type = "opened" /\ event.asOf = now /\ AppendEvent(event)
  BY <1>1, <1>2 DEF Event
<1> HIDE DEF event
<1>4. Appended(event)
  BY <1>3, AppendFacts DEF LogInv
<1>5. QED
  BY <1>3, <1>4 DEF Open, Reopen

LEMMA EndInterimFacts ==
    ASSUME LogInv, BalanceInv, NEW p \in Procs, EndInterim(p)
    PROVE  /\ now' = now /\ cache' = cache /\ ends' = ends /\ p # Closer
           /\ Becomes(p, Idle)
           /\ \E event \in Event : Appended(event) /\ event.type = "balance"
<1> DEFINE event == [type |-> "balance", kind |-> "interim", rows |-> proc[p].balance]
<1>1. proc[p].balance \subseteq Nat
  BY HotFacts DEF BalanceInv
<1>2. event \in Event /\ event.type = "balance" /\ AppendEvent(event)
  BY <1>1 DEF Event, EndInterim
<1> HIDE DEF event
<1>3. Appended(event)
  BY <1>2, AppendFacts DEF LogInv
<1>4. Becomes(p, Idle)
  BY BecomesIdle DEF BalanceInv, EndInterim
<1>5. QED
  BY <1>2, <1>3, <1>4, CloseAssumption DEF EndInterim

LEMMA AppendBalanceFacts ==
    ASSUME LogInv, BalanceInv, AppendBalance
    PROVE  /\ now' = now /\ cache' = cache /\ ends' = ends /\ proc[Closer].pc = "have"
           /\ Moves(Closer, "mark", proc[Closer].closedAt, proc[Closer].count,
                    proc[Closer].balance, Len(log) + 1, proc[Closer].cursor,
                    proc[Closer].floor, proc[Closer].archived, proc[Closer].exact)
           /\ \E event \in Event : /\ Appended(event) /\ event.type = "balance"
                                  /\ event.kind = "close" /\ event.rows = proc[Closer].balance
<1> DEFINE event == [type |-> "balance", kind |-> "close", rows |-> proc[Closer].balance]
           tb == Len(log) + 1
<1>1. proc[Closer].balance \subseteq Nat /\ tb \in Nat
  BY HotFacts, InProcs DEF BalanceInv
<1>2. /\ event \in Event /\ event.type = "balance" /\ event.kind = "close"
      /\ event.rows = proc[Closer].balance /\ AppendEvent(event)
  BY <1>1 DEF Event, AppendBalance
<1>3. proc \in [Procs -> Call] /\ "mark" \in Pcs /\ Closer \in Procs
  BY InProcs DEF BalanceInv, Pcs
<1>4. proc' = [proc EXCEPT ![Closer].pc = "mark", ![Closer].tb = tb]
  BY DEF AppendBalance
<1> HIDE DEF event, tb
<1>5. Moves(Closer, "mark", proc[Closer].closedAt, proc[Closer].count,
            proc[Closer].balance, tb, proc[Closer].cursor,
            proc[Closer].floor, proc[Closer].archived, proc[Closer].exact)
  BY <1>1, <1>3, <1>4, GoesNamed
<1>6. Appended(event)
  BY <1>2, AppendFacts DEF LogInv
<1>7. QED
  BY <1>2, <1>5, <1>6 DEF AppendBalance, tb

LEMMA AppendClosedFacts ==
    ASSUME LogInv, BalanceInv, AppendClosed
    PROVE  /\ now' = now /\ cache' = cache /\ ends' = ends /\ proc[Closer].pc = "closed"
           /\ Becomes(Closer, Idle)
           /\ \E event \in Event : /\ Appended(event) /\ event.type = "closed"
                                  /\ event.asOf = proc[Closer].closedAt
                                  /\ event.tb = proc[Closer].tb
                                  /\ event.eventSequence = proc[Closer].cursor
<1> DEFINE event == [type |-> "closed", asOf |-> proc[Closer].closedAt,
                     tb |-> proc[Closer].tb, eventSequence |-> proc[Closer].cursor]
<1>1. proc \in [Procs -> Call] /\ Closer \in Procs
  BY InProcs DEF BalanceInv
<1>2. proc[Closer].closedAt \in Nat /\ proc[Closer].tb \in Nat /\ proc[Closer].cursor \in Nat
  BY <1>1 DEF Call
<1>3. /\ event \in Event /\ event.type = "closed" /\ event.asOf = proc[Closer].closedAt
      /\ event.tb = proc[Closer].tb /\ event.eventSequence = proc[Closer].cursor
      /\ AppendEvent(event)
  BY <1>2 DEF Event, AppendClosed
<1> HIDE DEF event
<1>4. Appended(event)
  BY <1>3, AppendFacts DEF LogInv
<1>5. Becomes(Closer, Idle)
  BY <1>1, BecomesIdle DEF AppendClosed
<1>6. QED
  BY <1>3, <1>4, <1>5 DEF AppendClosed

LEMMA CrashFacts ==
    ASSUME BalanceInv, NEW p \in Procs, Crash(p)
    PROVE  StoreSame /\ cache' = cache /\ ends' = ends /\ Becomes(p, Idle)
BY BecomesIdle DEF Crash, StoreSame, BalanceInv

\* The oldest event goes, and it is not the newest.
LEMMA ArchiveFacts ==
    ASSUME LogInv, Archive
    PROVE  /\ now' = now /\ log' = log /\ cache' = cache /\ ends' = ends /\ proc' = proc
           /\ \E oldest \in hot : /\ hot' = hot \ {oldest} /\ oldest # Len(log)
                                 /\ \A n \in hot : oldest <= n
<1> DEFINE oldest == CHOOSE n \in hot : \A m \in hot : n <= m
<1>1. hot \in SUBSET Nat /\ Len(log) \in Nat /\ hot \subseteq 1..Len(log)
  BY HotFacts DEF LogInv
<1>2. hot # {}
  BY FS_EmptySet DEF Archive
<1>3. \E n \in hot : \A m \in hot : n <= m
  BY <1>1, <1>2, Least
<1>4. oldest \in hot /\ \A n \in hot : oldest <= n
  BY <1>3
<1>5. hot' = hot \ {oldest}
  BY DEF Archive
<1> HIDE DEF oldest
<1>6. ASSUME oldest = Len(log)
      PROVE  FALSE
  <2>1. \A n \in hot : n = oldest
    BY <1>1, <1>4, <1>6
  <2>2. hot = {oldest}
    BY <1>4, <2>1
  <2>3. Cardinality(hot) = 1
    BY <2>2, FS_Singleton
  <2>4. QED
    BY <2>3 DEF Archive
<1>7. QED
  BY <1>4, <1>5, <1>6 DEF Archive

(***************************************************************************)
(* The log.                                                                *)
(***************************************************************************)

LEMMA LogAppends ==
    ASSUME LogInv, NEW event \in Event, Appended(event), now' = now,
           event.type \in {"opened", "closed"} => event.asOf \in 0..now
    PROVE  LogInv'
<1> DEFINE last == Len(log)
<1>1. /\ last \in Nat /\ Len(log') = last + 1 /\ log' \in Seq(Event)
      /\ hot' = hot \cup {last + 1} /\ hot \subseteq 1..last
      /\ \A n \in 1..last : log'[n] = log[n]
      /\ log'[last + 1] = event
      /\ \A n \in hot : n..last \subseteq hot
  BY DEF LogInv, Appended
<1>2. \A n \in 1..last : log[n].type \in {"opened", "closed"} => log[n].asOf \in 0..now
  BY DEF LogInv
<1> HIDE DEF last
<1>3. hot' \subseteq 1..(last + 1) /\ last + 1 \in hot'
  <2>1. 1..last \subseteq 1..(last + 1) /\ last + 1 \in 1..(last + 1)
    BY <1>1
  <2>2. QED
    BY <1>1, <2>1
<1>4. \A n \in hot' : n..(last + 1) \subseteq hot'
  BY <1>1
<1>5. ASSUME NEW n \in 1..(last + 1), log'[n].type \in {"opened", "closed"}
      PROVE  log'[n].asOf \in 0..now
  <2>1. CASE n \in 1..last
    BY <1>1, <1>2, <1>5, <2>1
  <2>2. CASE n = last + 1
    BY <1>1, <1>5, <2>2
  <2>3. QED
    BY <1>1, <2>1, <2>2
<1>6. now' \in 0..MaxTime
  BY DEF LogInv
<1>7. QED
  BY <1>1, <1>3, <1>4, <1>5, <1>6 DEF LogInv

LEMMA LogSame ==
    ASSUME LogInv, StoreSame
    PROVE  LogInv'
BY DEF LogInv, StoreSame

LEMMA LogArchives ==
    ASSUME LogInv, Archive
    PROVE  LogInv'
<1>1. PICK oldest \in hot : /\ hot' = hot \ {oldest} /\ oldest # Len(log)
                            /\ \A n \in hot : oldest <= n
  BY ArchiveFacts
<1>2. now' = now /\ log' = log
  BY ArchiveFacts
<1>3. Len(log) \in Nat /\ hot \subseteq 1..Len(log)
  BY HotFacts DEF LogInv
<1>4. ASSUME NEW n \in hot'
      PROVE  n..Len(log) \subseteq hot'
  <2>1. n \in hot /\ oldest <= n /\ n # oldest /\ n \in Nat /\ oldest \in Nat
    BY <1>1, <1>3
  <2>2. n..Len(log) \subseteq hot
    BY <2>1 DEF LogInv
  <2>3. oldest \notin n..Len(log)
    BY <1>3, <2>1
  <2>4. QED
    BY <1>1, <2>2, <2>3
<1>5. QED
  BY <1>1, <1>2, <1>4 DEF LogInv

(***************************************************************************)
(* What every step keeps of the log: LogInv, and that events stay.         *)
(***************************************************************************)

LEMMA LogStep ==
    ASSUME LogInv, BalanceInv, CloseInv, [Next]_vars
    PROVE  LogInv' /\ Extended
<1> USE DEF BalanceStep
<1>1. SUFFICES LogInv' /\ (\/ \E event : Appended(event)
                           \/ log' = log /\ hot' \subseteq hot)
  BY AppendExtends, SameExtends
<1>2. ASSUME StoreSame
      PROVE  LogInv' /\ log' = log /\ hot' \subseteq hot
  BY <1>2, LogSame DEF StoreSame
<1>3. ASSUME NEW event \in Event, Appended(event), now' = now,
             event.type \in {"opened", "closed"} => event.asOf \in 0..now
      PROVE  LogInv' /\ \E any : Appended(any)
  BY <1>3, LogAppends
<1>4. CASE UNCHANGED vars
  BY <1>2, <1>4 DEF vars, StoreSame
<1>5. CASE Clock
  BY <1>5, CloseAssumption DEF Clock, LogInv
<1>6. ASSUME NEW inside \in BOOLEAN, Post(inside)
      PROVE  LogInv' /\ \E any : Appended(any)
  <2>1. PICK event \in Event : Appended(event) /\ event.type = "posting"
    BY <1>6, PostFacts
  <2>2. now' = now /\ event.type \notin {"opened", "closed"}
    BY <1>6, <2>1, PostFacts
  <2>3. QED
    BY <1>3, <2>1, <2>2
<1>7. CASE Archive
  BY <1>7, ArchiveFacts, LogArchives
<1>8. CASE Open \/ Reopen
  <2>1. PICK event \in Event : Appended(event) /\ event.type = "opened" /\ event.asOf = now
    BY <1>8, OpenFacts
  <2>2. now' = now /\ event.asOf \in 0..now
    BY <1>8, <2>1, OpenFacts, CloseAssumption DEF LogInv
  <2>3. QED
    BY <1>3, <2>1, <2>2
<1>9. CASE HandlerCloses \/ OperatorCloses
  BY <1>2, <1>9, BeginCloseFacts DEF HandlerCloses, OperatorCloses
<1>10. ASSUME NEW p \in Procs, BalanceStep(p)
       PROVE  LogInv' /\ log' = log /\ hot' \subseteq hot
  BY <1>2, <1>10, CountFacts, LoadFacts, ComputeFacts, SaveFacts, InsertFacts,
     InsertThrowsFacts, PruneFacts
<1>11. CASE AppendBalance
  <2>1. PICK event \in Event : Appended(event) /\ event.type = "balance"
    BY <1>11, AppendBalanceFacts
  <2>2. now' = now /\ event.type \notin {"opened", "closed"}
    BY <1>11, <2>1, AppendBalanceFacts
  <2>3. QED
    BY <1>3, <2>1, <2>2
<1>12. CASE TakeWatermark \/ SnapshotEnd
  BY <1>2, <1>12, WatermarkFacts, SnapshotEndFacts
<1>13. CASE AppendClosed
  <2>1. PICK event \in Event : Appended(event) /\ event.asOf = proc[Closer].closedAt
    BY <1>13, AppendClosedFacts
  <2>2. now' = now /\ proc[Closer].pc = "closed"
    BY <1>13, AppendClosedFacts
  <2>3. proc[Closer].closedAt \in Nat /\ proc[Closer].closedAt <= now /\ now \in Nat
    BY <2>2, InProcs, CloseAssumption DEF LogInv, BalanceInv, CloseInv, Call
  <2>4. event.asOf \in 0..now
    BY <2>1, <2>3
  <2>5. QED
    BY <1>3, <2>1, <2>2, <2>4
<1>14. ASSUME NEW p \in Readers, BeginInterim(p) \/ BalanceStep(p) \/ EndInterim(p)
       PROVE  LogInv' /\ (\/ \E any : Appended(any)
                          \/ log' = log /\ hot' \subseteq hot)
  <2>1. p \in Procs
    BY InProcs
  <2>2. CASE BeginInterim(p)
    BY <1>2, <2>1, <2>2, BeginInterimFacts
  <2>3. CASE BalanceStep(p)
    BY <1>10, <2>1, <2>3
  <2>4. CASE EndInterim(p)
    <3>1. PICK event \in Event : Appended(event) /\ event.type = "balance"
      BY <2>1, <2>4, EndInterimFacts
    <3>2. now' = now /\ event.type \notin {"opened", "closed"}
      BY <2>1, <2>4, <3>1, EndInterimFacts
    <3>3. QED
      BY <1>3, <3>1, <3>2
  <2>5. QED
    BY <1>14, <2>2, <2>3, <2>4
<1>15. ASSUME NEW p \in Procs, Crash(p)
       PROVE  LogInv' /\ log' = log /\ hot' \subseteq hot
  BY <1>2, <1>15, CrashFacts
<1>16. QED
  BY <1>4, <1>5, <1>6, <1>7, <1>8, <1>9, <1>10, <1>11, <1>12, <1>13, <1>14, <1>15, InProcs
     DEF Next, CloseStep

(***************************************************************************)
(* The balances.                                                           *)
(***************************************************************************)

\* A row of the cache covers the sequence that its label stands for.
RowOK(row) ==
    /\ row.upto \in Nat /\ row.archived \in Nat /\ row.upto + row.archived <= Len(log)
    /\ Covers(row.balance, row.upto + row.archived)

\* So does the balance of a call, if it is exact.
CallOK(p) ==
    proc[p].pc \in {"load", "compute", "save", "insert", "prune", "have"} =>
      LET upto == proc[p].count + proc[p].archived IN
      /\ upto <= Len(log)
      /\ proc[p].floor \subseteq {n \in 1..upto : Inside(n)}
      /\ proc[p].pc \in {"save", "insert"} => Covers(proc[p].balance, upto)
      /\ proc[p].pc \in {"prune", "have"} /\ proc[p].exact => Covers(proc[p].balance, upto)

LEMMA BalanceParts ==
    BalanceInv <=> /\ Unique(cache) /\ Unique(ends)
                   /\ \A row \in cache : RowOK(row)
                   /\ proc \in [Procs -> Call]
                   /\ \A p \in Procs : proc[p].balance \subseteq 1..Len(log)
                   /\ \A p \in Procs : CallOK(p)
BY DEF BalanceInv, RowOK, CallOK

LEMMA InsideKept ==
    ASSUME Extended, NEW n \in 1..Len(log)
    PROVE  Inside(n)' <=> Inside(n)
BY DEF Extended, Inside

LEMMA CoversKept ==
    ASSUME LogInv', Extended, NEW balance, NEW upto \in Nat, upto <= Len(log),
           Covers(balance, upto)
    PROVE  Covers(balance, upto)'
<1>1. /\ Len(log) \in Nat /\ Len(log') \in Nat /\ Len(log) <= Len(log')
      /\ \A n \in hot' : n <= Len(log) => n \in hot
      /\ hot' \subseteq 1..Len(log')
  BY DEF Extended, LogInv
<1>2. balance \subseteq {n \in 1..Len(log') : Inside(n)'}
  BY <1>1, InsideKept DEF Covers
<1>3. ASSUME NEW n \in hot', n <= upto, Inside(n)'
      PROVE  n \in balance
  <2>1. n \in 1..Len(log) /\ n \in hot
    BY <1>1, <1>3
  <2>2. Inside(n)
    BY <1>3, <2>1, InsideKept
  <2>3. QED
    BY <1>3, <2>1, <2>2 DEF Covers
<1>4. QED
  BY <1>2, <1>3 DEF Covers

LEMMA RowKept ==
    ASSUME LogInv', Extended, NEW row, RowOK(row)
    PROVE  RowOK(row)'
<1>1. /\ row.upto \in Nat /\ row.archived \in Nat /\ row.upto + row.archived <= Len(log)
      /\ Covers(row.balance, row.upto + row.archived)
  BY DEF RowOK
<1>2. Len(log) \in Nat /\ Len(log') \in Nat /\ Len(log) <= Len(log')
  BY DEF Extended
<1>3. row.upto + row.archived \in Nat /\ row.upto + row.archived <= Len(log')
  BY <1>1, <1>2
<1>4. Covers(row.balance, row.upto + row.archived)'
  <2>1. PICK balance, upto : balance = row.balance /\ upto = row.upto + row.archived
    OBVIOUS
  <2>2. Covers(balance, upto)'
    BY <1>1, <1>3, <2>1, CoversKept
  <2>3. QED
    BY <2>1, <2>2
<1>5. QED
  BY <1>1, <1>3, <1>4 DEF RowOK

LEMMA CallKept ==
    ASSUME LogInv', Extended, proc \in [Procs -> Call], NEW p \in Procs,
           proc'[p] = proc[p], CallOK(p)
    PROVE  CallOK(p)'
<1>1. PICK call \in Call : call = proc[p]
  OBVIOUS
<1>2. SUFFICES ASSUME call.pc \in {"load", "compute", "save", "insert", "prune", "have"}
               PROVE  CallOK(p)'
  BY <1>1 DEF CallOK
<1>3. PICK upto \in Nat : upto = call.count + call.archived
  BY DEF Call
<1>4. /\ upto <= Len(log)
      /\ call.floor \subseteq {n \in 1..upto : Inside(n)}
      /\ call.pc \in {"save", "insert"} => Covers(call.balance, upto)
      /\ call.pc \in {"prune", "have"} /\ call.exact => Covers(call.balance, upto)
  BY <1>1, <1>2, <1>3 DEF CallOK
<1>5. Len(log) \in Nat /\ Len(log') \in Nat /\ Len(log) <= Len(log') /\ upto <= Len(log')
  BY <1>4 DEF Extended
<1>6. call.floor \subseteq {n \in 1..upto : Inside(n)'}
  <2>1. \A n \in 1..upto : n \in 1..Len(log)
    BY <1>4, <1>5
  <2>2. QED
    BY <1>4, <2>1, InsideKept
<1>7. PICK balance : balance = call.balance
  OBVIOUS
<1>8. Covers(balance, upto) => Covers(balance, upto)'
  BY <1>4, CoversKept
<1>9. /\ call.pc \in {"save", "insert"} => Covers(balance, upto)'
      /\ call.pc \in {"prune", "have"} /\ call.exact => Covers(balance, upto)'
  BY <1>4, <1>7, <1>8
<1>10. QED
  BY <1>1, <1>3, <1>5, <1>6, <1>7, <1>9 DEF CallOK

\* A step of one call.
LEMMA OneCall ==
    ASSUME LogInv', Extended, BalanceInv, NEW p \in Procs, proc' \in [Procs -> Call],
           Others(p), proc'[p].balance \subseteq 1..Len(log'), CallOK(p)',
           Unique(cache'), \A row \in cache' \ cache : RowOK(row)', Unique(ends')
    PROVE  BalanceInv'
<1>1. Unique(cache)' /\ Unique(ends)'
  BY DEF Unique
<1>2. ASSUME NEW row \in cache'
      PROVE  RowOK(row)'
  BY <1>2, RowKept, BalanceParts
<1>3. ASSUME NEW q \in Procs
      PROVE  proc'[q].balance \subseteq 1..Len(log') /\ CallOK(q)'
  <2>1. CASE q = p
    BY <2>1
  <2>2. CASE q # p
    <3>1. proc'[q] = proc[q] /\ CallOK(q) /\ proc \in [Procs -> Call]
      BY <2>2, BalanceParts DEF Others
    <3>2. CallOK(q)'
      BY <3>1, CallKept
    <3>3. proc[q].balance \subseteq 1..Len(log)
      BY BalanceParts
    <3>4. QED
      BY <3>1, <3>2, <3>3 DEF Extended
  <2>3. QED
    BY <2>1, <2>2
<1>4. QED
  BY <1>1, <1>2, <1>3 DEF BalanceInv, RowOK, CallOK

\* A step of none.
LEMMA NoCall ==
    ASSUME LogInv', Extended, BalanceInv, proc' = proc, cache' = cache, ends' = ends
    PROVE  BalanceInv'
<1>1. \A q \in Procs : proc'[q] = proc[q] /\ CallOK(q) /\ proc \in [Procs -> Call]
  BY BalanceParts
<1>2. \A q \in Procs : CallOK(q)'
  BY <1>1, CallKept
<1>3. \A row \in cache' : RowOK(row)'
  BY RowKept, BalanceParts
<1>4. \A q \in Procs : proc'[q].balance \subseteq 1..Len(log')
  BY BalanceParts DEF Extended
<1>5. Unique(cache)' /\ Unique(ends)'
  BY BalanceParts DEF Unique
<1>6. proc' \in [Procs -> Call]
  BY BalanceParts
<1>7. QED
  BY <1>2, <1>3, <1>4, <1>5, <1>6 DEF BalanceInv, RowOK, CallOK

LEMMA CountBalance ==
    ASSUME LogInv, LogInv', Extended, BalanceInv, NEW p \in Procs, Count(p)
    PROVE  BalanceInv'
<1>1. /\ StoreSame /\ cache' = cache /\ ends' = ends
      /\ Moves(p, "load", proc[p].closedAt, Cardinality(hot), proc[p].balance, proc[p].tb,
               proc[p].cursor, Postings, Cardinality(Archived), proc[p].exact)
  BY CountFacts
<1>2. /\ proc' \in [Procs -> Call] /\ Others(p) /\ proc'[p].pc = "load"
      /\ proc'[p].count = Cardinality(hot) /\ proc'[p].archived = Cardinality(Archived)
      /\ proc'[p].floor = Postings /\ proc'[p].balance = proc[p].balance
  BY <1>1 DEF Moves
<1>3. proc'[p].count + proc'[p].archived = Len(log) /\ Len(log) \in Nat
  BY <1>2, HotFacts
<1>4. Postings \subseteq {n \in 1..Len(log) : Inside(n)'}
  BY <1>1, PostingsAre DEF LogInv, StoreSame, Inside
<1>5. CallOK(p)'
  BY <1>1, <1>2, <1>3, <1>4 DEF CallOK, StoreSame
<1>6. proc'[p].balance \subseteq 1..Len(log')
  BY <1>1, <1>2, BalanceParts DEF StoreSame
<1>7. Unique(cache') /\ Unique(ends')
  BY <1>1, BalanceParts
<1>8. QED
  BY <1>1, <1>2, <1>5, <1>6, <1>7, OneCall

\* A hit of the same population, the archived events included, covers what it covers.
LEMMA LoadBalance ==
    ASSUME LogInv, LogInv', Extended, BalanceInv, NEW p \in Procs, LoadCached(p)
    PROVE  BalanceInv'
<1>1. StoreSame /\ cache' = cache /\ ends' = ends /\ proc[p].pc = "load"
  BY LoadFacts
<1>2. PICK hits \in SUBSET {row \in cache : row.upto = proc[p].count} :
        Moves(p, IF hits = {} THEN "compute" ELSE "have", proc[p].closedAt,
              proc[p].count, UNION {row.balance : row \in hits}, proc[p].tb,
              proc[p].cursor, proc[p].floor, proc[p].archived,
              \A row \in hits : row.archived = proc[p].archived)
  BY LoadFacts
<1>3. PICK balance : balance = UNION {row.balance : row \in hits}
  OBVIOUS
<1>4. /\ proc' \in [Procs -> Call] /\ Others(p)
      /\ proc'[p].pc = IF hits = {} THEN "compute" ELSE "have"
      /\ proc'[p].count = proc[p].count /\ proc'[p].archived = proc[p].archived
      /\ proc'[p].floor = proc[p].floor /\ proc'[p].balance = balance
      /\ proc'[p].exact = (\A row \in hits : row.archived = proc[p].archived)
  BY <1>2, <1>3 DEF Moves
<1>5. PICK upto : upto = proc[p].count + proc[p].archived
  OBVIOUS
<1>6. upto <= Len(log) /\ proc[p].floor \subseteq {n \in 1..upto : Inside(n)}
  BY <1>1, <1>5, BalanceParts DEF CallOK
<1>7. \A row \in hits : Covers(row.balance, row.upto + row.archived)
  BY BalanceParts DEF RowOK
<1>8. balance \subseteq {n \in 1..Len(log) : Inside(n)}
  BY <1>3, <1>7 DEF Covers
<1>9. ASSUME hits # {}, \A row \in hits : row.archived = proc[p].archived
      PROVE  Covers(balance, upto)
  <2>1. PICK row \in hits : TRUE
    BY <1>9
  <2>2. Covers(row.balance, upto)
    BY <1>5, <1>7, <1>9, <2>1
  <2>3. row.balance \subseteq balance
    BY <1>3
  <2>4. QED
    BY <1>8, <2>2, <2>3 DEF Covers
<1>10. CallOK(p)'
  BY <1>1, <1>4, <1>5, <1>6, <1>9 DEF CallOK, StoreSame, Covers, Inside
<1>11. proc'[p].balance \subseteq 1..Len(log')
  BY <1>1, <1>4, <1>8 DEF StoreSame
<1>12. Unique(cache') /\ Unique(ends')
  BY <1>1, BalanceParts
<1>13. QED
  BY <1>1, <1>4, <1>10, <1>11, <1>12, OneCall

LEMMA ComputeBalance ==
    ASSUME LogInv, LogInv', Extended, BalanceInv, NEW p \in Procs, Compute(p)
    PROVE  BalanceInv'
<1>1. /\ StoreSame /\ cache' = cache /\ ends' = ends /\ proc[p].pc = "compute"
      /\ Moves(p, "save", proc[p].closedAt, proc[p].count, Postings, proc[p].tb,
               proc[p].cursor, proc[p].floor, proc[p].archived, proc[p].exact)
  BY ComputeFacts
<1>2. PICK balance : balance = Postings
  OBVIOUS
<1>3. /\ proc' \in [Procs -> Call] /\ Others(p) /\ proc'[p].pc = "save"
      /\ proc'[p].count = proc[p].count /\ proc'[p].archived = proc[p].archived
      /\ proc'[p].floor = proc[p].floor /\ proc'[p].balance = balance
  BY <1>1, <1>2 DEF Moves
<1>4. PICK upto : upto = proc[p].count + proc[p].archived
  OBVIOUS
<1>5. upto <= Len(log) /\ proc[p].floor \subseteq {n \in 1..upto : Inside(n)}
  BY <1>1, <1>4, BalanceParts DEF CallOK
<1>6. Covers(balance, upto)
  BY <1>2, PostingsAre DEF Covers, LogInv
<1>7. CallOK(p)'
  BY <1>1, <1>3, <1>4, <1>5, <1>6 DEF CallOK, StoreSame, Covers, Inside
<1>8. proc'[p].balance \subseteq 1..Len(log')
  BY <1>1, <1>3, <1>6 DEF StoreSame, Covers
<1>9. Unique(cache') /\ Unique(ends')
  BY <1>1, BalanceParts
<1>10. QED
  BY <1>1, <1>3, <1>7, <1>8, <1>9, OneCall

\* A call that goes on with the same balance.
LEMMA GoesOnBalance ==
    ASSUME LogInv, LogInv', Extended, BalanceInv, NEW p \in Procs, NEW pc, GoesOn(p, pc),
           StoreSame, Unique(cache'), \A row \in cache' \ cache : RowOK(row)', Unique(ends'),
           \/ pc \notin {"load", "compute", "save", "insert", "prune", "have"}
           \/ proc[p].pc = "save" /\ pc \in {"insert", "have"}
           \/ proc[p].pc = "insert" /\ pc = "prune"
           \/ proc[p].pc = "prune" /\ pc = "have"
    PROVE  BalanceInv'
<1>1. /\ proc' \in [Procs -> Call] /\ Others(p) /\ proc'[p].pc = pc
      /\ proc'[p].count = proc[p].count /\ proc'[p].archived = proc[p].archived
      /\ proc'[p].floor = proc[p].floor /\ proc'[p].balance = proc[p].balance
      /\ proc'[p].exact = proc[p].exact
  BY DEF GoesOn, Moves
<1>2. CallOK(p)'
  <2>1. CallOK(p)
    BY BalanceParts
  <2>2. QED
    BY <1>1, <2>1 DEF CallOK, StoreSame, Covers, Inside
<1>3. proc'[p].balance \subseteq 1..Len(log')
  BY <1>1, BalanceParts DEF StoreSame
<1>4. QED
  BY <1>1, <1>2, <1>3, OneCall

\* The new row has the label of the call, and no row had that yet.
LEMMA InsertBalance ==
    ASSUME LogInv, LogInv', Extended, BalanceInv, NEW p \in Procs, InsertCached(p)
    PROVE  BalanceInv'
<1>1. /\ StoreSame /\ ends' = ends /\ proc[p].pc = "insert" /\ GoesOn(p, "prune")
      /\ \A row \in cache : ~ (row.asOf = 0 /\ row.upto = proc[p].count)
  BY InsertFacts
<1>2. PICK new : /\ new.asOf = 0 /\ new.upto = proc[p].count
                 /\ new.balance = proc[p].balance /\ new.archived = proc[p].archived
                 /\ cache' = cache \cup {new}
  BY InsertFacts
<1>3. proc[p].count \in Nat /\ proc[p].archived \in Nat
  BY BalanceParts DEF Call
<1>4. /\ proc[p].count + proc[p].archived <= Len(log)
      /\ Covers(proc[p].balance, proc[p].count + proc[p].archived)
  BY <1>1, BalanceParts DEF CallOK
<1>5. RowOK(new)
  BY <1>2, <1>3, <1>4 DEF RowOK
<1>6. RowOK(new)'
  BY <1>5, RowKept
<1>7. \A row \in cache' \ cache : RowOK(row)'
  BY <1>2, <1>6
<1>8. Unique(cache') /\ Unique(ends')
  <2>1. Unique(cache) /\ Unique(ends)
    BY BalanceParts
  <2>2. QED
    BY <1>1, <1>2, <2>1 DEF Unique
<1>9. QED
  BY <1>1, <1>7, <1>8, GoesOnBalance

LEMMA IdleBalance ==
    ASSUME LogInv', Extended, BalanceInv, NEW p \in Procs, Becomes(p, Idle),
           cache' = cache, ends' = ends
    PROVE  BalanceInv'
<1>1. /\ proc' \in [Procs -> Call] /\ Others(p) /\ proc'[p].pc = "idle"
      /\ proc'[p].balance = {}
  BY IdleFacts DEF Becomes
<1>2. CallOK(p)'
  BY <1>1 DEF CallOK
<1>3. Unique(cache') /\ Unique(ends')
  BY BalanceParts
<1>4. QED
  BY <1>1, <1>2, <1>3, OneCall

LEMMA TrialStep ==
    ASSUME LogInv, LogInv', Extended, BalanceInv, NEW p \in Procs, BalanceStep(p)
    PROVE  BalanceInv'
<1>1. Unique(cache) /\ Unique(ends)
  BY BalanceParts
<1>2. CASE Save(p) \/ SkipSave(p)
  BY <1>1, <1>2, SaveFacts, GoesOnBalance
<1>3. CASE InsertThrows(p)
  BY <1>3, InsertThrowsFacts, IdleBalance
<1>4. CASE PruneCached(p)
  <2>1. /\ StoreSame /\ cache' \subseteq cache /\ ends' = ends /\ proc[p].pc = "prune"
        /\ GoesOn(p, "have")
    BY <1>4, PruneFacts
  <2>2. Unique(cache') /\ Unique(ends') /\ \A row \in cache' \ cache : RowOK(row)'
    BY <1>1, <2>1 DEF Unique
  <2>3. QED
    BY <2>1, <2>2, GoesOnBalance
<1>5. QED
  BY <1>2, <1>3, <1>4, CountBalance, LoadBalance, ComputeBalance, InsertBalance
     DEF BalanceStep

\* A call to which no balance is attached yet, or no more.
LEMMA OtherBalance ==
    ASSUME LogInv', Extended, BalanceInv, NEW p \in Procs, proc' \in [Procs -> Call],
           Others(p), proc'[p].balance = proc[p].balance,
           proc'[p].pc \notin {"load", "compute", "save", "insert", "prune", "have"},
           cache' = cache, ends' = ends
    PROVE  BalanceInv'
<1>1. CallOK(p)'
  BY DEF CallOK
<1>2. proc'[p].balance \subseteq 1..Len(log')
  BY BalanceParts DEF Extended
<1>3. Unique(cache') /\ Unique(ends')
  BY BalanceParts
<1>4. QED
  BY <1>1, <1>2, <1>3, OneCall

LEMMA BalanceStepKeeps ==
    ASSUME LogInv, LogInv', Extended, BalanceInv, [Next]_vars
    PROVE  BalanceInv'
<1>1. Unique(cache) /\ Unique(ends) /\ Closer \in Procs
  BY BalanceParts, InProcs
<1>2. CASE UNCHANGED vars
  BY <1>2, NoCall DEF vars
<1>3. CASE Clock
  BY <1>3, NoCall DEF Clock
<1>4. ASSUME NEW inside \in BOOLEAN, Post(inside)
      PROVE  BalanceInv'
  BY <1>4, PostFacts, NoCall
<1>5. CASE Archive
  BY <1>5, ArchiveFacts, NoCall
<1>6. CASE Open \/ Reopen
  BY <1>6, OpenFacts, NoCall
<1>7. CASE HandlerCloses \/ OperatorCloses
  <2>1. BeginClose
    BY <1>7 DEF HandlerCloses, OperatorCloses
  <2>2. /\ proc' \in [Procs -> Call] /\ Others(Closer) /\ proc'[Closer].pc = "count"
        /\ proc'[Closer].balance = proc[Closer].balance /\ cache' = cache /\ ends' = ends
    BY <2>1, BeginCloseFacts DEF Moves
  <2>3. QED
    BY <1>1, <2>2, OtherBalance
<1>8. CASE AppendBalance
  <2>1. /\ proc' \in [Procs -> Call] /\ Others(Closer) /\ proc'[Closer].pc = "mark"
        /\ proc'[Closer].balance = proc[Closer].balance /\ cache' = cache /\ ends' = ends
    BY <1>8, AppendBalanceFacts DEF Moves
  <2>2. QED
    BY <1>1, <2>1, OtherBalance
<1>9. CASE TakeWatermark
  <2>1. /\ proc' \in [Procs -> Call] /\ Others(Closer) /\ proc'[Closer].pc = "end"
        /\ proc'[Closer].balance = proc[Closer].balance /\ cache' = cache /\ ends' = ends
    BY <1>9, WatermarkFacts DEF Moves
  <2>2. QED
    BY <1>1, <2>1, OtherBalance
<1>10. CASE SnapshotEnd
  <2>1. /\ StoreSame /\ cache' = cache /\ GoesOn(Closer, "closed") /\ Unique(ends')
    BY <1>10, SnapshotEndFacts
  <2>2. QED
    BY <1>1, <2>1, GoesOnBalance
<1>11. CASE AppendClosed
  BY <1>1, <1>11, AppendClosedFacts, IdleBalance
<1>12. ASSUME NEW p \in Readers, BeginInterim(p) \/ BalanceStep(p) \/ EndInterim(p)
       PROVE  BalanceInv'
  <2>1. p \in Procs
    BY InProcs
  <2>2. CASE BeginInterim(p)
    <3>1. StoreSame /\ cache' = cache /\ ends' = ends /\ GoesOn(p, "count")
      BY <2>1, <2>2, BeginInterimFacts
    <3>2. QED
      BY <1>1, <2>1, <3>1, GoesOnBalance
  <2>3. CASE BalanceStep(p)
    BY <2>1, <2>3, TrialStep
  <2>4. CASE EndInterim(p)
    BY <2>1, <2>4, EndInterimFacts, IdleBalance
  <2>5. QED
    BY <1>12, <2>2, <2>3, <2>4
<1>13. ASSUME NEW p \in Procs, Crash(p)
       PROVE  BalanceInv'
  BY <1>13, CrashFacts, IdleBalance
<1>14. QED
  BY <1>1, <1>2, <1>3, <1>4, <1>5, <1>6, <1>7, <1>8, <1>9, <1>10, <1>11, <1>12, <1>13, TrialStep
     DEF Next, CloseStep

(***************************************************************************)
(* The closes.                                                             *)
(***************************************************************************)

\* No close is dated before an opening that it follows.
Ordered ==
    \A k, m \in 1..Len(log) : k < m /\ log[k].type = "opened" /\ log[m].type = "closed" =>
      log[k].asOf <= log[m].asOf

Naming == \A n \in 1..Len(log) : log[n].type = "closed" => log[n].tb \in 1..n

ClosesInv == Ordered /\ Naming /\ OneClosePerOpen /\ CursorCoversBalance

\* A close dated like this may be under way.
Begun(closedAt) ==
    /\ closedAt <= now
    /\ \A k \in 1..Len(log) : log[k].type = "opened" => log[k].asOf <= closedAt
    /\ \E k \in 1..Len(log) : /\ log[k].type = "opened"
                              /\ \A m \in k..Len(log) : log[m].type # "closed"

\* Its trial balance is there.
Named(tb) ==
    /\ tb \in 1..Len(log) /\ log[tb].type = "balance" /\ log[tb].kind = "close"
    /\ log[tb].rows \subseteq 1..Len(log)

\* The cursor covers it.
Covered(tb, cursor) ==
    /\ tb <= cursor /\ cursor <= Len(log)
    /\ \A k \in log[tb].rows : k <= cursor

\* It holds what is hot still of these.
Holds(tb, floor) ==
    floor \subseteq 1..Len(log) /\ floor \cap hot \subseteq log[tb].rows

Placed(floor) == floor \subseteq 1..Len(log)

CloserInv ==
    /\ proc[Closer].pc # "idle" => Begun(proc[Closer].closedAt)
    /\ proc[Closer].pc \in {"mark", "end", "closed"} =>
         Named(proc[Closer].tb) /\ Placed(proc[Closer].floor)
    /\ proc[Closer].pc \in {"mark", "end", "closed"} /\ proc[Closer].exact =>
         Holds(proc[Closer].tb, proc[Closer].floor)
    /\ proc[Closer].pc \in {"end", "closed"} => Covered(proc[Closer].tb, proc[Closer].cursor)

LEMMA CloseParts ==
    CloseInv <=> ClosesInv /\ CloserInv
BY DEF CloseInv, ClosesInv, CloserInv, Ordered, Naming, Begun, Named, Covered, Holds, Placed

LEMMA ClosePartsNext ==
    ASSUME ClosesInv', CloserInv'
    PROVE  CloseInv'
BY DEF CloseInv, ClosesInv, CloserInv, Ordered, Naming, Begun, Named, Covered, Holds, Placed

LEMMA ClosesSame ==
    ASSUME ClosesInv, log' = log
    PROVE  ClosesInv'
BY DEF ClosesInv, Ordered, Naming, OneClosePerOpen, CursorCoversBalance

LEMMA ClosesAppended ==
    ASSUME LogInv, ClosesInv, NEW event, Appended(event), event.type # "closed"
    PROVE  ClosesInv'
<1> DEFINE last == Len(log)
<1>1. /\ last \in Nat /\ Len(log') = last + 1
      /\ \A n \in 1..last : log'[n] = log[n]
      /\ log'[last + 1] = event
  BY HotFacts DEF Appended
<1>2. \A n \in 1..(last + 1) : log'[n].type = "closed" => n \in 1..last /\ log[n].type = "closed"
  BY <1>1
<1>3. Ordered'
  <2>1. ASSUME NEW k \in 1..(last + 1), NEW m \in 1..(last + 1), k < m,
               log'[k].type = "opened", log'[m].type = "closed"
        PROVE  log'[k].asOf <= log'[m].asOf
    <3>1. m \in 1..last /\ k \in 1..last
      BY <1>1, <1>2, <2>1
    <3>2. QED
      BY <1>1, <2>1, <3>1 DEF ClosesInv, Ordered
  <2>2. QED
    BY <1>1, <2>1 DEF Ordered
<1>4. Naming'
  BY <1>1, <1>2 DEF ClosesInv, Naming
<1>5. OneClosePerOpen'
  <2>1. ASSUME NEW m \in 1..(last + 1), NEW n \in 1..(last + 1), m < n,
               log'[m].type = "closed", log'[n].type = "closed"
        PROVE  \E k \in m..n : log'[k].type = "opened"
    <3>1. m \in 1..last /\ n \in 1..last /\ log[m].type = "closed" /\ log[n].type = "closed"
      BY <1>2, <2>1
    <3>2. PICK k \in m..n : log[k].type = "opened"
      BY <2>1, <3>1 DEF ClosesInv, OneClosePerOpen
    <3>3. k \in 1..last
      BY <1>1, <3>1
    <3>4. QED
      BY <1>1, <3>2, <3>3
  <2>2. QED
    BY <1>1, <2>1 DEF OneClosePerOpen
<1>6. CursorCoversBalance'
  <2>1. ASSUME NEW n \in 1..(last + 1), log'[n].type = "closed"
        PROVE  LET tb == log'[n].tb IN
               /\ log'[tb].type = "balance" /\ log'[tb].kind = "close"
               /\ tb <= log'[n].eventSequence /\ log'[n].eventSequence < n
               /\ \A k \in log'[tb].rows : k <= log'[n].eventSequence
    <3>1. n \in 1..last /\ log[n].type = "closed"
      BY <1>2, <2>1
    <3>2. log[n].tb \in 1..last
      BY <1>1, <3>1 DEF ClosesInv, Naming
    <3>3. log'[n] = log[n] /\ log'[log[n].tb] = log[log[n].tb]
      BY <1>1, <3>1, <3>2
    <3>4. QED
      BY <3>1, <3>3 DEF ClosesInv, CursorCoversBalance
  <2>2. QED
    BY <1>1, <2>1 DEF CursorCoversBalance
<1>7. QED
  BY <1>3, <1>4, <1>5, <1>6 DEF ClosesInv

\* The close of a call in progress: an opening lies behind the close before, no
\* opening is dated later, and the balance and the cursor are as CloserInv says.
LEMMA ClosesClosed ==
    ASSUME LogInv, BalanceInv, ClosesInv, CloserInv, AppendClosed
    PROVE  ClosesInv'
<1> DEFINE last == Len(log)
<1>1. PICK event \in Event :
        /\ Appended(event) /\ event.type = "closed" /\ event.asOf = proc[Closer].closedAt
        /\ event.tb = proc[Closer].tb /\ event.eventSequence = proc[Closer].cursor
  BY AppendClosedFacts
<1>2. /\ last \in Nat /\ Len(log') = last + 1
      /\ \A n \in 1..last : log'[n] = log[n]
      /\ log'[last + 1] = event
  BY <1>1, HotFacts DEF Appended
<1>3. proc[Closer].pc = "closed" /\ event.tb \in Nat /\ event.eventSequence \in Nat
  BY <1>1, AppendClosedFacts DEF Event
<1>4. Begun(event.asOf) /\ Named(event.tb) /\ Covered(event.tb, event.eventSequence)
  BY <1>1, <1>3 DEF CloserInv
<1>5. Ordered'
  <2>1. ASSUME NEW k \in 1..(last + 1), NEW m \in 1..(last + 1), k < m,
               log'[k].type = "opened", log'[m].type = "closed"
        PROVE  log'[k].asOf <= log'[m].asOf
    <3>1. k \in 1..last
      BY <1>2, <2>1
    <3>2. CASE m \in 1..last
      BY <1>2, <2>1, <3>1, <3>2 DEF ClosesInv, Ordered
    <3>3. CASE m = last + 1
      BY <1>2, <1>4, <2>1, <3>1, <3>3 DEF Begun
    <3>4. QED
      BY <1>2, <3>2, <3>3
  <2>2. QED
    BY <1>2, <2>1 DEF Ordered
<1>6. Naming'
  <2>1. ASSUME NEW n \in 1..(last + 1), log'[n].type = "closed"
        PROVE  log'[n].tb \in 1..n
    <3>1. CASE n \in 1..last
      BY <1>2, <2>1, <3>1 DEF ClosesInv, Naming
    <3>2. CASE n = last + 1
      BY <1>2, <1>4, <3>2 DEF Named
    <3>3. QED
      BY <1>2, <3>1, <3>2
  <2>2. QED
    BY <1>2, <2>1 DEF Naming
<1>7. OneClosePerOpen'
  <2>1. ASSUME NEW m \in 1..(last + 1), NEW n \in 1..(last + 1), m < n,
               log'[m].type = "closed", log'[n].type = "closed"
        PROVE  \E k \in m..n : log'[k].type = "opened"
    <3>1. m \in 1..last /\ log[m].type = "closed"
      BY <1>2, <2>1
    <3>2. CASE n \in 1..last
      <4>1. PICK k \in m..n : log[k].type = "opened"
        BY <1>2, <2>1, <3>1, <3>2 DEF ClosesInv, OneClosePerOpen
      <4>2. k \in 1..last
        BY <1>2, <3>1, <3>2
      <4>3. QED
        BY <1>2, <4>1, <4>2
    <3>3. CASE n = last + 1
      <4>1. PICK k \in 1..last : /\ log[k].type = "opened"
                                 /\ \A other \in k..last : log[other].type # "closed"
        BY <1>4 DEF Begun
      <4>2. k \in m..n
        BY <1>2, <3>1, <3>3, <4>1
      <4>3. QED
        BY <1>2, <4>1, <4>2
    <3>4. QED
      BY <1>2, <3>2, <3>3
  <2>2. QED
    BY <1>2, <2>1 DEF OneClosePerOpen
<1>8. CursorCoversBalance'
  <2>1. ASSUME NEW n \in 1..(last + 1), log'[n].type = "closed"
        PROVE  LET tb == log'[n].tb IN
               /\ log'[tb].type = "balance" /\ log'[tb].kind = "close"
               /\ tb <= log'[n].eventSequence /\ log'[n].eventSequence < n
               /\ \A k \in log'[tb].rows : k <= log'[n].eventSequence
    <3>1. CASE n \in 1..last
      <4>1. log[n].tb \in 1..last
        BY <1>2, <2>1, <3>1 DEF ClosesInv, Naming
      <4>2. log'[n] = log[n] /\ log'[log[n].tb] = log[log[n].tb]
        BY <1>2, <3>1, <4>1
      <4>3. QED
        BY <2>1, <3>1, <4>2 DEF ClosesInv, CursorCoversBalance
    <3>2. CASE n = last + 1
      <4>1. event.tb \in 1..last /\ log'[n] = event /\ log'[event.tb] = log[event.tb]
        BY <1>2, <1>4, <3>2 DEF Named
      <4>2. event.eventSequence < n
        BY <1>2, <1>3, <1>4, <3>2 DEF Covered
      <4>3. QED
        BY <1>4, <4>1, <4>2 DEF Named, Covered
    <3>3. QED
      BY <1>2, <3>1, <3>2
  <2>2. QED
    BY <1>2, <2>1 DEF CursorCoversBalance
<1>9. QED
  BY <1>5, <1>6, <1>7, <1>8 DEF ClosesInv

\* What does not open or close leaves a close under way what it is.
Quiet == \/ log' = log
         \/ \E event : Appended(event) /\ event.type \notin {"opened", "closed"}

LEMMA BegunKept ==
    ASSUME LogInv, Quiet, now \in Nat, now' \in Nat, now <= now', NEW closedAt \in Nat,
           Begun(closedAt)
    PROVE  Begun(closedAt)'
<1> DEFINE last == Len(log)
<1>1. last \in Nat /\ closedAt <= now'
  BY HotFacts DEF Begun
<1>2. PICK k \in 1..last : /\ log[k].type = "opened"
                           /\ \A m \in k..last : log[m].type # "closed"
  BY DEF Begun
<1>3. \A n \in 1..last : log[n].type = "opened" => log[n].asOf <= closedAt
  BY DEF Begun
<1>4. CASE log' = log
  BY <1>1, <1>4 DEF Begun
<1>5. ASSUME NEW event, Appended(event), event.type \notin {"opened", "closed"}
      PROVE  Begun(closedAt)'
  <2>1. /\ Len(log') = last + 1
        /\ \A n \in 1..last : log'[n] = log[n]
        /\ log'[last + 1] = event
    BY <1>5 DEF Appended
  <2>2. \A n \in 1..(last + 1) : log'[n].type = "opened" => log'[n].asOf <= closedAt
    BY <1>1, <1>3, <1>5, <2>1
  <2>3. k \in 1..(last + 1) /\ log'[k].type = "opened"
    BY <1>1, <1>2, <2>1
  <2>4. ASSUME NEW m \in k..(last + 1)
        PROVE  log'[m].type # "closed"
    <3>1. CASE m = last + 1
      BY <1>5, <2>1, <3>1
    <3>2. CASE m # last + 1
      <4>1. m \in k..last /\ m \in 1..last
        BY <1>1, <2>4, <3>2
      <4>2. QED
        BY <1>2, <2>1, <4>1
    <3>3. QED
      BY <3>1, <3>2
  <2>5. QED
    BY <1>1, <2>1, <2>2, <2>3, <2>4 DEF Begun
<1>6. QED
  BY <1>4, <1>5 DEF Quiet

LEMMA NamedKept ==
    ASSUME Extended, NEW tb \in Nat, Named(tb)
    PROVE  Named(tb)'
BY DEF Extended, Named

LEMMA CoveredKept ==
    ASSUME Extended, NEW tb \in 1..Len(log), NEW cursor \in Nat, Covered(tb, cursor)
    PROVE  Covered(tb, cursor)'
BY DEF Extended, Covered

LEMMA HoldsKept ==
    ASSUME Extended, NEW tb \in 1..Len(log), NEW floor \in SUBSET Nat, Holds(tb, floor)
    PROVE  Holds(tb, floor)'
<1>1. /\ Len(log) \in Nat /\ Len(log') \in Nat /\ Len(log) <= Len(log')
      /\ \A n \in hot' : n <= Len(log) => n \in hot
      /\ log'[tb] = log[tb]
  BY DEF Extended
<1>2. \A n \in floor : n \in 1..Len(log)
  BY DEF Holds
<1>3. \A n \in floor : n \in 1..Len(log')
  BY <1>1, <1>2
<1>4. ASSUME NEW n \in floor, n \in hot'
      PROVE  n \in log'[tb].rows
  <2>0. n \in 1..Len(log)
    BY <1>2, <1>4
  <2>1. n <= Len(log)
    BY <2>0
  <2>2. n \in hot
    BY <1>1, <1>4, <2>1
  <2>3. QED
    BY <1>1, <1>4, <2>2 DEF Holds
<1>5. QED
  BY <1>3, <1>4 DEF Holds

LEMMA PlacedKept ==
    ASSUME Extended, NEW floor \in SUBSET Nat, Placed(floor)
    PROVE  Placed(floor)'
BY DEF Extended, Placed

LEMMA CloserTypes ==
    ASSUME BalanceInv
    PROVE  /\ proc[Closer].closedAt \in Nat /\ proc[Closer].tb \in Nat
           /\ proc[Closer].cursor \in Nat /\ proc[Closer].floor \in SUBSET Nat
BY InProcs DEF BalanceInv, Call

\* The closer stays where it is.
LEMMA CloserKept ==
    ASSUME LogInv, LogInv', Extended, BalanceInv, CloserInv, Quiet, now <= now',
           proc'[Closer] = proc[Closer]
    PROVE  CloserInv'
<1>1. PICK closedAt \in Nat, tb \in Nat, cursor \in Nat, floor \in SUBSET Nat :
        /\ closedAt = proc[Closer].closedAt /\ tb = proc[Closer].tb
        /\ cursor = proc[Closer].cursor /\ floor = proc[Closer].floor
  BY CloserTypes
<1>2. now \in Nat /\ now' \in Nat
  BY CloseAssumption DEF LogInv
<1>3. Begun(closedAt) => Begun(closedAt)'
  BY <1>2, BegunKept
<1>4. Named(tb) => Named(tb)'
  BY NamedKept
<1>5. Named(tb) /\ Covered(tb, cursor) => Covered(tb, cursor)'
  BY CoveredKept DEF Named
<1>6. Named(tb) /\ Holds(tb, floor) => Holds(tb, floor)'
  BY HoldsKept DEF Named
<1>7. Placed(floor) => Placed(floor)'
  BY PlacedKept
<1>8. QED
  BY <1>1, <1>3, <1>4, <1>5, <1>6, <1>7 DEF CloserInv

\* The closer goes on with the trial balance of its close.
LEMMA CloserGoes ==
    ASSUME LogInv, LogInv', BalanceInv, CloserInv, StoreSame, proc[Closer].pc # "idle",
           proc'[Closer].closedAt = proc[Closer].closedAt,
           proc'[Closer].pc \notin {"mark", "end", "closed"}
    PROVE  CloserInv'
<1>1. PICK closedAt \in Nat : closedAt = proc[Closer].closedAt
  BY CloserTypes
<1>2. Begun(closedAt)
  BY <1>1 DEF CloserInv
<1>3. Begun(closedAt)'
  BY <1>2 DEF Begun, StoreSame
<1>4. QED
  BY <1>1, <1>3 DEF CloserInv

LEMMA CloserIdle ==
    ASSUME proc'[Closer].pc = "idle"
    PROVE  CloserInv'
BY DEF CloserInv

\* No close has followed the latest opening, for it would be in the hot table too, and
\* dated no earlier.
LEMMA CloserBegins ==
    ASSUME LogInv, BalanceInv, ClosesInv, BeginClose
    PROVE  CloserInv'
<1>1. /\ StoreSame /\ MayClose /\ proc'[Closer].pc = "count" /\ proc'[Closer].closedAt = now
  BY BeginCloseFacts DEF Moves
<1> DEFINE last == Len(log)
           opened == OfType("opened")
           latest == Latest(opened)
<1>2. last \in Nat /\ opened \in SUBSET (1..last) /\ opened # {}
  BY <1>1, HotFacts DEF MayClose, LogInv, OfType
<1>3. latest \in opened
  <2> HIDE DEF last, opened
  <2>1. QED
    BY <1>2, LatestFacts
<1>4. \A m \in OfType("closed") : log[m].asOf < log[latest].asOf
  BY <1>1 DEF MayClose
<1>5. latest \in 1..last /\ latest \in hot /\ log[latest].type = "opened"
  BY <1>2, <1>3 DEF OfType
<1> HIDE DEF latest, opened
<1>6. ASSUME NEW m \in latest..last, log[m].type = "closed"
      PROVE  FALSE
  <2>1. m # latest /\ latest < m /\ m \in 1..last
    BY <1>2, <1>5, <1>6
  <2>2. m \in hot
    BY <1>5 DEF LogInv
  <2>3. log[m].asOf < log[latest].asOf
    BY <1>4, <1>6, <2>2 DEF OfType
  <2>4. log[latest].asOf <= log[m].asOf
    BY <1>5, <1>6, <2>1 DEF ClosesInv, Ordered
  <2>5. log[m].asOf \in 0..now /\ log[latest].asOf \in 0..now /\ now \in Nat
    BY <1>5, <1>6, <2>1, CloseAssumption DEF LogInv
  <2>6. QED
    BY <2>3, <2>4, <2>5
<1>7. \A k \in 1..last : log[k].type = "opened" => log[k].asOf <= now
  BY CloseAssumption DEF LogInv
<1>8. now <= now
  BY CloseAssumption DEF LogInv
<1>9. Begun(now)
  BY <1>5, <1>6, <1>7, <1>8 DEF Begun
<1>10. PICK closedAt : closedAt = now
  OBVIOUS
<1>11. Begun(closedAt)'
  BY <1>1, <1>9, <1>10 DEF Begun, StoreSame
<1>12. QED
  BY <1>1, <1>10, <1>11 DEF CloserInv

LEMMA CloserBalances ==
    ASSUME LogInv, LogInv', BalanceInv, CloserInv, AppendBalance
    PROVE  CloserInv'
<1> DEFINE last == Len(log)
<1>1. /\ now' = now /\ proc[Closer].pc = "have" /\ proc'[Closer].pc = "mark"
      /\ proc'[Closer].closedAt = proc[Closer].closedAt /\ proc'[Closer].tb = last + 1
      /\ proc'[Closer].floor = proc[Closer].floor /\ proc'[Closer].exact = proc[Closer].exact
  BY AppendBalanceFacts DEF Moves
<1>2. PICK event \in Event :
        /\ Appended(event) /\ event.type = "balance" /\ event.kind = "close"
        /\ event.rows = proc[Closer].balance
  BY AppendBalanceFacts
<1>3. PICK closedAt \in Nat, tb \in Nat : closedAt = proc[Closer].closedAt /\ tb = last + 1
  BY CloserTypes
<1>4. Begun(closedAt)'
  <2>1. Begun(closedAt)
    BY <1>1, <1>3 DEF CloserInv
  <2>2. Quiet
    BY <1>2 DEF Quiet
  <2>3. now \in Nat /\ now' \in Nat /\ now <= now'
    BY <1>1, CloseAssumption DEF LogInv
  <2>4. QED
    BY <2>1, <2>2, <2>3, BegunKept
<1>5. Named(tb)'
  <2>1. last \in Nat /\ Len(log') = last + 1 /\ log'[tb] = event
    BY <1>2, <1>3, HotFacts DEF Appended
  <2>2. event.rows \subseteq 1..last
    BY <1>2, InProcs DEF BalanceInv
  <2>3. event.rows \subseteq 1..(last + 1)
    BY <2>1, <2>2
  <2>4. QED
    BY <1>2, <1>3, <2>1, <2>3 DEF Named
<1>6. PICK floor, balance, upto :
        /\ floor = proc[Closer].floor /\ balance = proc[Closer].balance
        /\ upto = proc[Closer].count + proc[Closer].archived
  OBVIOUS
<1>7. /\ upto \in Nat /\ upto <= last /\ floor \subseteq {n \in 1..upto : Inside(n)}
      /\ proc[Closer].exact => Covers(balance, upto)
  BY <1>1, <1>6, BalanceParts, InProcs DEF CallOK, Call
<1>8. Placed(floor)'
  <2>1. last \in Nat /\ Len(log') = last + 1
    BY <1>2, HotFacts DEF Appended
  <2>2. QED
    BY <1>7, <2>1 DEF Placed
\* What the trial balance began with and is hot still is folded into it.
<1>9. proc[Closer].exact => Holds(tb, floor)'
  <2>1. SUFFICES ASSUME proc[Closer].exact
                 PROVE  Holds(tb, floor)'
    OBVIOUS
  <2>2. /\ last \in Nat /\ Len(log') = last + 1 /\ log'[tb] = event
        /\ hot' = hot \cup {last + 1}
    BY <1>2, <1>3, HotFacts DEF Appended
  <2>3. \A n \in floor : n \in 1..upto /\ Inside(n) /\ n # last + 1
    BY <1>7, <2>2
  <2>c. \A n \in hot : n <= upto /\ Inside(n) => n \in balance
    BY <1>7, <2>1 DEF Covers
  <2>4. floor \cap hot' \subseteq balance
    <3>1. ASSUME NEW n \in floor, n \in hot'
          PROVE  n \in balance
      <4>1. n \in hot /\ n <= upto /\ Inside(n)
        BY <1>7, <2>2, <2>3, <3>1
      <4>2. QED
        BY <2>c, <4>1
    <3>2. QED
      BY <3>1
  <2>5. QED
    BY <1>2, <1>6, <1>8, <2>2, <2>4 DEF Holds, Placed
<1>10. QED
  BY <1>1, <1>3, <1>4, <1>5, <1>6, <1>8, <1>9 DEF CloserInv

LEMMA CloserMarks ==
    ASSUME LogInv, LogInv', BalanceInv, CloserInv, TakeWatermark
    PROVE  CloserInv'
<1>1. /\ StoreSame /\ proc[Closer].pc = "mark" /\ proc'[Closer].pc = "end"
      /\ proc'[Closer].closedAt = proc[Closer].closedAt
      /\ proc'[Closer].tb = proc[Closer].tb /\ proc'[Closer].cursor = Len(log)
      /\ proc'[Closer].floor = proc[Closer].floor /\ proc'[Closer].exact = proc[Closer].exact
  BY WatermarkFacts DEF Moves
<1>2. PICK closedAt, tb, cursor, floor :
        /\ closedAt = proc[Closer].closedAt /\ tb = proc[Closer].tb /\ cursor = Len(log)
        /\ floor = proc[Closer].floor
  OBVIOUS
<1>3. /\ Begun(closedAt) /\ Named(tb) /\ Placed(floor)
      /\ proc[Closer].exact => Holds(tb, floor)
  BY <1>1, <1>2 DEF CloserInv
<1>4. Covered(tb, cursor)
  BY <1>2, <1>3, HotFacts DEF Named, Covered
<1>5. /\ Begun(closedAt)' /\ Named(tb)' /\ Covered(tb, cursor)' /\ Placed(floor)'
      /\ proc[Closer].exact => Holds(tb, floor)'
  BY <1>1, <1>3, <1>4 DEF Begun, Named, Covered, Placed, Holds, StoreSame
<1>6. QED
  BY <1>1, <1>2, <1>5 DEF CloserInv

LEMMA CloserEnds ==
    ASSUME BalanceInv, CloserInv, SnapshotEnd
    PROVE  CloserInv'
<1>1. /\ StoreSame /\ proc[Closer].pc = "end" /\ proc'[Closer].pc = "closed"
      /\ proc'[Closer].closedAt = proc[Closer].closedAt
      /\ proc'[Closer].tb = proc[Closer].tb /\ proc'[Closer].cursor = proc[Closer].cursor
      /\ proc'[Closer].floor = proc[Closer].floor /\ proc'[Closer].exact = proc[Closer].exact
  BY SnapshotEndFacts DEF GoesOn, Moves
<1>2. PICK closedAt, tb, cursor, floor :
        /\ closedAt = proc[Closer].closedAt /\ tb = proc[Closer].tb
        /\ cursor = proc[Closer].cursor /\ floor = proc[Closer].floor
  OBVIOUS
<1>3. /\ Begun(closedAt) /\ Named(tb) /\ Covered(tb, cursor) /\ Placed(floor)
      /\ proc[Closer].exact => Holds(tb, floor)
  BY <1>1, <1>2 DEF CloserInv
<1>4. /\ Begun(closedAt)' /\ Named(tb)' /\ Covered(tb, cursor)' /\ Placed(floor)'
      /\ proc[Closer].exact => Holds(tb, floor)'
  BY <1>1, <1>3 DEF Begun, Named, Covered, Placed, Holds, StoreSame
<1>5. QED
  BY <1>1, <1>2, <1>4 DEF CloserInv

LEMMA TrialMoves ==
    ASSUME LogInv, BalanceInv, NEW p \in Procs, BalanceStep(p)
    PROVE  /\ StoreSame /\ Others(p)
           /\ \/ proc'[p].pc = "idle"
              \/ /\ proc[p].pc # "idle" /\ proc'[p].closedAt = proc[p].closedAt
                 /\ proc'[p].pc \notin {"mark", "end", "closed"}
<1>1. CASE Count(p)
  BY <1>1, CountFacts DEF Moves
<1>2. CASE LoadCached(p)
  <2>1. StoreSame /\ proc[p].pc = "load"
    BY <1>2, LoadFacts
  <2>2. PICK hits \in SUBSET {row \in cache : row.upto = proc[p].count} :
          Moves(p, IF hits = {} THEN "compute" ELSE "have", proc[p].closedAt,
                proc[p].count, UNION {row.balance : row \in hits}, proc[p].tb,
                proc[p].cursor, proc[p].floor, proc[p].archived,
                \A row \in hits : row.archived = proc[p].archived)
    BY <1>2, LoadFacts
  <2>3. /\ Others(p) /\ proc'[p].closedAt = proc[p].closedAt
        /\ proc'[p].pc = IF hits = {} THEN "compute" ELSE "have"
    BY <2>2 DEF Moves
  <2>4. QED
    BY <2>1, <2>3
<1>3. CASE Compute(p)
  BY <1>3, ComputeFacts DEF Moves
<1>4. CASE Save(p) \/ SkipSave(p)
  BY <1>4, SaveFacts DEF GoesOn, Moves
<1>5. CASE InsertCached(p)
  BY <1>5, InsertFacts DEF GoesOn, Moves
<1>6. CASE InsertThrows(p)
  BY <1>6, InsertThrowsFacts, IdleFacts DEF Becomes
<1>7. CASE PruneCached(p)
  BY <1>7, PruneFacts DEF GoesOn, Moves
<1>8. QED
  BY <1>1, <1>2, <1>3, <1>4, <1>5, <1>6, <1>7 DEF BalanceStep

LEMMA CloseStepKeeps ==
    ASSUME LogInv, LogInv', Extended, BalanceInv, CloseInv, [Next]_vars
    PROVE  CloseInv'
<1>1. ClosesInv /\ CloserInv /\ Closer \in Procs /\ now \in Nat
  BY CloseParts, InProcs, CloseAssumption DEF LogInv
<1>2. SUFFICES ClosesInv' /\ CloserInv'
  BY ClosePartsNext
<1>3. ASSUME log' = log, now' \in Nat, now <= now', proc'[Closer] = proc[Closer]
      PROVE  ClosesInv' /\ CloserInv'
  BY <1>1, <1>3, ClosesSame, CloserKept DEF Quiet
<1>4. ASSUME NEW event, Appended(event), event.type \notin {"opened", "closed"},
             now' = now, proc'[Closer] = proc[Closer]
      PROVE  ClosesInv' /\ CloserInv'
  <2>1. Quiet /\ now <= now'
    BY <1>1, <1>4 DEF Quiet
  <2>2. ClosesInv'
    BY <1>1, <1>4, ClosesAppended
  <2>3. CloserInv'
    BY <1>1, <1>4, <2>1, CloserKept
  <2>4. QED
    BY <2>2, <2>3
<1>5. ASSUME NEW p \in Procs, StoreSame, Others(p),
             \/ proc'[p].pc = "idle"
             \/ /\ proc[p].pc # "idle" /\ proc'[p].closedAt = proc[p].closedAt
                /\ proc'[p].pc \notin {"mark", "end", "closed"}
      PROVE  ClosesInv' /\ CloserInv'
  <2>1. log' = log /\ now' \in Nat /\ now <= now'
    BY <1>1, <1>5 DEF StoreSame
  <2>2. ClosesInv'
    BY <1>1, <2>1, ClosesSame
  <2>3. CASE p # Closer
    <3>1. proc'[Closer] = proc[Closer]
      BY <1>1, <1>5, <2>3 DEF Others
    <3>2. QED
      BY <1>3, <2>1, <3>1
  <2>4. CASE p = Closer
    BY <1>1, <1>5, <2>2, <2>4, CloserGoes, CloserIdle
  <2>5. QED
    BY <2>3, <2>4
<1>6. CASE UNCHANGED vars
  BY <1>1, <1>3, <1>6 DEF vars
<1>7. CASE Clock
  BY <1>1, <1>3, <1>7 DEF Clock
<1>8. ASSUME NEW inside \in BOOLEAN, Post(inside)
      PROVE  ClosesInv' /\ CloserInv'
  <2>1. PICK event \in Event : Appended(event) /\ event.type = "posting"
    BY <1>8, PostFacts
  <2>2. now' = now /\ proc'[Closer] = proc[Closer] /\ event.type \notin {"opened", "closed"}
    BY <1>8, <2>1, PostFacts
  <2>3. QED
    BY <1>4, <2>1, <2>2
<1>9. CASE Archive
  BY <1>1, <1>3, <1>9, ArchiveFacts
<1>10. CASE Open \/ Reopen
  <2>1. PICK event \in Event : Appended(event) /\ event.type = "opened"
    BY <1>10, OpenFacts
  <2>2. proc'[Closer].pc = "idle" /\ event.type # "closed"
    BY <1>10, <2>1, OpenFacts
  <2>3. QED
    BY <1>1, <2>1, <2>2, ClosesAppended, CloserIdle
<1>11. CASE HandlerCloses \/ OperatorCloses
  <2>1. BeginClose
    BY <1>11 DEF HandlerCloses, OperatorCloses
  <2>2. log' = log
    BY <2>1, BeginCloseFacts DEF StoreSame
  <2>3. QED
    BY <1>1, <2>1, <2>2, ClosesSame, CloserBegins
<1>12. ASSUME NEW p \in Procs, BalanceStep(p)
       PROVE  ClosesInv' /\ CloserInv'
  BY <1>5, <1>12, TrialMoves
<1>13. CASE AppendBalance
  <2>1. PICK event \in Event : Appended(event) /\ event.type = "balance"
    BY <1>13, AppendBalanceFacts
  <2>2. ClosesInv'
    BY <1>1, <2>1, ClosesAppended
  <2>3. QED
    BY <1>1, <1>13, <2>2, CloserBalances
<1>14. CASE TakeWatermark
  BY <1>1, <1>14, WatermarkFacts, ClosesSame, CloserMarks DEF StoreSame
<1>15. CASE SnapshotEnd
  BY <1>1, <1>15, SnapshotEndFacts, ClosesSame, CloserEnds DEF StoreSame
<1>16. CASE AppendClosed
  <2>1. proc'[Closer].pc = "idle"
    BY <1>16, AppendClosedFacts, IdleFacts DEF Becomes
  <2>2. QED
    BY <1>1, <1>16, <2>1, ClosesClosed, CloserIdle
<1>17. ASSUME NEW p \in Readers, BeginInterim(p) \/ BalanceStep(p) \/ EndInterim(p)
       PROVE  ClosesInv' /\ CloserInv'
  <2>1. p \in Procs /\ p # Closer
    BY InProcs
  <2>2. CASE BeginInterim(p)
    <3>1. StoreSame /\ Others(p)
      BY <2>1, <2>2, BeginInterimFacts DEF GoesOn, Moves
    <3>2. proc'[Closer] = proc[Closer] /\ log' = log /\ now' \in Nat /\ now <= now'
      BY <1>1, <2>1, <3>1 DEF Others, StoreSame
    <3>3. QED
      BY <1>3, <3>2
  <2>3. CASE BalanceStep(p)
    BY <1>12, <2>1, <2>3
  <2>4. CASE EndInterim(p)
    <3>1. PICK event \in Event : Appended(event) /\ event.type = "balance"
      BY <2>1, <2>4, EndInterimFacts
    <3>2. now' = now /\ Becomes(p, Idle) /\ event.type \notin {"opened", "closed"}
      BY <2>1, <2>4, <3>1, EndInterimFacts
    <3>3. proc'[Closer] = proc[Closer]
      BY <1>1, <2>1, <3>2 DEF Becomes, Others
    <3>4. QED
      BY <1>4, <3>1, <3>2, <3>3
  <2>5. QED
    BY <1>17, <2>2, <2>3, <2>4
<1>18. ASSUME NEW p \in Procs, Crash(p)
       PROVE  ClosesInv' /\ CloserInv'
  <2>1. StoreSame /\ Others(p) /\ proc'[p].pc = "idle"
    BY <1>18, CrashFacts, IdleFacts DEF Becomes
  <2>2. QED
    BY <1>5, <2>1
<1>19. QED
  BY <1>1, <1>6, <1>7, <1>8, <1>9, <1>10, <1>11, <1>12, <1>13, <1>14, <1>15, <1>16,
     <1>17, <1>18 DEF Next, CloseStep

(***************************************************************************)
(* The theorems.                                                           *)
(***************************************************************************)

LEMMA PeriodInit ==
    ASSUME Init
    PROVE  PeriodInv
<1>1. /\ now = 0 /\ log = << >> /\ Len(log) = 0 /\ hot = {} /\ cache = {} /\ ends = {}
      /\ proc = [p \in Procs |-> Idle]
  BY DEF Init
<1>2. LogInv
  BY <1>1, CloseAssumption DEF LogInv
<1>3. BalanceInv
  BY <1>1, IdleFacts DEF BalanceInv, Unique
<1>4. proc[Closer].pc = "idle"
  BY <1>1, InProcs, IdleFacts
<1>5. CloseInv
  BY <1>1, <1>4 DEF CloseInv, OneClosePerOpen, CursorCoversBalance
<1>6. QED
  BY <1>2, <1>3, <1>5 DEF PeriodInv

\* The inductive invariant holds: of the hot table and the log, of the balances and
\* of the closes.
THEOREM PeriodInductive == Spec => []PeriodInv
<1>1. Init => PeriodInv
  BY PeriodInit
<1>2. PeriodInv /\ [Next]_vars => PeriodInv'
  <2> SUFFICES ASSUME PeriodInv, [Next]_vars
               PROVE  PeriodInv'
    OBVIOUS
  <2>1. LogInv /\ BalanceInv /\ CloseInv
    BY DEF PeriodInv
  <2>2. LogInv' /\ Extended
    BY <2>1, LogStep
  <2>3. BalanceInv' /\ CloseInv'
    BY <2>1, <2>2, BalanceStepKeeps, CloseStepKeeps
  <2>4. QED
    BY <2>2, <2>3 DEF PeriodInv
<1>3. QED
  BY <1>1, <1>2, PTL DEF Spec

\* Types, and UNIQUE on both streams of snapshots (store.ts, the table snapshots):
\* no race of saves, prunes and closes leaves two rows of one triple.
THEOREM PeriodTypeCorrect == Spec => []TypeOK
<1>1. PeriodInv => TypeOK
  <2> SUFFICES ASSUME PeriodInv
               PROVE  TypeOK
    OBVIOUS
  <2>1. now \in 0..MaxTime /\ hot \subseteq 1..Len(log)
    BY DEF PeriodInv, LogInv
  <2>2. \A p \in Procs : proc[p].balance \subseteq 1..Len(log)
    BY DEF PeriodInv, BalanceInv
  <2>3. Unique(cache) /\ Unique(ends)
    BY DEF PeriodInv, BalanceInv
  <2>4. QED
    BY <2>1, <2>2, <2>3 DEF TypeOK, Unique
<1>2. QED
  BY <1>1, PeriodInductive, PTL

\* readWithOutputSnapshot (output-snapshot-cache.ts): a balance read through the cache
\* misses no posting that was in the table when the read began and still is, whatever
\* others computed, saved, pruned and posted meanwhile.
THEOREM PeriodBalanceComplete == Spec => []BalanceComplete
<1>1. PeriodInv => BalanceComplete
  <2> SUFFICES ASSUME PeriodInv, NEW p \in Procs,
                      proc[p].pc \in {"save", "insert", "prune", "have"}, proc[p].exact
               PROVE  /\ proc[p].floor \cap hot \subseteq proc[p].balance
                      /\ \A n \in proc[p].balance : log[n].type = "posting" /\ log[n].inside
    BY DEF BalanceComplete
  <2>1. PICK upto : upto = proc[p].count + proc[p].archived
    OBVIOUS
  <2>2. CallOK(p) /\ proc[p] \in Call
    BY BalanceParts DEF PeriodInv
  <2>3. upto \in Nat /\ proc[p].floor \subseteq {n \in 1..upto : Inside(n)}
    BY <2>1, <2>2 DEF CallOK, Call
  <2>4. Covers(proc[p].balance, upto)
    BY <2>1, <2>2 DEF CallOK
  <2>5. proc[p].floor \cap hot \subseteq {n \in hot : n <= upto /\ Inside(n)}
    BY <2>3
  <2>6. QED
    BY <2>4, <2>5 DEF Covers, Inside
<1>2. QED
  BY <1>1, PeriodInductive, PTL

\* closePeriod's idempotency rule (period-close.ts): no two closes without an opening
\* in between, whatever is archived and whatever crashes and is retried.
THEOREM PeriodOneClosePerOpen == Spec => []OneClosePerOpen
<1>1. PeriodInv => OneClosePerOpen
  BY DEF PeriodInv, CloseInv
<1>2. QED
  BY <1>1, PeriodInductive, PTL

\* closedAtSequence (period-close.ts): the frozen cursor of a close covers the trial
\* balance that it names and every posting folded into it.
THEOREM PeriodCursorCoversBalance == Spec => []CursorCoversBalance
<1>1. PeriodInv => CursorCoversBalance
  BY DEF PeriodInv, CloseInv
<1>2. QED
  BY <1>1, PeriodInductive, PTL

\* closePeriod after a crash (period-close.ts): a close names the trial balance of its
\* own attempt, which holds every posting of the window that was there when the attempt
\* began its trial balance and still is.
THEOREM PeriodClosesOnWhatWasThere == Spec => ClosesOnWhatWasThere
<1>1. PeriodInv /\ [Next]_vars =>
        [(Len(log') > Len(log) /\ log'[Len(log')].type = "closed" /\ proc[Closer].exact) =>
           proc[Closer].floor \cap hot \subseteq log'[log'[Len(log')].tb].rows]_vars
  <2> DEFINE last == Len(log)
  <2>1. SUFFICES ASSUME PeriodInv, [Next]_vars, Len(log') > last,
                        log'[Len(log')].type = "closed", proc[Closer].exact
                 PROVE  proc[Closer].floor \cap hot \subseteq log'[log'[Len(log')].tb].rows
    OBVIOUS
  <2>2. LogInv /\ BalanceInv /\ CloserInv /\ last \in Nat
    BY <2>1, CloseParts, HotFacts DEF PeriodInv
  <2>3. CASE AppendClosed
    <3>1. PICK event \in Event : Appended(event) /\ event.tb = proc[Closer].tb
      BY <2>2, <2>3, AppendClosedFacts
    <3>2. proc[Closer].pc = "closed"
      BY <2>2, <2>3, AppendClosedFacts
    <3>3. PICK tb, floor : tb = proc[Closer].tb /\ floor = proc[Closer].floor
      OBVIOUS
    <3>4. Named(tb) /\ Holds(tb, floor)
      BY <2>1, <2>2, <3>2, <3>3 DEF CloserInv
    <3>5. log'[Len(log')] = event /\ log'[tb] = log[tb]
      BY <2>2, <3>1, <3>4 DEF Appended, Named
    <3>6. QED
      BY <3>1, <3>3, <3>4, <3>5 DEF Holds
  <2>4. CASE ~ AppendClosed
    <3>1. SUFFICES \/ log' = log
                   \/ \E event : Appended(event) /\ event.type # "closed"
      BY <2>1, <2>2 DEF Appended
    <3>2. ASSUME NEW p \in Procs, BalanceStep(p)
          PROVE  log' = log
      BY <2>2, <3>2, TrialMoves DEF StoreSame
    <3>3. CASE UNCHANGED vars
      BY <3>3 DEF vars
    <3>4. CASE Clock \/ Archive
      BY <3>4 DEF Clock, Archive
    <3>5. ASSUME NEW inside \in BOOLEAN, Post(inside)
          PROVE  \E event : Appended(event) /\ event.type # "closed"
      <4>1. PICK event \in Event : Appended(event) /\ event.type = "posting"
        BY <2>2, <3>5, PostFacts
      <4>2. event.type # "closed"
        BY <4>1
      <4>3. QED
        BY <4>1, <4>2
    <3>6. CASE Open \/ Reopen
      <4>1. PICK event \in Event : Appended(event) /\ event.type = "opened"
        BY <2>2, <3>6, OpenFacts
      <4>2. event.type # "closed"
        BY <4>1
      <4>3. QED
        BY <4>1, <4>2
    <3>7. CASE HandlerCloses \/ OperatorCloses
      BY <3>7 DEF HandlerCloses, OperatorCloses, BeginClose
    <3>8. CASE AppendBalance
      <4>1. PICK event \in Event : Appended(event) /\ event.type = "balance"
        BY <2>2, <3>8, AppendBalanceFacts
      <4>2. event.type # "closed"
        BY <4>1
      <4>3. QED
        BY <4>1, <4>2
    <3>9. CASE TakeWatermark \/ SnapshotEnd
      BY <3>9 DEF TakeWatermark, SnapshotEnd
    <3>10. ASSUME NEW p \in Readers, BeginInterim(p) \/ EndInterim(p)
           PROVE  log' = log \/ \E event : Appended(event) /\ event.type # "closed"
      <4>1. p \in Procs
        BY InProcs
      <4>2. CASE BeginInterim(p)
        BY <4>2 DEF BeginInterim
      <4>3. CASE EndInterim(p)
        <5>1. PICK event \in Event : Appended(event) /\ event.type = "balance"
          BY <2>2, <4>1, <4>3, EndInterimFacts
        <5>2. event.type # "closed"
          BY <5>1
        <5>3. QED
          BY <5>1, <5>2
      <4>4. QED
        BY <3>10, <4>2, <4>3
    <3>11. ASSUME NEW p \in Procs, Crash(p)
           PROVE  log' = log
      BY <3>11 DEF Crash
    <3>12. QED
      BY <2>1, <2>4, <3>2, <3>3, <3>4, <3>5, <3>6, <3>7, <3>8, <3>9, <3>10, <3>11, InProcs
         DEF Next, CloseStep
  <2>5. QED
    BY <2>3, <2>4
<1>2. QED
  BY <1>1, PeriodInductive, PTL DEF Spec, ClosesOnWhatWasThere
=============================================================================

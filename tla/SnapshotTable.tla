---------------------------- MODULE SnapshotTable ----------------------------
(***************************************************************************)
(* The SQL of the table `snapshots` in platform/event-store/store.ts.  A   *)
(* table is the set of the rows of one stream key; a row has its           *)
(* AUTOINCREMENT id, the business time it was taken for, the sequence it   *)
(* says it covers and a payload.  A query that may find no row returns a   *)
(* set of at most one.                                                     *)
(***************************************************************************)
EXTENDS Integers, FiniteSets

\* ORDER BY upto_sequence DESC, id DESC.
Before(a, b) == a.upto > b.upto \/ (a.upto = b.upto /\ a.id > b.id)

\* Mutant of LoadSnapshot: without `as_of <= ?`.
LoadAnySnapshot(rows, asOf) ==
    {row \in rows : \A other \in rows \ {row} : Before(row, other)}

\* The row of loadSnapshot.
LoadSnapshot(rows, asOf) ==
    LET inWindow == {row \in rows : row.asOf <= asOf} IN
    {row \in inWindow : \A other \in inWindow \ {row} : Before(row, other)}

\* An AUTOINCREMENT id, as far as the rows still there can tell.
NextId(rows) == IF rows = {} THEN 1
                ELSE (CHOOSE row \in rows : \A other \in rows : other.id <= row.id).id + 1

\* Mutant of SameSnapshot: the triple is not UNIQUE.
NotUnique(rows, asOf, upto) == {}

\* The row of this as_of and upto_sequence: there is one at most, for the pair is
\* UNIQUE within a stream.
SameSnapshot(rows, asOf, upto) == {row \in rows : row.asOf = asOf /\ row.upto = upto}

\* What pruneSnapshots may leave: the `keepN` rows of the largest upto_sequence, in
\* any order among equals.
Pruned(rows, keepN) ==
    {kept \in SUBSET rows :
       /\ Cardinality(kept) = IF Cardinality(rows) < keepN THEN Cardinality(rows) ELSE keepN
       /\ \A row \in kept, gone \in rows \ kept : row.upto >= gone.upto}

\* shouldSnapshot answers true whatever the time: there is no row yet, or the table
\* of events, with these sequences, has grown by `everyK` since the last one written.
SnapshotDue(rows, sequences, everyK) ==
    \/ rows = {}
    \/ \E last \in rows :
         /\ \A row \in rows : row.id <= last.id
         /\ Cardinality({n \in sequences : n > last.upto}) >= everyK
=============================================================================

-------------------------- MODULE EventStoreProofs --------------------------
(***************************************************************************)
(* Proof that the event store, with its cold tier, implements the          *)
(* append-only log for any number of processes, events and archive files,  *)
(* and of what a replay over all tiers yields while they go on.            *)
(***************************************************************************)
EXTENDS PartitionedEventStore, TLAPS

LEMMA AnyTagType == AnyTag \in Tags
  BY StoreAssumption DEF AnyTag

LEMMA IdleType == Idle \in Job
  BY AnyTagType DEF Idle, Job

\* What updating the record of one call in progress changes, and what it keeps.
LEMMA JobUpdate ==
  ASSUME NEW j \in Job
  PROVE  /\ \A pc \in {"gated", "registered", "reclassified"} :
              LET k == [j EXCEPT !.pc = pc] IN
              /\ k \in Job
              /\ k.pc = pc
              /\ k.path = j.path /\ k.cutoff = j.cutoff /\ k.rows = j.rows
  BY DEF Job

LEMMA JobsTyped ==
  ASSUME TypeOK, NEW p \in Procs, NEW j \in Job, job' = [job EXCEPT ![p] = j],
         j.path # NoPath <=>
           j.pc \in {"opened", "copied", "gated", "registered", "extracted"}
  PROVE  /\ job' \in [Procs -> Job]
         /\ \A q \in Procs : (Exporting(q) <=> job[q].path # NoPath)'
  BY DEF TypeOK, Exporting, Archiving

\* Every step of the store keeps its state well typed.
THEOREM TypeCorrect == Spec => []TypeOK
<1> USE StoreAssumption
<1>1. Init => TypeOK
  BY IdleType DEF Init, TypeOK, Exporting, Archiving, Idle
<1>2. TypeOK /\ [Next]_vars => TypeOK'
  <2> SUFFICES ASSUME TypeOK, [Next]_vars PROVE TypeOK'
    OBVIOUS
  <2> USE DEF TypeOK, Exporting, Archiving
  <2>0. \A p \in Procs : job[p] \in Job
    OBVIOUS
  <2>1. ASSUME NEW id \in Ids, NEW tag \in Tags, AppendEvent(id, tag) PROVE TypeOK'
    BY <2>1 DEF AppendEvent, NextSequence, Row
  <2>2. ASSUME NEW p \in Procs, NEW id \in Ids, NEW tag \in Tags,
               ReclassifyRead(p, id, tag) PROVE TypeOK'
    <3>1. [Idle EXCEPT !.pc = "retag", !.id = id, !.tag = tag] \in Job
      BY IdleType DEF Job
    <3>. QED BY <2>2, <3>1 DEF ReclassifyRead, Idle
  <2>3. ASSUME NEW p \in Procs, ReclassifyWrite(p) PROVE TypeOK'
    <3>1. job[p].tag \in Tags
      BY DEF Job
    <3>2. hot' \subseteq Row
      BY <2>3, <3>1 DEF ReclassifyWrite, Row
    <3> DEFINE j == [job[p] EXCEPT !.pc = "reclassified"]
    <3>3. j \in Job /\ j.pc = "reclassified" /\ j.path = job[p].path
      BY <2>0, JobUpdate
    <3>4. job' = [job EXCEPT ![p] = j] /\ job[p].path = NoPath
      BY <2>0, <2>3 DEF ReclassifyWrite
    <3> HIDE DEF j
    <3>. QED BY <2>3, <3>2, <3>3, <3>4, JobsTyped DEF ReclassifyWrite
  <2>4. ASSUME NEW p \in Procs, ReclassifyReturn(p) PROVE TypeOK'
    BY <2>4, IdleType DEF ReclassifyReturn, Idle
  <2>5. ASSUME NEW p \in Procs, NEW path \in Paths, NEW watermark \in 0..lastSeq,
               ArchiveOpen(p, path, watermark) PROVE TypeOK'
    <3>1. ArchiveCutoff(watermark) \in Nat
      BY DEF ArchiveCutoff
    <3>2. [Idle EXCEPT !.pc = "opened", !.path = path,
                       !.cutoff = ArchiveCutoff(watermark)] \in Job
      BY <3>1, IdleType DEF Job
    <3>. QED BY <2>5, <3>2 DEF ArchiveOpen, Idle
  <2>6. ASSUME NEW p \in Procs, ArchiveCopy(p) PROVE TypeOK'
    <3> DEFINE cold == ColdRows(job[p].cutoff)
    <3>1. cold \subseteq Row
      BY DEF ColdRows
    <3> DEFINE j == [job[p] EXCEPT !.pc = "copied", !.rows = cold]
    <3> HIDE DEF cold
    <3>2. j \in Job /\ j.pc = "copied" /\ j.path = job[p].path
      BY <2>0, <3>1 DEF Job
    <3>3. job' = [job EXCEPT ![p] = j] /\ job[p].path # NoPath
      <4>1. job' = [job EXCEPT ![p] = j]
        BY <2>6 DEF ArchiveCopy, cold
      <4>2. job[p].pc = "opened"
        BY <2>6 DEF ArchiveCopy
      <4>. QED BY <4>1, <4>2
    <3> HIDE DEF j
    <3>4. files' \in [Paths -> SUBSET Row]
      BY <2>6, <3>1 DEF ArchiveCopy, cold
    <3>. QED BY <2>6, <3>2, <3>3, <3>4, JobsTyped DEF ArchiveCopy
  <2>7. ASSUME NEW p \in Procs, ArchiveGate(p) PROVE TypeOK'
    <3> DEFINE j == [job[p] EXCEPT !.pc = "gated"]
    <3>1. j \in Job /\ j.pc = "gated" /\ j.path = job[p].path
      BY <2>0, JobUpdate
    <3>2. job' = [job EXCEPT ![p] = j] /\ job[p].path # NoPath
      BY <2>0, <2>7 DEF ArchiveGate
    <3> HIDE DEF j
    <3>. QED BY <2>7, <3>1, <3>2, JobsTyped DEF ArchiveGate
  <2>8. ASSUME NEW p \in Procs, ArchiveRegister(p) PROVE TypeOK'
    <3> DEFINE j == [job[p] EXCEPT !.pc = "registered"]
    <3>1. j \in Job /\ j.pc = "registered" /\ j.path = job[p].path
      BY <2>0, JobUpdate
    <3>2. /\ job' = [job EXCEPT ![p] = j]
          /\ job[p].path \in Paths /\ job[p].path # NoPath
          /\ job[p].rows \in SUBSET Row
      BY <2>0, <2>8 DEF ArchiveRegister, Job
    <3> HIDE DEF j
    <3>3. partitions' \subseteq Partition
      BY <2>8, <3>2 DEF ArchiveRegister, Partition
    <3>. QED BY <2>8, <3>1, <3>2, <3>3, JobsTyped DEF ArchiveRegister
  <2>9. ASSUME NEW p \in Procs, ArchiveDelete(p) PROVE TypeOK'
    BY <2>9, IdleType DEF ArchiveDelete, Idle
  <2>10. ASSUME NEW p \in Procs, NEW path \in Paths, NEW rows \in SUBSET hot,
                ExtractCopy(p, path, rows) PROVE TypeOK'
    <3>1. [Idle EXCEPT !.pc = "extracted", !.path = path, !.rows = rows] \in Job
      BY IdleType DEF Job
    <3>. QED BY <2>10, <3>1 DEF ExtractCopy, Idle
  <2>11. ASSUME NEW p \in Procs, ExtractCommit(p) PROVE TypeOK'
    <3>1. job[p].path \in Paths /\ job[p].rows \in SUBSET Row
      BY <2>0, <2>11 DEF ExtractCommit, Job
    <3>. QED BY <2>11, <3>1, IdleType DEF ExtractCommit, Partition, Idle
  <2>12. ASSUME NEW p \in Procs, CleanUp(p) PROVE TypeOK'
    BY <2>12, IdleType DEF CleanUp, Idle
  <2>13. ASSUME NEW p \in Procs, Crash(p) PROVE TypeOK'
    BY <2>13, IdleType DEF Crash, Idle
  <2>14. CASE UNCHANGED vars
    BY <2>14 DEF vars
  <2>. QED
    BY <2>1, <2>2, <2>3, <2>4, <2>5, <2>6, <2>7, <2>8, <2>9, <2>10, <2>11,
       <2>12, <2>13, <2>14 DEF Next, Refuse, Fail
<1>. QED
  BY <1>1, <1>2, PTL DEF Spec

-----------------------------------------------------------------------------
(***************************************************************************)
(* The inductive invariant.                                                *)
(***************************************************************************)

\* A call that a step does not touch keeps its part of CopyInv, provided that the
\* step adds no row at or below a sequence already handed out, keeps the call's
\* file, and removes no registry row.
LEMMA CopyFrame ==
  ASSUME TypeOK, NEW q \in Procs, CopyOf(q), job'[q] = job[q],
         lastSeq' \in Nat, lastSeq <= lastSeq',
         \A c \in Nat : c <= lastSeq => Keys(ColdRows(c))' \subseteq Keys(ColdRows(c)),
         Exporting(q) => files'[job[q].path] = files[job[q].path],
         RegisteredPaths \subseteq RegisteredPaths'
  PROVE  CopyOf(q)'
<1>1. job[q].cutoff \in Nat /\ lastSeq \in Nat
  BY DEF TypeOK, Job
<1>2. /\ Archiving(q)' = Archiving(q)
      /\ HasCopied(q)' = HasCopied(q)
      /\ HasCopied(q) \/ job[q].pc = "extracted" => Exporting(q)
  BY DEF Archiving, HasCopied, Exporting
<1>3. ASSUME HasCopied(q)
      PROVE  /\ job[q].cutoff <= lastSeq'
             /\ Keys(ColdRows(job[q].cutoff)') \subseteq Keys(job[q].rows)
  BY <1>1, <1>3 DEF CopyOf
<1>4. Archiving(q) => job[q].cutoff <= lastSeq' \/ job[q].cutoff = 1
  BY <1>1 DEF CopyOf
<1>. QED BY <1>2, <1>3, <1>4 DEF CopyOf

\* Removing rows, or retagging them, adds no key.
LEMMA FewerRows ==
  ASSUME hot' \subseteq hot
  PROVE  /\ \A c \in Nat : Keys(ColdRows(c))' \subseteq Keys(ColdRows(c))
         /\ Keys(hot') \subseteq Keys(hot)
  BY DEF Keys, ColdRows

LEMMA RegisterPath ==
  ASSUME NEW path, NEW rows,
         partitions' = partitions \cup {[path |-> path, hash |-> rows]}
  PROVE  RegisteredPaths' = RegisteredPaths \cup {path}
<1> DEFINE new == [path |-> path, hash |-> rows]
<1>1. new.path = path /\ partitions' = partitions \cup {new}
  OBVIOUS
<1> HIDE DEF new
<1>. QED BY <1>1 DEF RegisteredPaths

LEMMA AppendPreservesInv ==
  ASSUME TypeOK, StoreInv, NEW id \in Ids, NEW tag \in Tags, AppendEvent(id, tag)
  PROVE  StoreInv'
<1> USE DEF AppendEvent, NextSequence
<1> DEFINE row == [seq |-> lastSeq + 1, id |-> id, tag |-> tag]
<1>1. /\ lastSeq \in Nat
      /\ Keys(hot') = Keys(hot) \cup {<<lastSeq + 1, id>>}
  <2>1. Key(row) = <<lastSeq + 1, id>>
    BY DEF Key
  <2>2. hot' = hot \cup {row}
    OBVIOUS
  <2> HIDE DEF row
  <2>. QED BY <2>1, <2>2 DEF TypeOK, Keys
<1>2. SequenceInv'
  <2>1. \A e \in accepted : e[1] \in 1..lastSeq
    BY DEF StoreInv, SequenceInv
  <2>2. accepted' = accepted \cup {<<lastSeq + 1, id>>} /\ lastSeq' = lastSeq + 1
    OBVIOUS
  <2>3. \A e \in accepted' : e[1] \in 1..lastSeq'
    BY <1>1, <2>1, <2>2
  <2>4. \A e, f \in accepted' : e[1] = f[1] => e = f
    BY <1>1, <2>1, <2>2 DEF StoreInv, SequenceInv
  <2>. QED BY <1>1, <2>2, <2>3, <2>4 DEF StoreInv, SequenceInv
<1>3. OwnerInv'
  BY DEF StoreInv, OwnerInv, Exporting, Archiving
<1>4. ASSUME NEW c \in Nat, c <= lastSeq
      PROVE  Keys(ColdRows(c))' \subseteq Keys(ColdRows(c))
  <2>1. ~(lastSeq + 1 <= c)
    BY <1>1, <1>4
  <2>2. ColdRows(c)' = ColdRows(c)
    BY <2>1 DEF ColdRows
  <2>. QED BY <2>2 DEF Keys
<1>5. CopyInv'
  BY <1>1, <1>4, CopyFrame DEF StoreInv, CopyInv, RegisteredPaths
<1>6. CoverInv'
  BY <1>1 DEF StoreInv, CoverInv, SettledPaths, RegisteredPaths
<1>. QED BY <1>2, <1>3, <1>5, <1>6 DEF StoreInv

\* A call that exports nothing, before the step or after it (retagging), leaves
\* every part of the invariant alone as long as the keys in the table stay.
LEMMA QuietStep ==
  ASSUME TypeOK, StoreInv, NEW p \in Procs,
         UNCHANGED <<lastSeq, partitions, onDisk, files, accepted>>,
         Keys(hot)' = Keys(hot),
         \A c \in Nat : Keys(ColdRows(c))' = Keys(ColdRows(c)),
         \A q \in Procs \ {p} : job'[q] = job[q],
         job'[p].path = NoPath, ~Exporting(p), ~Exporting(p)'
  PROVE  StoreInv'
<1>1. \A q \in Procs : job'[q].path = job[q].path
  BY DEF TypeOK
<1>2. SettledPaths' = SettledPaths
  BY <1>1 DEF SettledPaths, RegisteredPaths
<1>3. SequenceInv'
  BY DEF StoreInv, SequenceInv
<1>4. OwnerInv'
  BY DEF StoreInv, OwnerInv, Exporting, Archiving
<1>5. CopyInv'
  <2> SUFFICES ASSUME NEW q \in Procs PROVE CopyOf(q)'
    BY DEF CopyInv
  <2>1. CASE q = p
    BY <2>1 DEF CopyOf, Exporting, Archiving, HasCopied
  <2>2. CASE q # p
    BY <2>2, CopyFrame DEF StoreInv, CopyInv, RegisteredPaths, TypeOK
  <2>. QED BY <2>1, <2>2
<1>6. CoverInv'
  BY <1>2 DEF StoreInv, CoverInv
<1>. QED BY <1>3, <1>4, <1>5, <1>6 DEF StoreInv

\* reclassifyEntity's UPDATE changes no key.
LEMMA RetagKeepsKeys ==
  ASSUME TypeOK, NEW p \in Procs, ReclassifyWrite(p)
  PROVE  /\ Keys(hot)' = Keys(hot)
         /\ \A c \in Nat : Keys(ColdRows(c))' = Keys(ColdRows(c))
<1> DEFINE retagged(r) == IF r.id = job[p].id THEN [r EXCEPT !.tag = job[p].tag] ELSE r
<1>1. hot' = {retagged(r) : r \in hot}
  BY DEF ReclassifyWrite
<1>2. \A r \in hot : Key(retagged(r)) = Key(r) /\ retagged(r).seq = r.seq
  BY DEF TypeOK, Row, Key
<1> HIDE DEF retagged
<1>3. \A c \in Nat : ColdRows(c)' = {retagged(r) : r \in ColdRows(c)}
  BY <1>1, <1>2 DEF ColdRows
<1>4. \A S \in SUBSET hot : {Key(s) : s \in {retagged(r) : r \in S}} = {Key(r) : r \in S}
  BY <1>2
<1>5. \A c \in Nat : ColdRows(c) \in SUBSET hot
  BY DEF ColdRows
<1>. QED BY <1>1, <1>3, <1>4, <1>5 DEF Keys

LEMMA ReclassifyPreservesInv ==
  ASSUME TypeOK, StoreInv, NEW p \in Procs,
         \/ \E id \in Ids, tag \in Tags : ReclassifyRead(p, id, tag)
         \/ ReclassifyWrite(p)
         \/ ReclassifyReturn(p)
  PROVE  StoreInv'
<1>1. ~Exporting(p) /\ job[p].path = NoPath /\ job[p] \in Job
  BY DEF TypeOK, ReclassifyRead, ReclassifyWrite, ReclassifyReturn, Exporting, Archiving
<1>2. /\ job'[p].path = NoPath
      /\ job'[p].pc \in {"retag", "reclassified", "idle"}
      /\ \A q \in Procs \ {p} : job'[q] = job[q]
  <2>1. ASSUME NEW id \in Ids, NEW tag \in Tags, ReclassifyRead(p, id, tag)
        PROVE  <1>2!:
    BY <2>1 DEF ReclassifyRead, Idle, TypeOK
  <2>2. ASSUME ReclassifyWrite(p) PROVE <1>2!:
    BY <1>1, <2>2, JobUpdate DEF ReclassifyWrite, TypeOK
  <2>3. ASSUME ReclassifyReturn(p) PROVE <1>2!:
    BY <2>3 DEF ReclassifyReturn, Idle, TypeOK
  <2>. QED BY <2>1, <2>2, <2>3
<1>3. /\ Keys(hot)' = Keys(hot)
      /\ \A c \in Nat : Keys(ColdRows(c))' = Keys(ColdRows(c))
  <2>1. CASE ReclassifyWrite(p)
    BY <2>1, RetagKeepsKeys
  <2>2. CASE hot' = hot
    BY <2>2 DEF ColdRows
  <2>. QED BY <2>1, <2>2 DEF ReclassifyRead, ReclassifyReturn
<1>4. ~Exporting(p)'
  BY <1>2 DEF Exporting, Archiving
<1>5. UNCHANGED <<lastSeq, partitions, onDisk, files, accepted>>
  BY DEF ReclassifyRead, ReclassifyWrite, ReclassifyReturn
<1>. QED BY <1>1, <1>2, <1>3, <1>4, <1>5, QuietStep

\* A new archive file is taken at a path that held none: nothing depended on it.
LEMMA ArchiveOpenPreservesInv ==
  ASSUME TypeOK, StoreInv, NEW p \in Procs, NEW path \in Paths,
         NEW watermark \in 0..lastSeq, ArchiveOpen(p, path, watermark)
  PROVE  StoreInv'
<1> USE StoreAssumption
<1>1. /\ job'[p].pc = "opened" /\ job'[p].path = path
      /\ job'[p].cutoff = ArchiveCutoff(watermark)
      /\ \A q \in Procs \ {p} : job'[q] = job[q]
  BY DEF ArchiveOpen, Idle, TypeOK
<1>2. /\ UNCHANGED <<hot, lastSeq, partitions, files, accepted>>
      /\ onDisk' = onDisk \cup {path} /\ path \notin onDisk /\ path # NoPath
      /\ files[path] = {}
  BY DEF ArchiveOpen, StoreInv, OwnerInv
<1>3. \A q \in Procs : job[q].path # path
  BY <1>2 DEF StoreInv, OwnerInv, TypeOK
<1>4. SequenceInv'
  BY <1>2 DEF StoreInv, SequenceInv
<1>5. OwnerInv'
  BY <1>1, <1>2, <1>3 DEF StoreInv, OwnerInv, Exporting, Archiving
<1>6. CopyInv'
  <2> SUFFICES ASSUME NEW q \in Procs PROVE CopyOf(q)'
    BY DEF CopyInv
  <2>1. CASE q = p
    <3>1. ArchiveCutoff(watermark) <= lastSeq \/ ArchiveCutoff(watermark) = 1
      BY DEF ArchiveCutoff, TypeOK
    <3>. QED BY <1>1, <1>2, <2>1, <3>1 DEF CopyOf, Archiving, HasCopied
  <2>2. CASE q # p
    BY <1>1, <1>2, <2>2, CopyFrame DEF StoreInv, CopyInv, RegisteredPaths, TypeOK, ColdRows
  <2>. QED BY <2>1, <2>2
<1>7. CoverInv'
  <2>1. \A f \in SettledPaths : f # path => f \in SettledPaths'
    BY <1>1, <1>2 DEF SettledPaths, RegisteredPaths
  <2>2. Keys(files[path]) = {}
    BY <1>2 DEF Keys
  <2>. QED BY <1>2, <2>1, <2>2 DEF StoreInv, CoverInv
<1>. QED BY <1>4, <1>5, <1>6, <1>7 DEF StoreInv

\* The copy is taken when every row at or below the cutoff is in the table.
LEMMA ArchiveCopyPreservesInv ==
  ASSUME TypeOK, StoreInv, NEW p \in Procs, ArchiveCopy(p)
  PROVE  StoreInv'
<1> DEFINE path == job[p].path
           cold == ColdRows(job[p].cutoff)
<1>1. job[p] \in Job /\ job[p].pc = "opened" /\ Exporting(p) /\ path \in Paths
  BY DEF ArchiveCopy, TypeOK, Job, Exporting, Archiving
<1>2. /\ UNCHANGED <<hot, lastSeq, partitions, onDisk, accepted>>
      /\ files' = [files EXCEPT ![path] = cold]
      /\ cold # {} /\ cold \subseteq hot
  BY DEF ArchiveCopy, ColdRows
<1>3. /\ job'[p].pc = "copied" /\ job'[p].path = path
      /\ job'[p].cutoff = job[p].cutoff /\ job'[p].rows = cold
      /\ \A q \in Procs \ {p} : job'[q] = job[q]
  <2> HIDE DEF cold
  <2>1. job' = [job EXCEPT ![p] = [job[p] EXCEPT !.pc = "copied", !.rows = cold]]
    BY DEF ArchiveCopy, cold
  <2>. QED BY <1>1, <2>1 DEF TypeOK, Job
<1>4. /\ files'[path] = cold
      /\ \A f \in Paths : f # path => files'[f] = files[f]
  BY <1>1, <1>2 DEF TypeOK
<1>5. \A q \in Procs \ {p} : Exporting(q) => job[q].path \in Paths /\ job[q].path # path
  BY <1>1 DEF StoreInv, OwnerInv, TypeOK
<1>6. SequenceInv'
  <2>1. Keys(cold) \subseteq Keys(hot)
    BY <1>2 DEF Keys
  <2>. QED BY <1>2, <1>4, <2>1 DEF StoreInv, SequenceInv
<1>7. OwnerInv'
  BY <1>1, <1>2, <1>3, <1>4 DEF StoreInv, OwnerInv, Exporting, Archiving
<1>8. CopyInv'
  <2> SUFFICES ASSUME NEW q \in Procs PROVE CopyOf(q)'
    BY DEF CopyInv
  <2>1. CASE q = p
    <3>1. job[p].cutoff <= lastSeq
      <4>1. PICK r \in hot : r.seq <= job[p].cutoff
        BY <1>2 DEF ColdRows
      <4>2. Key(r) \in accepted /\ Key(r)[1] = r.seq
        BY DEF StoreInv, SequenceInv, Keys, Key
      <4>3. r.seq \in 1..lastSeq
        BY <4>2 DEF StoreInv, SequenceInv
      <4>4. job[p].cutoff <= lastSeq \/ job[p].cutoff = 1
        BY <1>1 DEF StoreInv, CopyInv, CopyOf, Archiving
      <4>. QED BY <1>1, <4>3, <4>4 DEF TypeOK
    <3>2. ColdRows(job[p].cutoff)' = cold
      BY <1>2, <1>3 DEF ColdRows
    <3>. QED BY <1>2, <1>3, <1>4, <2>1, <3>1, <3>2 DEF CopyOf, Archiving, HasCopied
  <2>2. CASE q # p
    <3>1. \A c \in Nat : Keys(ColdRows(c))' = Keys(ColdRows(c))
      BY <1>2 DEF ColdRows
    <3>. QED BY <1>2, <1>3, <1>4, <1>5, <2>2, <3>1, CopyFrame
             DEF StoreInv, CopyInv, RegisteredPaths, TypeOK
  <2>. QED BY <2>1, <2>2
<1>9. CoverInv'
  <2>1. SettledPaths' = SettledPaths /\ path \notin SettledPaths
    BY <1>2, <1>3 DEF SettledPaths, RegisteredPaths
  <2>2. SettledPaths \subseteq Paths
    BY DEF SettledPaths, RegisteredPaths, TypeOK, Partition
  <2>. QED BY <1>2, <1>4, <2>1, <2>2 DEF StoreInv, CoverInv
<1>. QED BY <1>6, <1>7, <1>8, <1>9 DEF StoreInv

\* The gate and the registration change nothing but the call's own progress and
\* the registry, which grows.
LEMMA ArchiveGateRegisterPreservesInv ==
  ASSUME TypeOK, StoreInv, NEW p \in Procs, ArchiveGate(p) \/ ArchiveRegister(p)
  PROVE  StoreInv'
<1>1. job[p] \in Job /\ HasCopied(p) /\ Exporting(p)
  BY DEF ArchiveGate, ArchiveRegister, TypeOK, Exporting, Archiving, HasCopied
<1>2. /\ UNCHANGED <<hot, lastSeq, onDisk, files, accepted>>
      /\ RegisteredPaths \subseteq RegisteredPaths'
      /\ ArchiveRegister(p) => job[p].path \in RegisteredPaths'
  <2>1. CASE ArchiveGate(p)
    BY <2>1 DEF ArchiveGate, ArchiveRegister, RegisteredPaths
  <2>2. CASE ArchiveRegister(p)
    <3>1. partitions' = partitions \cup {[path |-> job[p].path, hash |-> job[p].rows]}
      BY <2>2 DEF ArchiveRegister
    <3>2. RegisteredPaths' = RegisteredPaths \cup {job[p].path}
      BY <3>1, RegisterPath
    <3>. QED BY <2>2, <3>2 DEF ArchiveRegister
  <2>. QED BY <2>1, <2>2
<1>3. /\ job'[p].pc \in {"gated", "registered"}
      /\ job'[p].pc = "registered" => ArchiveRegister(p)
      /\ job'[p].path = job[p].path /\ job'[p].cutoff = job[p].cutoff
      /\ job'[p].rows = job[p].rows
      /\ \A q \in Procs \ {p} : job'[q] = job[q]
  <2>1. CASE ArchiveGate(p)
    BY <1>1, <2>1, JobUpdate DEF ArchiveGate, TypeOK
  <2>2. CASE ArchiveRegister(p)
    BY <1>1, <2>2, JobUpdate DEF ArchiveRegister, TypeOK
  <2>. QED BY <2>1, <2>2
<1>4. SequenceInv'
  BY <1>2 DEF StoreInv, SequenceInv
<1>5. OwnerInv'
  BY <1>1, <1>2, <1>3 DEF StoreInv, OwnerInv, Exporting, Archiving
<1>6. CopyInv'
  <2> SUFFICES ASSUME NEW q \in Procs PROVE CopyOf(q)'
    BY DEF CopyInv
  <2>0. \A c \in Nat : Keys(ColdRows(c))' = Keys(ColdRows(c))
    BY <1>2 DEF ColdRows
  <2>1. CASE q = p
    <3>1. CopyOf(p) /\ job[p].cutoff \in Nat
      BY <1>1 DEF StoreInv, CopyInv, Job
    <3>. QED BY <1>1, <1>2, <1>3, <2>0, <2>1, <3>1 DEF CopyOf, Archiving, HasCopied
  <2>2. CASE q # p
    BY <1>2, <1>3, <2>0, <2>2, CopyFrame DEF StoreInv, CopyInv, TypeOK
  <2>. QED BY <2>1, <2>2
<1>7. CoverInv'
  <2>1. SettledPaths \subseteq SettledPaths'
    BY <1>2, <1>3 DEF SettledPaths
  <2>. QED BY <1>2, <2>1 DEF StoreInv, CoverInv
<1>. QED BY <1>4, <1>5, <1>6, <1>7 DEF StoreInv

\* A call that ends with its file registered, having deleted from the table only
\* rows whose keys are in that file.
LEMMA ExportEndPreservesInv ==
  ASSUME TypeOK, StoreInv, NEW p \in Procs, Exporting(p),
         job' = [job EXCEPT ![p] = Idle],
         UNCHANGED <<lastSeq, onDisk, files, accepted>>,
         hot' \subseteq hot,
         RegisteredPaths' = RegisteredPaths \cup {job[p].path},
         Keys(hot) \subseteq Keys(hot') \cup Keys(files[job[p].path])
  PROVE  StoreInv'
<1>1. /\ job'[p].pc = "idle" /\ job'[p].path = NoPath
      /\ \A q \in Procs \ {p} : job'[q] = job[q]
  BY DEF TypeOK, Idle
<1>2. /\ \A q \in Procs \ {p} : job[q].path # job[p].path
      /\ job[p].path # NoPath
  BY DEF StoreInv, OwnerInv, TypeOK
<1>3. SequenceInv'
  BY FewerRows DEF StoreInv, SequenceInv
<1>4. OwnerInv'
  BY <1>1 DEF StoreInv, OwnerInv, Exporting, Archiving
<1>5. CopyInv'
  <2> SUFFICES ASSUME NEW q \in Procs PROVE CopyOf(q)'
    BY DEF CopyInv
  <2>1. CASE q = p
    BY <1>1, <2>1 DEF CopyOf, Archiving, HasCopied
  <2>2. CASE q # p
    BY <1>1, <2>2, FewerRows, CopyFrame DEF StoreInv, CopyInv, TypeOK
  <2>. QED BY <2>1, <2>2
<1>6. CoverInv'
  <2>1. /\ SettledPaths \subseteq SettledPaths'
        /\ job[p].path \in SettledPaths'
    BY <1>1, <1>2, StoreAssumption DEF SettledPaths, RegisteredPaths, TypeOK, Partition
  <2>. QED BY <2>1 DEF StoreInv, CoverInv
<1>. QED BY <1>3, <1>4, <1>5, <1>6 DEF StoreInv

LEMMA ArchiveDeletePreservesInv ==
  ASSUME TypeOK, StoreInv, NEW p \in Procs, ArchiveDelete(p)
  PROVE  StoreInv'
<1>1. job[p].pc = "registered" /\ HasCopied(p) /\ Exporting(p) /\ CopyOf(p)
  BY DEF ArchiveDelete, HasCopied, Exporting, Archiving, StoreInv, CopyInv
<1>2. /\ Keys(ColdRows(job[p].cutoff)) \subseteq Keys(files[job[p].path])
      /\ RegisteredPaths' = RegisteredPaths \cup {job[p].path}
  BY <1>1 DEF CopyOf, ArchiveDelete, RegisteredPaths
<1>3. /\ hot' \subseteq hot
      /\ Keys(hot) \subseteq Keys(hot') \cup Keys(files[job[p].path])
  BY <1>2 DEF ArchiveDelete, Keys
<1>. QED BY <1>1, <1>2, <1>3, ExportEndPreservesInv DEF ArchiveDelete

\* Deleting by sequence deletes the captured events and no other: a sequence
\* belongs to one event for ever.
LEMMA ExtractCommitPreservesInv ==
  ASSUME TypeOK, StoreInv, NEW p \in Procs, ExtractCommit(p)
  PROVE  StoreInv'
<1>1. /\ job[p].pc = "extracted" /\ Exporting(p) /\ job[p].path \in Paths
      /\ files[job[p].path] = job[p].rows
  BY DEF ExtractCommit, Exporting, StoreInv, CopyInv, CopyOf, TypeOK, Job
<1>2. RegisteredPaths' = RegisteredPaths \cup {job[p].path}
  <2>1. partitions' = partitions \cup {[path |-> job[p].path, hash |-> job[p].rows]}
    BY DEF ExtractCommit
  <2>. QED BY <2>1, RegisterPath
<1>3. ASSUME NEW r \in hot, r \notin hot'
      PROVE  Key(r) \in Keys(files[job[p].path])
  <2>1. PICK s \in job[p].rows : s.seq = r.seq
    BY <1>3 DEF ExtractCommit, Seqs
  <2>2. Key(r) \in accepted /\ Key(s) \in accepted
    BY <1>1, <2>1 DEF StoreInv, SequenceInv, Keys
  <2>3. Key(r)[1] = Key(s)[1]
    BY <2>1 DEF Key
  <2>4. Key(r) = Key(s)
    BY <2>2, <2>3 DEF StoreInv, SequenceInv
  <2>. QED BY <1>1, <2>4 DEF Keys
<1>4. hot' \subseteq hot
  BY DEF ExtractCommit
<1>5. Keys(hot) \subseteq Keys(hot') \cup Keys(files[job[p].path])
  BY <1>3 DEF Keys
<1>. QED BY <1>1, <1>2, <1>4, <1>5, ExportEndPreservesInv DEF ExtractCommit

\* Extraction copies rows of the table to a path that held no file.
LEMMA ExtractCopyPreservesInv ==
  ASSUME TypeOK, StoreInv, NEW p \in Procs, NEW path \in Paths,
         NEW rows \in SUBSET hot, ExtractCopy(p, path, rows)
  PROVE  StoreInv'
<1>1. /\ job'[p].pc = "extracted" /\ job'[p].path = path /\ job'[p].rows = rows
      /\ \A q \in Procs \ {p} : job'[q] = job[q]
  BY DEF ExtractCopy, Idle, TypeOK
<1>2. /\ UNCHANGED <<hot, lastSeq, partitions, accepted>>
      /\ onDisk' = onDisk \cup {path} /\ path \notin onDisk /\ path # NoPath
      /\ files[path] = {}
      /\ files'[path] = rows
      /\ \A f \in Paths : f # path => files'[f] = files[f]
  BY StoreAssumption DEF ExtractCopy, StoreInv, OwnerInv, TypeOK
<1>3. \A q \in Procs : Exporting(q) => job[q].path \in Paths /\ job[q].path # path
  BY <1>2 DEF StoreInv, OwnerInv, TypeOK
<1>4. SequenceInv'
  <2>1. Keys(rows) \subseteq Keys(hot)
    BY DEF Keys
  <2>. QED BY <1>2, <2>1 DEF StoreInv, SequenceInv
<1>5. OwnerInv'
  BY <1>1, <1>2, <1>3 DEF StoreInv, OwnerInv, Exporting, Archiving
<1>6. CopyInv'
  <2> SUFFICES ASSUME NEW q \in Procs PROVE CopyOf(q)'
    BY DEF CopyInv
  <2>1. CASE q = p
    BY <1>1, <1>2, <2>1 DEF CopyOf, Archiving, HasCopied
  <2>2. CASE q # p
    <3>1. \A c \in Nat : Keys(ColdRows(c))' = Keys(ColdRows(c))
      BY <1>2 DEF ColdRows
    <3>. QED BY <1>1, <1>2, <1>3, <2>2, <3>1, CopyFrame
             DEF StoreInv, CopyInv, RegisteredPaths, TypeOK
  <2>. QED BY <2>1, <2>2
<1>7. CoverInv'
  <2>1. \A f \in SettledPaths : f \in Paths /\ (f # path => f \in SettledPaths')
    BY <1>1, <1>2 DEF SettledPaths, RegisteredPaths, TypeOK, Partition
  <2>2. Keys(files[path]) = {}
    BY <1>2 DEF Keys
  <2>. QED BY <1>2, <2>1, <2>2 DEF StoreInv, CoverInv
<1>. QED BY <1>4, <1>5, <1>6, <1>7 DEF StoreInv

\* The catch block unlinks a file nothing depends on yet: the call that is
\* failing still owns it.
LEMMA CleanUpPreservesInv ==
  ASSUME TypeOK, StoreInv, NEW p \in Procs, Exporting(p), CleanUp(p)
  PROVE  StoreInv'
<1>1. /\ job'[p].pc = "idle" /\ job'[p].path = NoPath
      /\ \A q \in Procs \ {p} : job'[q] = job[q]
  BY DEF CleanUp, Idle, TypeOK
<1>2. /\ UNCHANGED <<hot, lastSeq, partitions, accepted>>
      /\ onDisk' = onDisk \ {job[p].path}
      /\ files'[job[p].path] = {}
      /\ \A f \in Paths : f # job[p].path => files'[f] = files[f]
      /\ job[p].path \in Paths
  BY DEF CleanUp, TypeOK, Job
<1>3. \A q \in Procs \ {p} : Exporting(q) => job[q].path \in Paths \ {job[p].path}
  BY DEF StoreInv, OwnerInv, TypeOK, Job
<1>4. SequenceInv'
  <2>1. Keys({}) = {}
    BY DEF Keys
  <2>. QED BY <1>2, <2>1 DEF StoreInv, SequenceInv
<1>5. OwnerInv'
  BY <1>1, <1>2, <1>3 DEF StoreInv, OwnerInv, Exporting, Archiving
<1>6. CopyInv'
  <2> SUFFICES ASSUME NEW q \in Procs PROVE CopyOf(q)'
    BY DEF CopyInv
  <2>1. CASE q = p
    BY <1>1, <2>1 DEF CopyOf, Archiving, HasCopied
  <2>2. CASE q # p
    <3>1. \A c \in Nat : Keys(ColdRows(c))' = Keys(ColdRows(c))
      BY <1>2 DEF ColdRows
    <3>. QED BY <1>1, <1>2, <1>3, <2>2, <3>1, CopyFrame
             DEF StoreInv, CopyInv, RegisteredPaths, TypeOK
  <2>. QED BY <2>1, <2>2
<1>7. CoverInv'
  <2>1. \A f \in SettledPaths : f \in Paths /\ f # job[p].path /\ f \in SettledPaths'
    BY <1>1, <1>2, StoreAssumption DEF SettledPaths, RegisteredPaths, TypeOK, Partition
  <2>. QED BY <1>2, <2>1 DEF StoreInv, CoverInv
<1>. QED BY <1>4, <1>5, <1>6, <1>7 DEF StoreInv

\* A dead process no longer unlinks its file, registered or not.
LEMMA CrashPreservesInv ==
  ASSUME TypeOK, StoreInv, NEW p \in Procs, Crash(p)
  PROVE  StoreInv'
<1>1. /\ job'[p].pc = "idle" /\ job'[p].path = NoPath
      /\ \A q \in Procs \ {p} : job'[q] = job[q]
      /\ UNCHANGED <<hot, lastSeq, partitions, onDisk, files, accepted>>
  BY DEF Crash, Idle, TypeOK
<1>2. SequenceInv'
  BY <1>1 DEF StoreInv, SequenceInv
<1>3. OwnerInv'
  BY <1>1 DEF StoreInv, OwnerInv, Exporting, Archiving
<1>4. CopyInv'
  <2> SUFFICES ASSUME NEW q \in Procs PROVE CopyOf(q)'
    BY DEF CopyInv
  <2>1. CASE q = p
    BY <1>1, <2>1 DEF CopyOf, Archiving, HasCopied
  <2>2. CASE q # p
    <3>1. \A c \in Nat : Keys(ColdRows(c))' = Keys(ColdRows(c))
      BY <1>1 DEF ColdRows
    <3>. QED BY <1>1, <2>2, <3>1, CopyFrame
             DEF StoreInv, CopyInv, RegisteredPaths, TypeOK
  <2>. QED BY <2>1, <2>2
<1>5. CoverInv'
  <2>1. SettledPaths \subseteq SettledPaths'
    BY <1>1, StoreAssumption DEF SettledPaths, RegisteredPaths, TypeOK, Partition
  <2>. QED BY <1>1, <2>1 DEF StoreInv, CoverInv
<1>. QED BY <1>2, <1>3, <1>4, <1>5 DEF StoreInv

LEMMA StepPreservesInv == TypeOK /\ StoreInv /\ [Next]_vars => StoreInv'
<1> SUFFICES ASSUME TypeOK, StoreInv, [Next]_vars PROVE StoreInv'
  OBVIOUS
<1>1. ASSUME NEW p \in Procs, Refuse(p) \/ Fail(p) PROVE StoreInv'
  BY <1>1, CleanUpPreservesInv DEF Refuse, Fail, Exporting, Archiving
<1>2. CASE UNCHANGED vars
  BY <1>2 DEF vars, StoreInv, SequenceInv, OwnerInv, CopyInv, CopyOf, CoverInv,
     SettledPaths, RegisteredPaths, ColdRows, Exporting, Archiving, HasCopied
<1>. QED
  BY <1>1, <1>2, AppendPreservesInv, ReclassifyPreservesInv, ArchiveOpenPreservesInv,
     ArchiveCopyPreservesInv, ArchiveGateRegisterPreservesInv, ArchiveDeletePreservesInv,
     ExtractCopyPreservesInv, ExtractCommitPreservesInv, CrashPreservesInv DEF Next

\* No event is ever out of reach: each one is in the hot table, or in a registered
\* archive file that no throwing archive or extraction call can unlink.
THEOREM StoreInvariant == Spec => []StoreInv
<1>1. Init => StoreInv
  BY DEF Init, Idle, StoreInv, SequenceInv, OwnerInv, CopyInv, CopyOf, CoverInv,
     Exporting, Archiving, HasCopied, Keys
<1>. QED
  BY <1>1, StepPreservesInv, TypeCorrect, PTL DEF Spec

-----------------------------------------------------------------------------
(***************************************************************************)
(* The refinement.                                                         *)
(***************************************************************************)

LEMMA ReplayFindsAccepted ==
  TypeOK /\ StoreInv => Replayable = accepted
<1> SUFFICES ASSUME TypeOK, StoreInv PROVE Replayable = accepted
  OBVIOUS
<1>1. Replayable \subseteq accepted
  BY DEF Replayable, StoreInv, SequenceInv, TypeOK, Partition
<1>2. accepted \subseteq Replayable
  BY DEF Replayable, StoreInv, CoverInv, SettledPaths, RegisteredPaths
<1>. QED BY <1>1, <1>2

\* Whatever the archive, extraction and retagging calls of any number of processes
\* do, and wherever they throw or die, a full replay of hot table and registered
\* partitions is the append-only log of all events.
THEOREM StoreImplementsLog == Spec => ImplementsLog
<1>1. Init => Log!Init
  BY DEF Init, Log!Init, Replayable, Keys
<1> DEFINE ReplayIsLog == Replayable = accepted
<1>2. TypeOK /\ StoreInv /\ ReplayIsLog /\ ReplayIsLog' /\ [Next]_vars
        => [Log!Next]_Replayable
  <2> SUFFICES ASSUME TypeOK, StoreInv, ReplayIsLog, ReplayIsLog', [Next]_vars
               PROVE  Log!Next \/ Replayable' = Replayable
    OBVIOUS
  <2>0. Replayable = accepted /\ Replayable' = accepted'
    OBVIOUS
  <2>1. ASSUME NEW id \in Ids, NEW tag \in Tags, AppendEvent(id, tag) PROVE Log!Next
    <3> DEFINE e == <<lastSeq + 1, id>>
    <3>1. /\ accepted' = accepted \cup {e}
          /\ \A f \in accepted : f[2] # id
          /\ e[1] = lastSeq + 1 /\ e[2] = id
      BY <2>1 DEF AppendEvent, NextSequence
    <3>2. \A f \in accepted : f[1] < e[1]
      BY <3>1 DEF StoreInv, SequenceInv, TypeOK
    <3>3. e \in Log!Entry
      BY DEF Log!Entry, TypeOK
    <3>4. e \in accepted' \ accepted
      BY <3>1
    <3> HIDE DEF e
    <3>. QED BY <2>0, <3>1, <3>2, <3>3, <3>4 DEF Log!Next, Log!Append
  <2>2. (\A id \in Ids, tag \in Tags : ~AppendEvent(id, tag)) => accepted' = accepted
    BY DEF Next, vars, ReclassifyRead, ReclassifyWrite, ReclassifyReturn, ArchiveOpen,
       ArchiveCopy, ArchiveGate, ArchiveRegister, ArchiveDelete, ExtractCopy,
       ExtractCommit, Refuse, Fail, CleanUp, Crash
  <2>. QED BY <2>0, <2>1, <2>2
<1>3. TypeOK /\ StoreInv => ReplayIsLog
  BY ReplayFindsAccepted
<1> HIDE DEF ReplayIsLog
<1>. QED
  BY <1>1, <1>2, <1>3, TypeCorrect, StoreInvariant, PTL DEF Spec, ImplementsLog, Log!Spec

-----------------------------------------------------------------------------
(***************************************************************************)
(* Extraction alone.                                                       *)
(***************************************************************************)

LEMMA PartitionTypes ==
  ASSUME TypeOK
  PROVE  /\ \A part \in partitions : part.path \in Paths
         /\ \A path \in Paths : files[path] \subseteq Row
         /\ hot \subseteq Row /\ \A r \in Row : r.seq \in Nat
  BY DEF TypeOK, Partition, Row

\* Neither the files nor the registry change, nor do the sequences in the table.
LEMMA TierKept ==
  ASSUME TypeOK, ExtractInv, UNCHANGED <<partitions, onDisk, files>>,
         OneRowEach(hot'), \A s \in hot' : \E r \in hot : r.seq = s.seq,
         \A p \in Procs : ~ Archiving(p)' /\
                          (Exporting(p)' => Exporting(p) /\ job'[p].path = job[p].path)
  PROVE  ExtractInv'
<1>1. StoredOnce'
  BY DEF ExtractInv, StoredOnce, OneRowEach
<1>2. ArchiveIntegrity'
  BY DEF ExtractInv, ArchiveIntegrity, PartitionOk
<1>. QED BY <1>1, <1>2 DEF ExtractInv, OneRowEach

\* A new row has a sequence that no file holds.
LEMMA AppendExtracted ==
  ASSUME TypeOK, StoreInv, ExtractInv, NEW id \in Ids, NEW tag \in Tags, AppendEvent(id, tag)
  PROVE  ExtractInv'
<1>1. PICK new : /\ new.seq = lastSeq + 1 /\ hot' = hot \cup {new}
                 /\ UNCHANGED <<partitions, onDisk, files, job>>
  BY DEF AppendEvent, NextSequence
<1>2. /\ \A r \in hot : r.seq # new.seq
      /\ \A path \in Paths : \A r \in files[path] : r.seq # new.seq
  <2>1. /\ \A r \in hot : Key(r) \in accepted
        /\ \A path \in Paths : \A r \in files[path] : Key(r) \in accepted
    BY DEF StoreInv, SequenceInv, Keys
  <2>2. \A r : Key(r) \in accepted => r.seq \in 1..lastSeq
    BY DEF StoreInv, SequenceInv, Key
  <2>3. lastSeq \in Nat
    BY DEF TypeOK
  <2>. QED BY <1>1, <2>1, <2>2, <2>3
<1>3. StoredOnce'
  BY <1>1, <1>2, PartitionTypes DEF ExtractInv, StoredOnce, OneRowEach
<1>4. ArchiveIntegrity'
  BY <1>1 DEF ExtractInv, ArchiveIntegrity, PartitionOk
<1>. QED BY <1>1, <1>3, <1>4 DEF ExtractInv, OneRowEach, Archiving, Exporting

\* The path had no file, so that it was not registered.
LEMMA CopyExtracted ==
  ASSUME TypeOK, ExtractInv, NEW p \in Procs, NEW path \in Paths, NEW rows \in SUBSET hot,
         ExtractCopy(p, path, rows)
  PROVE  ExtractInv'
<1>1. /\ job'[p].pc = "extracted" /\ job'[p].path = path
      /\ \A q \in Procs \ {p} : job'[q] = job[q]
  BY DEF ExtractCopy, Idle, TypeOK
<1>2. /\ UNCHANGED <<hot, partitions>>
      /\ onDisk' = onDisk \cup {path} /\ path \notin onDisk
      /\ files'[path] = rows
      /\ \A f \in Paths \ {path} : files'[f] = files[f]
  BY DEF ExtractCopy, TypeOK
<1>3. \A part \in partitions : part.path \in Paths \ {path}
  BY <1>2, PartitionTypes DEF ExtractInv, ArchiveIntegrity, PartitionOk
<1>4. \A part \in partitions : files'[part.path] = files[part.path]
  BY <1>2, <1>3
<1>5. StoredOnce'
  BY <1>2, <1>4 DEF ExtractInv, StoredOnce, OneRowEach
<1>6. ArchiveIntegrity'
  BY <1>2, <1>4 DEF ExtractInv, ArchiveIntegrity, PartitionOk
<1>7. \A f \in Paths : OneRowEach(files'[f])
  BY <1>2 DEF ExtractInv, StoredOnce, OneRowEach
<1>8. \A q \in Procs : ~ Archiving(q)'
  BY <1>1 DEF ExtractInv, Archiving
<1>9. \A part \in partitions', q \in Procs : Exporting(q)' => job'[q].path # part.path
  BY <1>1, <1>2, <1>3 DEF ExtractInv, Exporting, Archiving
<1>. QED BY <1>2, <1>5, <1>6, <1>7, <1>8, <1>9 DEF ExtractInv, OneRowEach

\* That the rows are still in the table, which the number of deleted rows tells, keeps
\* them out of the files that others registered meanwhile.
LEMMA CommitExtracted ==
  ASSUME TypeOK, StoreInv, ExtractInv, NEW p \in Procs, ExtractCommit(p)
  PROVE  ExtractInv'
<1>1. /\ job[p].pc = "extracted" /\ Exporting(p) /\ job[p].path \in Paths
      /\ files[job[p].path] = job[p].rows /\ job[p].path \in onDisk
  BY DEF ExtractCommit, Exporting, StoreInv, CopyInv, CopyOf, OwnerInv, TypeOK, Job
<1>2. PICK new : new = [path |-> job[p].path, hash |-> job[p].rows]
  OBVIOUS
<1>3. /\ partitions' = partitions \cup {new}
      /\ new.path = job[p].path /\ new.hash = files[new.path]
      /\ hot' = {r \in hot : r.seq \notin Seqs(files[new.path])}
      /\ UNCHANGED <<onDisk, files>>
  BY <1>1, <1>2 DEF ExtractCommit
<1>4. /\ job'[p].pc = "idle"
      /\ \A q \in Procs \ {p} : job'[q] = job[q]
  BY DEF ExtractCommit, Idle, TypeOK
<1>5. \A part \in partitions : part.path # new.path
  BY <1>3 DEF ExtractCommit, ExtractCommits, RegisteredPaths
<1>6. \A r \in files[new.path] : \E s \in hot : s.seq = r.seq
  BY <1>1, <1>3 DEF ExtractCommit, ExtractCommits, Seqs
<1>7. \A part \in partitions : \A r \in files[part.path], s \in files[new.path] : r.seq # s.seq
  BY <1>6 DEF ExtractInv, StoredOnce
<1>8. /\ OneRowEach(files[new.path])
      /\ \A r \in files[new.path], s \in hot' : r.seq # s.seq
  BY <1>1, <1>3 DEF ExtractInv, Seqs
<1>9. StoredOnce'
  BY <1>3, <1>7, <1>8 DEF ExtractInv, StoredOnce, OneRowEach
<1>10. ArchiveIntegrity'
  BY <1>1, <1>3 DEF ExtractInv, ArchiveIntegrity, PartitionOk
<1>11. \A q \in Procs : ~ Archiving(q)'
  BY <1>4 DEF ExtractInv, Archiving
<1>12. \A part \in partitions', q \in Procs : Exporting(q)' => job'[q].path # part.path
  <2> SUFFICES ASSUME NEW part \in partitions', NEW q \in Procs, Exporting(q)'
               PROVE  job'[q].path # part.path
    OBVIOUS
  <2>1. q # p /\ job'[q] = job[q] /\ Exporting(q)
    BY <1>4 DEF Exporting, Archiving
  <2>2. job[q].path # new.path
    BY <1>1, <1>3, <2>1 DEF StoreInv, OwnerInv
  <2>. QED BY <1>3, <2>1, <2>2 DEF ExtractInv
<1>13. \A a, b \in partitions' : a.path = b.path => a = b
  BY <1>3, <1>5 DEF ExtractInv
<1>. QED BY <1>3, <1>9, <1>10, <1>11, <1>12, <1>13 DEF ExtractInv, OneRowEach

\* The catch block of an extraction unlinks a file that is not registered.
LEMMA CleanUpExtracted ==
  ASSUME TypeOK, ExtractInv, NEW p \in Procs, Exporting(p), CleanUp(p)
  PROVE  ExtractInv'
<1>1. /\ job'[p].pc = "idle"
      /\ \A q \in Procs \ {p} : job'[q] = job[q]
  BY DEF CleanUp, Idle, TypeOK
<1>2. /\ UNCHANGED <<hot, partitions>>
      /\ onDisk' = onDisk \ {job[p].path}
      /\ files'[job[p].path] = {}
      /\ \A f \in Paths : f # job[p].path => files'[f] = files[f]
      /\ job[p].path \in Paths
  BY DEF CleanUp, TypeOK, Job
<1>3. \A part \in partitions : part.path # job[p].path /\ files'[part.path] = files[part.path]
  BY <1>2, PartitionTypes DEF ExtractInv
<1>4. StoredOnce'
  BY <1>2, <1>3 DEF ExtractInv, StoredOnce, OneRowEach
<1>5. ArchiveIntegrity'
  BY <1>2, <1>3 DEF ExtractInv, ArchiveIntegrity, PartitionOk
<1>6. \A f \in Paths : OneRowEach(files'[f])
  BY <1>2 DEF ExtractInv, OneRowEach
<1>7. \A q \in Procs : ~ Archiving(q)' /\ (Exporting(q)' => Exporting(q) /\ job'[q] = job[q])
  BY <1>1 DEF ExtractInv, Exporting, Archiving
<1>. QED BY <1>2, <1>4, <1>5, <1>6, <1>7 DEF ExtractInv, OneRowEach

LEMMA StepExtracted ==
  ASSUME "archive" \notin Operations, TypeOK, StoreInv, ExtractInv, [Next]_vars
  PROVE  ExtractInv'
<1>1. OneRowEach(hot) /\ \A p \in Procs : ~ Archiving(p)
  BY DEF ExtractInv, StoredOnce
<1>2. CASE UNCHANGED vars
  BY <1>1, <1>2, TierKept DEF vars, OneRowEach, Archiving, Exporting
<1>3. ASSUME NEW p \in Procs,
             \/ \E id \in Ids, tag \in Tags : ReclassifyRead(p, id, tag)
             \/ ReclassifyReturn(p)
             \/ Crash(p)
      PROVE  ExtractInv'
  <2>1. /\ UNCHANGED <<hot, partitions, onDisk, files>>
        /\ job'[p].pc \in {"idle", "retag"}
        /\ \A q \in Procs \ {p} : job'[q] = job[q]
    <3>1. ASSUME NEW id \in Ids, NEW tag \in Tags, ReclassifyRead(p, id, tag)
          PROVE  /\ UNCHANGED <<hot, partitions, onDisk, files>>
                 /\ job'[p].pc = "retag"
                 /\ \A q \in Procs \ {p} : job'[q] = job[q]
      BY <3>1 DEF ReclassifyRead, Idle, TypeOK
    <3>2. CASE ReclassifyReturn(p) \/ Crash(p)
      BY <3>2 DEF ReclassifyReturn, Crash, Idle, TypeOK
    <3>. QED BY <1>3, <3>1, <3>2
  <2>2. \A q \in Procs : ~ Archiving(q)' /\
                         (Exporting(q)' => Exporting(q) /\ job'[q].path = job[q].path)
    BY <1>1, <2>1 DEF Archiving, Exporting
  <2>3. OneRowEach(hot') /\ \A s \in hot' : \E r \in hot : r.seq = s.seq
    BY <1>1, <2>1 DEF OneRowEach
  <2>. QED BY <2>1, <2>2, <2>3, TierKept
<1>4. ASSUME NEW p \in Procs, ReclassifyWrite(p)
      PROVE  ExtractInv'
  <2>1. /\ UNCHANGED <<partitions, onDisk, files>>
        /\ job'[p].pc = "reclassified"
        /\ \A q \in Procs \ {p} : job'[q] = job[q]
    BY <1>4 DEF ReclassifyWrite, TypeOK, Job
  <2>2. \A q \in Procs : ~ Archiving(q)' /\
                         (Exporting(q)' => Exporting(q) /\ job'[q].path = job[q].path)
    BY <1>1, <2>1 DEF Archiving, Exporting
  <2> DEFINE retag(r) == IF r.id = job[p].id THEN [r EXCEPT !.tag = job[p].tag] ELSE r
  <2>3. hot' = {retag(r) : r \in hot}
    BY <1>4 DEF ReclassifyWrite
  <2>4. \A r \in hot : retag(r).seq = r.seq
    BY DEF TypeOK, Row
  <2> HIDE DEF retag
  <2>5. OneRowEach(hot') /\ \A s \in hot' : \E r \in hot : r.seq = s.seq
    BY <1>1, <2>3, <2>4 DEF OneRowEach
  <2>. QED BY <2>1, <2>2, <2>5, TierKept
<1>5. ASSUME NEW p \in Procs, Refuse(p) \/ Fail(p)
      PROVE  ExtractInv'
  BY <1>5, CleanUpExtracted DEF Refuse, Fail, Exporting, Archiving
<1>6. ASSUME NEW p \in Procs,
             \/ \E path \in Paths, watermark \in 0..lastSeq : ArchiveOpen(p, path, watermark)
             \/ ArchiveCopy(p)
             \/ ArchiveGate(p)
             \/ ArchiveRegister(p)
             \/ ArchiveDelete(p)
      PROVE  FALSE
  BY <1>1, <1>6 DEF Archiving, ArchiveOpen, ArchiveCopy, ArchiveGate, ArchiveRegister,
     ArchiveDelete
<1>. QED BY <1>2, <1>3, <1>4, <1>5, <1>6, AppendExtracted, CopyExtracted, CommitExtracted
         DEF Next

LEMMA ExtractInductive ==
  ASSUME "archive" \notin Operations
  PROVE  Spec => []ExtractInv
<1>1. Init => ExtractInv
  BY DEF Init, Idle, ExtractInv, ArchiveIntegrity, StoredOnce, OneRowEach, Exporting, Archiving
<1>2. TypeOK /\ StoreInv /\ ExtractInv /\ [Next]_vars => ExtractInv'
  BY StepExtracted
<1>. QED BY <1>1, <1>2, TypeCorrect, StoreInvariant, PTL DEF Spec

\* extractToArchivePartition and verifyArchiveIntegrity: where files are written by
\* extractions only, every registered file is there with the content that was hashed,
\* whatever throws or dies.
THEOREM ExtractionsKeepIntegrity == "archive" \notin Operations => (Spec => []ArchiveIntegrity)
<1> SUFFICES ASSUME "archive" \notin Operations
             PROVE  Spec => []ArchiveIntegrity
  OBVIOUS
<1>1. ExtractInv => ArchiveIntegrity
  BY DEF ExtractInv
<1>. QED BY <1>1, ExtractInductive, PTL

\* The same code: no event is stored twice, for the delete that follows a copy counts
\* the rows.  A replay of all tiers one after the other then yields no event twice.
THEOREM ExtractionsStoreOnce == "archive" \notin Operations => (Spec => []StoredOnce)
<1> SUFFICES ASSUME "archive" \notin Operations
             PROVE  Spec => []StoredOnce
  OBVIOUS
<1>1. ExtractInv => StoredOnce
  BY DEF ExtractInv
<1>. QED BY <1>1, ExtractInductive, PTL

-----------------------------------------------------------------------------
(***************************************************************************)
(* Integrity of the archive files, archive calls included.                 *)
(***************************************************************************)

\* The registry stays, and so does every registered file.
LEMMA IntegrityKept ==
  ASSUME IntegrityInv, NEW p \in Procs, UNCHANGED partitions,
         \A q \in Procs \ {p} : job'[q] = job[q],
         \A part \in partitions :
           /\ part.path \in onDisk' /\ files'[part.path] = files[part.path]
           /\ Exporting(p)' /\ job'[p].path = part.path => job'[p].pc = "registered"
  PROVE  IntegrityInv'
<1>1. ArchiveIntegrity'
  BY DEF IntegrityInv, ArchiveIntegrity, PartitionOk
<1>2. \A q \in Procs \ {p} : Exporting(q)' = Exporting(q)
  BY DEF Exporting, Archiving
<1>. QED BY <1>1, <1>2 DEF IntegrityInv

\* The file of a call that registers it is the content that the row describes, and no
\* other call holds it.
LEMMA IntegrityRegistered ==
  ASSUME TypeOK, StoreInv, IntegrityInv, NEW p \in Procs, Exporting(p),
         files[job[p].path] = job[p].rows,
         UNCHANGED <<onDisk, files>>,
         partitions' = partitions \cup {[path |-> job[p].path, hash |-> job[p].rows]},
         \A q \in Procs \ {p} : job'[q] = job[q],
         job'[p].pc \in {"idle", "registered"}
  PROVE  IntegrityInv'
<1>1. PICK new : new = [path |-> job[p].path, hash |-> job[p].rows]
  OBVIOUS
<1>2. /\ partitions' = partitions \cup {new}
      /\ new.path = job[p].path /\ new.hash = files[new.path] /\ new.path \in onDisk
  BY <1>1 DEF StoreInv, OwnerInv
<1>3. ArchiveIntegrity'
  BY <1>2 DEF IntegrityInv, ArchiveIntegrity, PartitionOk
<1>4. ASSUME NEW part \in partitions', NEW q \in Procs, Exporting(q)', job'[q].path = part.path
      PROVE  job'[q].pc = "registered"
  <2>1. CASE q = p
    BY <1>4, <2>1 DEF Exporting, Archiving
  <2>2. CASE q # p
    <3>1. Exporting(q) /\ job'[q] = job[q] /\ part # new
      BY <1>2, <1>4, <2>2 DEF Exporting, Archiving, StoreInv, OwnerInv
    <3>. QED BY <1>2, <1>4, <3>1 DEF IntegrityInv
  <2>. QED BY <2>1, <2>2
<1>. QED BY <1>3, <1>4 DEF IntegrityInv

LEMMA StepKeepsIntegrity ==
  ASSUME TypeOK, StoreInv, IntegrityInv, [Next]_vars, ~ DeleteThrows
  PROVE  IntegrityInv'
<1>1. \A part \in partitions : part.path \in onDisk /\ part.path \in Paths
  BY PartitionTypes DEF IntegrityInv, ArchiveIntegrity, PartitionOk
<1>2. CASE UNCHANGED vars
  BY <1>2 DEF vars, IntegrityInv, ArchiveIntegrity, PartitionOk, Exporting, Archiving
<1>3. ASSUME NEW id \in Ids, NEW tag \in Tags, AppendEvent(id, tag)
      PROVE  IntegrityInv'
  BY <1>3 DEF AppendEvent, IntegrityInv, ArchiveIntegrity, PartitionOk, Exporting, Archiving
<1>4. ASSUME NEW p \in Procs,
             \/ \E id \in Ids, tag \in Tags : ReclassifyRead(p, id, tag)
             \/ ReclassifyWrite(p)
             \/ ReclassifyReturn(p)
             \/ ArchiveDelete(p)
             \/ Crash(p)
      PROVE  IntegrityInv'
  <2>1. /\ UNCHANGED <<partitions, onDisk, files>>
        /\ \A q \in Procs \ {p} : job'[q] = job[q]
        /\ job'[p].pc \in {"idle", "retag", "reclassified"}
    <3>1. ASSUME NEW id \in Ids, NEW tag \in Tags, ReclassifyRead(p, id, tag) PROVE <2>1!:
      BY <3>1 DEF ReclassifyRead, Idle, TypeOK
    <3>2. CASE ReclassifyWrite(p)
      BY <3>2, JobUpdate DEF ReclassifyWrite, TypeOK
    <3>3. CASE ReclassifyReturn(p) \/ ArchiveDelete(p) \/ Crash(p)
      BY <3>3 DEF ReclassifyReturn, ArchiveDelete, Crash, Idle, TypeOK
    <3>. QED BY <1>4, <3>1, <3>2, <3>3
  <2>. QED BY <1>1, <2>1, IntegrityKept DEF Exporting, Archiving
<1>5. ASSUME NEW p \in Procs, NEW path \in Paths,
             \/ \E watermark \in 0..lastSeq : ArchiveOpen(p, path, watermark)
             \/ \E rows \in SUBSET hot : ExtractCopy(p, path, rows)
      PROVE  IntegrityInv'
  <2>1. /\ UNCHANGED partitions /\ path \notin onDisk /\ onDisk' = onDisk \cup {path}
        /\ \A f \in Paths \ {path} : files'[f] = files[f]
        /\ \A q \in Procs \ {p} : job'[q] = job[q]
        /\ job'[p].path = path
    <3>1. ASSUME NEW watermark \in 0..lastSeq, ArchiveOpen(p, path, watermark) PROVE <2>1!:
      BY <3>1 DEF ArchiveOpen, Idle, TypeOK
    <3>2. ASSUME NEW rows \in SUBSET hot, ExtractCopy(p, path, rows) PROVE <2>1!:
      BY <3>2 DEF ExtractCopy, Idle, TypeOK
    <3>. QED BY <1>5, <3>1, <3>2
  <2>. QED BY <1>1, <2>1, IntegrityKept
<1>6. ASSUME NEW p \in Procs, ArchiveCopy(p) \/ ArchiveGate(p)
      PROVE  IntegrityInv'
  <2>1. \A part \in partitions : job[p].path # part.path
    BY <1>6 DEF ArchiveCopy, ArchiveGate, IntegrityInv, Exporting, Archiving
  <2>2. /\ UNCHANGED <<partitions, onDisk>>
        /\ \A f \in Paths : f # job[p].path => files'[f] = files[f]
        /\ \A q \in Procs \ {p} : job'[q] = job[q]
        /\ job'[p].path = job[p].path
    <3>1. CASE ArchiveCopy(p)
      <4> DEFINE cold == ColdRows(job[p].cutoff)
      <4> HIDE DEF cold
      <4>1. /\ job' = [job EXCEPT ![p] = [job[p] EXCEPT !.pc = "copied", !.rows = cold]]
            /\ files' = [files EXCEPT ![job[p].path] = cold]
            /\ UNCHANGED <<partitions, onDisk>>
        BY <3>1 DEF ArchiveCopy, cold
      <4>. QED BY <4>1 DEF TypeOK, Job
    <3>2. CASE ArchiveGate(p)
      BY <3>2, JobUpdate DEF ArchiveGate, TypeOK
    <3>. QED BY <1>6, <3>1, <3>2
  <2>. QED BY <1>1, <2>1, <2>2, IntegrityKept
<1>7. ASSUME NEW p \in Procs, ArchiveRegister(p) \/ ExtractCommit(p)
      PROVE  IntegrityInv'
  <2>1. /\ Exporting(p) /\ files[job[p].path] = job[p].rows
        /\ job[p] \in Job
    BY <1>7 DEF ArchiveRegister, ExtractCommit, Exporting, Archiving, HasCopied,
       StoreInv, CopyInv, CopyOf, TypeOK
  <2>2. /\ \A q \in Procs \ {p} : job'[q] = job[q]
        /\ job'[p].pc \in {"idle", "registered"}
    <3>1. CASE ArchiveRegister(p)
      BY <2>1, <3>1, JobUpdate DEF ArchiveRegister, TypeOK
    <3>2. CASE ExtractCommit(p)
      BY <3>2 DEF ExtractCommit, Idle, TypeOK
    <3>. QED BY <1>7, <3>1, <3>2
  <2>. QED BY <1>7, <2>1, <2>2, IntegrityRegistered DEF ArchiveRegister, ExtractCommit
<1>8. ASSUME NEW p \in Procs, Refuse(p) \/ Fail(p)
      PROVE  IntegrityInv'
  <2>1. Exporting(p) /\ CleanUp(p) /\ job[p].pc # "registered"
    BY <1>8 DEF Refuse, Fail, DeleteThrows, Exporting, Archiving
  <2>2. \A part \in partitions : job[p].path # part.path
    BY <2>1 DEF IntegrityInv
  <2>3. /\ UNCHANGED partitions /\ onDisk' = onDisk \ {job[p].path}
        /\ \A f \in Paths : f # job[p].path => files'[f] = files[f]
        /\ \A q \in Procs \ {p} : job'[q] = job[q]
        /\ job'[p].pc = "idle"
    BY <2>1 DEF CleanUp, Idle, TypeOK
  <2>. QED BY <1>1, <2>2, <2>3, IntegrityKept DEF Exporting, Archiving
<1>. QED BY <1>2, <1>3, <1>4, <1>5, <1>6, <1>7, <1>8 DEF Next

\* archiveEventsOlderThan beside everything else: as long as no archive call throws in
\* the delete that follows its registration, verifyArchiveIntegrity finds every
\* registered file with its content, wherever else calls throw and processes die.
THEOREM ArchivesKeepIntegrity == Spec /\ [][~ DeleteThrows]_vars => []ArchiveIntegrity
<1>1. Init => IntegrityInv
  BY DEF Init, IntegrityInv, ArchiveIntegrity
<1>2. TypeOK /\ StoreInv /\ IntegrityInv /\ [Next]_vars /\ [~ DeleteThrows]_vars
        => IntegrityInv'
  <2>1. ASSUME TypeOK, StoreInv, IntegrityInv, UNCHANGED vars
        PROVE  IntegrityInv'
    BY <2>1 DEF vars, IntegrityInv, ArchiveIntegrity, PartitionOk, Exporting, Archiving
  <2>. QED BY <2>1, StepKeepsIntegrity
<1>3. IntegrityInv => ArchiveIntegrity
  BY DEF IntegrityInv
<1>. QED BY <1>1, <1>2, <1>3, TypeCorrect, StoreInvariant, PTL DEF Spec

-----------------------------------------------------------------------------
(***************************************************************************)
(* Replays over all tiers.                                                 *)
(***************************************************************************)

\* What a step of the store does behind a reader's back: it drops no registry row
\* and no settled file; rows leave the hot table only for a settled file, which it
\* registers now, or which an archive call had registered with these rows.
HandsOver(e) ==
    \E part \in partitions' :
        /\ part.path \in SettledPaths' /\ e \in Keys(files[part.path])'
        /\ \/ part \notin partitions
           \/ \E p \in Procs : /\ job[p].pc = "registered" /\ job[p].path = part.path
                               /\ e \in Keys(job[p].rows)

StoreStep ==
    /\ partitions \subseteq partitions'
    /\ accepted \subseteq accepted'
    /\ \A path \in SettledPaths : \A e \in Keys(files[path]) :
         path \in SettledPaths' /\ e \in Keys(files[path])'
    /\ \A e \in Keys(hot) : e \in Keys(hot)' \/ HandsOver(e)
    /\ \A p \in Procs : job'[p].pc = "registered" =>
         \/ /\ job[p].pc = "registered"
            /\ job'[p].path = job[p].path /\ job'[p].rows = job[p].rows
         \/ job'[p].path \notin RegisteredPaths

\* No step takes a path that has a file, or changes the file of another call.
LEMMA SettledKept ==
  ASSUME TypeOK, StoreInv, NEW p \in Procs,
         partitions \subseteq partitions',
         \A q \in Procs \ {p} : job'[q] = job[q],
         \/ job'[p].path \in {job[p].path, NoPath}
         \/ job'[p].path \in Paths \ onDisk,
         \A f \in onDisk : f # job[p].path => files'[f] = files[f],
         NEW path \in SettledPaths, NEW e \in Keys(files[path])
  PROVE  path \in SettledPaths' /\ e \in Keys(files[path])'
<1>1. path \in Paths /\ path \in RegisteredPaths' /\ job[p].path # path
  BY DEF SettledPaths, RegisteredPaths, TypeOK, Partition
<1>2. path \in onDisk
  BY <1>1 DEF StoreInv, OwnerInv, Keys
<1>3. job'[p].path # path
  BY <1>1, <1>2, StoreAssumption
<1>4. path \in SettledPaths'
  BY <1>1, <1>3 DEF SettledPaths
<1>. QED BY <1>1, <1>2, <1>4 DEF Keys

\* A call that registers nothing and takes no key from the table.
LEMMA KeepingStep ==
  ASSUME TypeOK, StoreInv, NEW p \in Procs,
         UNCHANGED <<partitions, accepted>>,
         Keys(hot)' = Keys(hot),
         \A q \in Procs \ {p} : job'[q] = job[q],
         \/ job'[p].path \in {job[p].path, NoPath}
         \/ job'[p].path \in Paths \ onDisk,
         job'[p].pc # "registered",
         \A f \in onDisk : f # job[p].path => files'[f] = files[f]
  PROVE  StoreStep
<1>1. \A path \in SettledPaths : \A e \in Keys(files[path]) :
        path \in SettledPaths' /\ e \in Keys(files[path])'
  BY SettledKept
<1>. QED BY <1>1 DEF StoreStep

LEMMA ReclassifyKeeps ==
  ASSUME TypeOK, StoreInv, NEW p \in Procs,
         \/ \E id \in Ids, tag \in Tags : ReclassifyRead(p, id, tag)
         \/ ReclassifyWrite(p)
         \/ ReclassifyReturn(p)
         \/ Crash(p)
  PROVE  StoreStep
<1>1. /\ UNCHANGED <<partitions, onDisk, files, accepted>>
      /\ \A q \in Procs \ {p} : job'[q] = job[q]
      /\ job'[p].path \in {job[p].path, NoPath} /\ job'[p].pc # "registered"
  <2>1. ASSUME NEW id \in Ids, NEW tag \in Tags, ReclassifyRead(p, id, tag)
        PROVE  <1>1!:
    BY <2>1 DEF ReclassifyRead, Idle, TypeOK
  <2>2. ASSUME ReclassifyWrite(p) PROVE <1>1!:
    BY <2>2, JobUpdate DEF ReclassifyWrite, TypeOK
  <2>3. ASSUME ReclassifyReturn(p) \/ Crash(p) PROVE <1>1!:
    BY <2>3 DEF ReclassifyReturn, Crash, Idle, TypeOK
  <2>. QED BY <2>1, <2>2, <2>3
<1>2. Keys(hot)' = Keys(hot)
  BY RetagKeepsKeys DEF ReclassifyRead, ReclassifyReturn, Crash
<1>. QED BY <1>1, <1>2, KeepingStep

LEMMA ArchiveKeeps ==
  ASSUME TypeOK, StoreInv, NEW p \in Procs,
         \/ \E path \in Paths, watermark \in 0..lastSeq : ArchiveOpen(p, path, watermark)
         \/ ArchiveCopy(p)
         \/ ArchiveGate(p)
         \/ \E path \in Paths, rows \in SUBSET hot : ExtractCopy(p, path, rows)
         \/ Exporting(p) /\ CleanUp(p)
  PROVE  StoreStep
<1> DEFINE Kept == /\ UNCHANGED <<hot, partitions, accepted>>
                   /\ \A q \in Procs \ {p} : job'[q] = job[q]
                   /\ \/ job'[p].path \in {job[p].path, NoPath}
                      \/ job'[p].path \in Paths \ onDisk
                   /\ job'[p].pc # "registered"
                   /\ \A f \in onDisk : f # job[p].path => files'[f] = files[f]
<1>1. ASSUME NEW path \in Paths, NEW watermark \in 0..lastSeq, ArchiveOpen(p, path, watermark)
      PROVE  Kept
  BY <1>1 DEF ArchiveOpen, Idle, TypeOK
<1>2. ASSUME ArchiveCopy(p) PROVE Kept
  <2> DEFINE cold == ColdRows(job[p].cutoff)
  <2> HIDE DEF cold
  <2>1. /\ job' = [job EXCEPT ![p] = [job[p] EXCEPT !.pc = "copied", !.rows = cold]]
        /\ files' = [files EXCEPT ![job[p].path] = cold]
        /\ UNCHANGED <<hot, partitions, accepted>>
    BY <1>2 DEF ArchiveCopy, cold
  <2>. QED BY <2>1 DEF TypeOK, Job
<1>3. ASSUME ArchiveGate(p) PROVE Kept
  BY <1>3, JobUpdate DEF ArchiveGate, TypeOK
<1>4. ASSUME NEW path \in Paths, NEW rows \in SUBSET hot, ExtractCopy(p, path, rows)
      PROVE  Kept
  BY <1>4 DEF ExtractCopy, Idle, TypeOK
<1>5. ASSUME CleanUp(p) PROVE Kept
  BY <1>5 DEF CleanUp, Idle, TypeOK
<1>6. Kept
  BY <1>1, <1>2, <1>3, <1>4, <1>5
<1>7. Keys(hot)' = Keys(hot)
  BY <1>6
<1>. QED BY <1>6, <1>7, KeepingStep

\* A new registry row, of a path that no row has.
LEMMA RegisterKeeps ==
  ASSUME TypeOK, StoreInv, NEW p \in Procs, ArchiveRegister(p)
  PROVE  StoreStep
<1>1. job[p] \in Job /\ job[p].path \notin RegisteredPaths
  BY DEF ArchiveRegister, TypeOK
<1>2. /\ UNCHANGED <<hot, onDisk, files, accepted>>
      /\ job'[p].path = job[p].path
      /\ \A q \in Procs \ {p} : job'[q] = job[q]
  BY <1>1, JobUpdate DEF ArchiveRegister, TypeOK
<1>3. partitions \subseteq partitions'
  BY DEF ArchiveRegister
<1>4. \A path \in SettledPaths : \A e \in Keys(files[path]) :
        path \in SettledPaths' /\ e \in Keys(files[path])'
  BY <1>2, <1>3, SettledKept
<1>. QED BY <1>1, <1>2, <1>3, <1>4 DEF StoreStep

\* The two deletes: the file that takes over is settled when they are done.
LEMMA DeleteHandsOver ==
  ASSUME TypeOK, StoreInv, NEW p \in Procs, Exporting(p),
         job' = [job EXCEPT ![p] = Idle],
         UNCHANGED <<onDisk, files, accepted>>,
         partitions \subseteq partitions',
         NEW part \in partitions', part.path = job[p].path,
         job[p].pc = "registered" \/ part \notin partitions,
         files[job[p].path] = job[p].rows,
         Keys(hot) \subseteq Keys(hot') \cup Keys(job[p].rows)
  PROVE  StoreStep
<1>1. /\ job'[p].pc = "idle" /\ job'[p].path = NoPath
      /\ \A q \in Procs \ {p} : job'[q] = job[q]
  BY DEF TypeOK, Idle
<1>2. /\ \A q \in Procs \ {p} : job[q].path # job[p].path
      /\ job[p].path # NoPath
  BY DEF StoreInv, OwnerInv, TypeOK
<1>3. part.path \in SettledPaths'
  BY <1>1, <1>2 DEF SettledPaths, RegisteredPaths
<1>4. \A e \in Keys(hot) : e \in Keys(hot)' \/ HandsOver(e)
  BY <1>3 DEF HandsOver
<1>5. \A path \in SettledPaths : \A e \in Keys(files[path]) :
        path \in SettledPaths' /\ e \in Keys(files[path])'
  BY <1>1, SettledKept
<1>. QED BY <1>1, <1>4, <1>5 DEF StoreStep

LEMMA DeletesKeep ==
  ASSUME TypeOK, StoreInv, NEW p \in Procs, ArchiveDelete(p) \/ ExtractCommit(p)
  PROVE  StoreStep
<1>1. CopyOf(p) /\ Exporting(p)
  BY DEF ArchiveDelete, ExtractCommit, Exporting, Archiving, StoreInv, CopyInv
<1>2. CASE ArchiveDelete(p)
  <2>1. job[p].pc = "registered" /\ HasCopied(p)
    BY <1>2 DEF ArchiveDelete, HasCopied
  <2>2. /\ Keys(ColdRows(job[p].cutoff)) \subseteq Keys(job[p].rows)
        /\ files[job[p].path] = job[p].rows
        /\ job[p].path \in RegisteredPaths
    BY <1>1, <2>1 DEF CopyOf
  <2>3. PICK part \in partitions : part.path = job[p].path
    BY <2>2 DEF RegisteredPaths
  <2>4. Keys(hot) \subseteq Keys(hot') \cup Keys(job[p].rows)
    BY <1>2, <2>2 DEF ArchiveDelete, Keys
  <2>. QED BY <1>1, <1>2, <2>1, <2>2, <2>3, <2>4, DeleteHandsOver DEF ArchiveDelete
<1>3. CASE ExtractCommit(p)
  <2>1. files[job[p].path] = job[p].rows
    BY <1>1, <1>3 DEF ExtractCommit, CopyOf
  <2>2. PICK new : new = [path |-> job[p].path, hash |-> job[p].rows]
    OBVIOUS
  <2>3. /\ partitions' = partitions \cup {new}
        /\ new.path = job[p].path /\ new \notin partitions
    BY <1>3, <2>2 DEF ExtractCommit, ExtractCommits, RegisteredPaths
  <2>4. ASSUME NEW r \in hot, r \notin hot'
        PROVE  Key(r) \in Keys(job[p].rows)
    <3>1. PICK s \in job[p].rows : s.seq = r.seq
      BY <1>3, <2>4 DEF ExtractCommit, Seqs
    <3>2. job[p].path \in Paths
      BY <1>1 DEF TypeOK, Job
    <3>3. Key(r) \in accepted /\ Key(s) \in accepted
      BY <2>1, <3>1, <3>2 DEF StoreInv, SequenceInv, Keys
    <3>4. Key(r)[1] = Key(s)[1]
      BY <3>1 DEF Key
    <3>. QED BY <3>1, <3>3, <3>4 DEF StoreInv, SequenceInv, Keys
  <2>5. Keys(hot) \subseteq Keys(hot') \cup Keys(job[p].rows)
    BY <2>4 DEF Keys
  <2>. QED BY <1>1, <1>3, <2>1, <2>3, <2>5, DeleteHandsOver DEF ExtractCommit
<1>. QED BY <1>2, <1>3

LEMMA AppendKeeps ==
  ASSUME TypeOK, StoreInv, NEW id \in Ids, NEW tag \in Tags, AppendEvent(id, tag)
  PROVE  StoreStep
<1>1. Keys(hot) \subseteq Keys(hot') /\ accepted \subseteq accepted'
  BY DEF AppendEvent, Keys
<1>2. UNCHANGED <<partitions, onDisk, files, job>>
  BY DEF AppendEvent
<1>3. SettledPaths' = SettledPaths
  BY <1>2 DEF SettledPaths, RegisteredPaths
<1>. QED BY <1>1, <1>2, <1>3 DEF StoreStep

LEMMA EveryStoreStep == TypeOK /\ StoreInv /\ [Next]_vars => StoreStep
<1> SUFFICES ASSUME TypeOK, StoreInv, [Next]_vars PROVE StoreStep
  OBVIOUS
<1>1. CASE UNCHANGED vars
  BY <1>1 DEF vars, StoreStep, SettledPaths, RegisteredPaths
<1>2. ASSUME NEW p \in Procs, Refuse(p) \/ Fail(p) PROVE StoreStep
  BY <1>2, ArchiveKeeps DEF Refuse, Fail, Exporting, Archiving
<1>. QED
  BY <1>1, <1>2, AppendKeeps, ReclassifyKeeps, ArchiveKeeps, RegisterKeeps, DeletesKeep DEF Next

\* The reader's own steps change nothing of the store, whose theorems therefore hold
\* whatever replays go on.
THEOREM ReadersOnlyRead == ReaderSpec => Spec
<1>1. ReaderInit => Init
  BY DEF ReaderInit
<1>2. [ReaderNext]_readerVars => [Next]_vars
  BY DEF ReaderNext, readerVars, vars, ReplayList, ReplayCold, ReplayThrows, ReplayHot
<1>. QED BY <1>1, <1>2, PTL DEF ReaderSpec, Spec

LEMMA StoreStepKeepsReplay ==
  ASSUME TypeOK, StoreInv, ReplayInv, StoreStep, UNCHANGED reader
  PROVE  ReplayInv'
<1>1. /\ partitions \subseteq partitions' /\ accepted \subseteq accepted'
      /\ reader.listed \subseteq partitions
  BY DEF StoreStep, ReplayInv
<1>2. ASSUME NEW e, InUnreadFile(e)
      PROVE  InUnreadFile(e)'
  <2>1. PICK part \in Unread : part.path \in SettledPaths /\ e \in Keys(files[part.path])
    BY <1>2 DEF InUnreadFile
  <2>2. part.path \in SettledPaths' /\ e \in Keys(files[part.path])'
    BY <2>1 DEF StoreStep
  <2>3. part \in Unread'
    BY <1>1, <2>1 DEF Unread
  <2>. QED BY <2>2, <2>3 DEF InUnreadFile
<1>3. ASSUME NEW e \in reader.begun, reader.pc = "reading", e \in Keys(hot)
      PROVE  e \in reader.seen \/ e \in Keys(hot)' \/ InUnreadFile(e)'
  <2>1. CASE e \in Keys(hot)'
    BY <2>1
  <2>2. CASE HandsOver(e)
    <3>1. PICK part \in partitions' :
            /\ part.path \in SettledPaths' /\ e \in Keys(files[part.path])'
            /\ \/ part \notin partitions
               \/ \E p \in Procs : /\ job[p].pc = "registered" /\ job[p].path = part.path
                                   /\ e \in Keys(job[p].rows)
      BY <2>2 DEF HandsOver
    <3>2. CASE part \in reader.listed \ reader.left
      BY <1>1, <1>3, <3>1, <3>2 DEF ReplayInv
    <3>3. CASE part \notin reader.listed \ reader.left
      BY <3>1, <3>3 DEF InUnreadFile, Unread
    <3>. QED BY <3>2, <3>3
  <2>. QED BY <1>3, <2>1, <2>2 DEF StoreStep
<1>4. ASSUME reader.pc = "reading", NEW p \in Procs, NEW part \in reader.listed \ reader.left,
             job'[p].pc = "registered", job'[p].path = part.path
      PROVE  Keys(job'[p].rows) \subseteq reader.seen
  <2>1. part.path \in RegisteredPaths
    BY <1>1 DEF RegisteredPaths
  <2>2. job[p].pc = "registered" /\ job[p].path = part.path /\ job'[p].rows = job[p].rows
    BY <1>4, <2>1 DEF StoreStep
  <2>. QED BY <1>4, <2>2 DEF ReplayInv
<1>. QED BY <1>1, <1>2, <1>3, <1>4 DEF ReplayInv

LEMMA ListKeepsReplay ==
  ASSUME TypeOK, StoreInv, ReplayList
  PROVE  ReplayInv'
<1>1. /\ UNCHANGED <<hot, partitions, files, job, accepted>>
      /\ reader'.pc = "reading" /\ reader'.listed = partitions /\ reader'.left = partitions
      /\ reader'.seen = {} /\ reader'.begun = accepted
  BY DEF ReplayList, NoReplay, vars
<1>2. ASSUME NEW e \in accepted
      PROVE  e \in Keys(hot)' \/ InUnreadFile(e)'
  <2>1. CASE e \in Keys(hot)
    BY <1>1, <2>1
  <2>2. ASSUME NEW path \in SettledPaths, e \in Keys(files[path])
        PROVE  InUnreadFile(e)'
    <3>1. PICK part \in partitions : part.path = path
      BY DEF SettledPaths, RegisteredPaths
    <3>2. path \in SettledPaths' /\ part \in Unread'
      BY <1>1 DEF SettledPaths, RegisteredPaths, Unread
    <3>. QED BY <1>1, <2>2, <3>1, <3>2 DEF InUnreadFile
  <2>. QED BY <2>1, <2>2 DEF StoreInv, CoverInv
<1>3. reader' \in Reader
  BY DEF ReplayList, NoReplay, Reader, TypeOK
<1>. QED BY <1>1, <1>2, <1>3 DEF ReplayInv

\* What a call that has registered its file has copied is in that file.
LEMMA ColdKeepsReplay ==
  ASSUME TypeOK, StoreInv, ReplayInv, NEW part \in reader.left, ReplayCold(part)
  PROVE  ReplayInv'
<1> DEFINE rows == Keys(files[part.path])
<1>1. /\ UNCHANGED <<hot, partitions, files, job, accepted>>
      /\ reader.pc = "reading" /\ reader'.pc = "reading"
      /\ reader'.listed = reader.listed /\ reader'.left = reader.left \ {part}
      /\ reader'.seen = reader.seen \cup rows /\ reader'.begun = reader.begun
  BY DEF ReplayCold, Yield, vars, Reader, ReplayInv
<1>2. part \in partitions /\ part.path \in Paths
  BY DEF ReplayInv, TypeOK, Partition
<1>3. rows \subseteq accepted
  BY <1>2 DEF StoreInv, SequenceInv
<1>4. ASSUME NEW e, InUnreadFile(e)
      PROVE  e \in rows \/ InUnreadFile(e)'
  <2>1. PICK q \in Unread : q.path \in SettledPaths /\ e \in Keys(files[q.path])
    BY <1>4 DEF InUnreadFile
  <2>2. SettledPaths' = SettledPaths /\ Unread' = Unread \ {part}
    BY <1>1, <1>2 DEF SettledPaths, RegisteredPaths, Unread, ReplayInv
  <2>. QED BY <1>1, <2>1, <2>2 DEF InUnreadFile
<1>5. ASSUME NEW p \in Procs, job[p].pc = "registered", job[p].path = part.path
      PROVE  Keys(job[p].rows) \subseteq rows
  BY <1>5 DEF StoreInv, CopyInv, CopyOf, HasCopied
<1>6. reader' \in Reader
  <2>1. rows \in SUBSET (Nat \X Ids)
    BY <1>3 DEF TypeOK
  <2> HIDE DEF rows
  <2>2. reader' = [reader EXCEPT !.seen  = reader.seen \cup rows,
                                 !.again = reader.again \cup (rows \cap reader.seen),
                                 !.left  = reader.left \ {part}]
    BY DEF ReplayCold, Yield, rows, Reader, ReplayInv
  <2>. QED BY <2>1, <2>2 DEF Reader, ReplayInv
<1>. QED BY <1>1, <1>3, <1>4, <1>5, <1>6 DEF ReplayInv

LEMMA HotKeepsReplay ==
  ASSUME TypeOK, StoreInv, ReplayInv, ReplayHot
  PROVE  ReplayInv'
<1>1. /\ UNCHANGED <<hot, partitions, files, job, accepted>>
      /\ reader.pc = "reading" /\ reader.left = {} /\ reader'.pc = "done"
      /\ reader'.listed = reader.listed /\ reader'.left = reader.left
      /\ reader'.seen = reader.seen \cup Keys(hot) /\ reader'.begun = reader.begun
  BY DEF ReplayHot, HotRows, Yield, vars, Reader, ReplayInv
<1>2. \A e : InUnreadFile(e)' = InUnreadFile(e)
  BY <1>1 DEF InUnreadFile, SettledPaths, RegisteredPaths, Unread
<1>3. Keys(hot) \subseteq accepted
  BY DEF StoreInv, SequenceInv
<1>4. reader' \in Reader
  <2>1. Keys(hot) \in SUBSET (Nat \X Ids)
    BY <1>3 DEF TypeOK
  <2>2. reader' = [reader EXCEPT !.seen  = reader.seen \cup Keys(hot),
                                 !.again = reader.again \cup (Keys(hot) \cap reader.seen),
                                 !.pc    = "done"]
    BY DEF ReplayHot, HotRows, Yield, Reader, ReplayInv
  <2>. QED BY <2>1, <2>2 DEF Reader, ReplayInv
<1>. QED BY <1>1, <1>2, <1>3, <1>4 DEF ReplayInv

LEMMA ReplayInductive == ReaderSpec => []ReplayInv
<1>1. ReaderInit => ReplayInv
  BY DEF ReaderInit, Init, NoReplay, Reader, ReplayInv
<1>2. TypeOK /\ StoreInv /\ ReplayInv /\ [ReaderNext]_readerVars => ReplayInv'
  <2> SUFFICES ASSUME TypeOK, StoreInv, ReplayInv, [ReaderNext]_readerVars
               PROVE  ReplayInv'
    OBVIOUS
  <2>1. CASE [Next]_vars /\ UNCHANGED reader
    BY <2>1, EveryStoreStep, StoreStepKeepsReplay
  <2>2. ASSUME NEW part \in reader.left, ReplayThrows(part)
        PROVE  ReplayInv'
    BY <2>2 DEF ReplayThrows, NoReplay, Reader, ReplayInv
  <2>. QED
    BY <2>1, <2>2, ListKeepsReplay, ColdKeepsReplay, HotKeepsReplay DEF ReaderNext, readerVars
<1>. QED
  BY <1>1, <1>2, ReadersOnlyRead, TypeCorrect, StoreInvariant, PTL DEF ReaderSpec

\* PartitionedEventStore.replay beside archive and extraction calls of any number of
\* processes that commit between its reads, throw or die: a replay that comes to its
\* end has missed no event but those moved to a file registered after its listing.
THEOREM ReplayComplete == ReaderSpec => []ReplayMissesOnlyMoved
<1>1. ReplayInv => ReplayMissesOnlyMoved
  BY DEF ReplayInv, ReplayMissesOnlyMoved, InUnreadFile, Unread, Moved
<1>. QED BY <1>1, ReplayInductive, PTL

-----------------------------------------------------------------------------
(***************************************************************************)
(* Replays beside extractions.                                             *)
(***************************************************************************)

\* An extraction never touches a registered file.
LEMMA RegisteredFilesKept ==
  ASSUME TypeOK, ExtractInv, ExtractInv', partitions \subseteq partitions',
         NEW part \in partitions
  PROVE  files'[part.path] = files[part.path]
BY DEF ExtractInv, ArchiveIntegrity, PartitionOk

LEMMA StepKeepsYield ==
  ASSUME TypeOK, ExtractInv, ExtractInv', ReplayInv, YieldInv, StoreStep \/ UNCHANGED vars,
         [ReaderNext]_readerVars
  PROVE  YieldInv'
<1> DEFINE Read == reader.listed \ reader.left
<1>1. partitions \subseteq partitions' /\ reader.listed \subseteq partitions
  BY DEF StoreStep, vars, YieldInv
<1>2. CASE UNCHANGED reader
  <2>1. \A part \in reader.listed : files'[part.path] = files[part.path]
    BY <1>1, RegisteredFilesKept
  <2>. QED BY <1>1, <1>2, <2>1 DEF YieldInv, ReplayedOnce
<1>3. CASE ReplayList \/ \E part \in reader.left : ReplayThrows(part)
  <2>1. /\ reader'.seen = {} /\ reader'.again = {}
        /\ reader'.listed \subseteq partitions /\ partitions' = partitions
    <3>1. CASE ReplayList
      BY <3>1 DEF ReplayList, NoReplay, vars
    <3>2. ASSUME NEW part \in reader.left, ReplayThrows(part)
          PROVE  <2>1!:
      BY <3>2 DEF ReplayThrows, NoReplay, vars
    <3>. QED BY <1>3, <3>1, <3>2
  <2>. QED BY <2>1 DEF YieldInv, ReplayedOnce
<1>4. ASSUME NEW part \in reader.left, ReplayCold(part)
      PROVE  YieldInv'
  <2> DEFINE rows == Keys(files[part.path])
  <2>1. /\ UNCHANGED <<partitions, files>>
        /\ reader.pc = "reading" /\ reader'.listed = reader.listed
        /\ reader'.left = reader.left \ {part}
        /\ reader'.seen = reader.seen \cup rows
        /\ reader'.again = reader.again \cup (rows \cap reader.seen)
    BY <1>4 DEF ReplayCold, Yield, vars, Reader, ReplayInv
  <2>2. part \in partitions /\ part \in reader.listed
    BY <1>1 DEF ReplayInv
  <2>3. rows \cap reader.seen = {}
    <3> SUFFICES ASSUME NEW e \in rows, e \in reader.seen PROVE FALSE
      OBVIOUS
    <3>1. PICK q \in Read : e \in Keys(files[q.path])
      BY <2>1 DEF YieldInv
    <3>2. q \in partitions /\ q # part
      BY <1>1
    <3>. QED BY <2>2, <3>1, <3>2 DEF ExtractInv, StoredOnce, Keys, Key
  <2>. QED BY <1>1, <2>1, <2>2, <2>3 DEF YieldInv, ReplayedOnce
<1>5. CASE ReplayHot
  <2>1. /\ UNCHANGED <<partitions, files>>
        /\ reader.pc = "reading" /\ reader'.pc = "done" /\ reader'.listed = reader.listed
        /\ reader'.again = reader.again \cup (Keys(hot) \cap reader.seen)
    BY <1>5 DEF ReplayHot, HotRows, Yield, vars, Reader, ReplayInv
  <2>2. Keys(hot) \cap reader.seen = {}
    <3> SUFFICES ASSUME NEW e \in Keys(hot), e \in reader.seen PROVE FALSE
      OBVIOUS
    <3>1. PICK q \in Read : e \in Keys(files[q.path])
      BY <2>1 DEF YieldInv
    <3>. QED BY <1>1, <3>1 DEF ExtractInv, StoredOnce, Keys, Key
  <2>. QED BY <1>1, <2>1, <2>2 DEF YieldInv, ReplayedOnce
<1>. QED BY <1>2, <1>3, <1>4, <1>5 DEF ReaderNext, readerVars

\* The same replay, where files are written by extractions only: it yields no event
\* twice, for what it has read from a file is in no tier that it has still to read,
\* whatever commits in between.
THEOREM ReplayNeverRepeats == "archive" \notin Operations => (ReaderSpec => []ReplayedOnce)
<1> SUFFICES ASSUME "archive" \notin Operations
             PROVE  ReaderSpec => []ReplayedOnce
  OBVIOUS
<1>1. ReaderInit => YieldInv
  BY DEF ReaderInit, Init, NoReplay, YieldInv, ReplayedOnce
<1>2. TypeOK /\ StoreInv /\ ExtractInv /\ ExtractInv' /\ ReplayInv /\ YieldInv
        /\ [ReaderNext]_readerVars => YieldInv'
  BY EveryStoreStep, StepKeepsYield
     DEF ReaderNext, readerVars, vars, ReplayList, ReplayCold, ReplayThrows, ReplayHot
<1>3. YieldInv => ReplayedOnce
  BY DEF YieldInv
<1>. QED
  BY <1>1, <1>2, <1>3, ReadersOnlyRead, TypeCorrect, StoreInvariant, ExtractInductive,
     ReplayInductive, PTL DEF ReaderSpec
=============================================================================

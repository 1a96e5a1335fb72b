----------------------------- MODULE EventStore -----------------------------
(***************************************************************************)
(* The SQLite event store of prototype/platform/event-store/store.ts and   *)
(* its cold tier: the hot `events` table, the archive files on disk, the   *)
(* `archive_partitions` registry, and the processes that share them.       *)
(*                                                                         *)
(* Every SQL statement or transaction is atomic (SQLite serialises         *)
(* writers); a call of several statements is several actions, between      *)
(* which other processes run, the call may throw or the process may die.   *)
(* A row is abstracted to its sequence, its event id and one mutable       *)
(* envelope column (`tag`: entity or provenance); payloads are immutable   *)
(* and left out.                                                           *)
(***************************************************************************)
EXTENDS Integers, FiniteSets

CONSTANTS
    Procs,          \* the processes that hold the store open
    Ids,            \* event ids (uuids)
    Tags,           \* values of the mutable envelope column
    Paths,          \* archive file paths
    NoPath,         \* "no archive file": a value outside Paths
    NoId,           \* "no event": a value outside Ids
    TargetEvents,   \* BANK_ARCHIVE_TARGET_EVENTS: rows the archiver keeps hot
    Operations,     \* the calls the processes make
    MaxSeq          \* bound on the number of appends

AllOperations == {"archive", "extract", "reclassify"}

ASSUME StoreAssumption ==
    /\ NoPath \notin Paths
    /\ NoId \notin Ids
    /\ Tags # {}
    /\ TargetEvents \in Nat
    /\ MaxSeq \in Nat
    /\ Operations \subseteq AllOperations

VARIABLES
    hot,            \* rows of the hot `events` table
    lastSeq,        \* sqlite_sequence: last AUTOINCREMENT value handed out
    partitions,     \* rows of `archive_partitions`
    onDisk,         \* paths at which an archive file exists
    files,          \* content of the archive file at each path
    job,            \* per process: the call in progress and its locals
    accepted        \* history: <<sequence, id>> of every append that returned

vars == <<hot, lastSeq, partitions, onDisk, files, job, accepted>>

Row == [seq : Nat \ {0}, id : Ids, tag : Tags]

\* A registry row. The SHA-256 of the file stands for its content; the
\* min/max/count columns are functions of that content.
Partition == [path : Paths, hash : SUBSET Row]

Job == [pc : {"idle", "opened", "copied", "gated", "registered",
              "extracted", "retag", "reclassified"},
        path : Paths \cup {NoPath}, cutoff : Nat, rows : SUBSET Row,
        id : Ids \cup {NoId}, tag : Tags]

Key(r)    == <<r.seq, r.id>>
Keys(S)   == {Key(r) : r \in S}
Seqs(S)   == {r.seq : r \in S}
AnyTag    == CHOOSE t \in Tags : TRUE

Idle == [pc |-> "idle", path |-> NoPath, cutoff |-> 0, rows |-> {},
         id |-> NoId, tag |-> AnyTag]

\* highWatermark() returns n: MAX(sequence), or 0 for an empty table.
IsHighWatermark(n) ==
    /\ \A r \in hot : r.seq <= n
    /\ n = 0 \/ n \in Seqs(hot)

\* Mutant of NextSequence: the first row is numbered 0.
NextSequenceFromZero == lastSeq

\* INTEGER PRIMARY KEY AUTOINCREMENT: a number above every one ever used.
NextSequence == lastSeq + 1

\* What the call in progress is, from its program counter.
Archiving(p)  == job[p].pc \in {"opened", "copied", "gated", "registered"}
Exporting(p)  == Archiving(p) \/ job[p].pc = "extracted"
HasCopied(p)  == job[p].pc \in {"copied", "gated", "registered"}

RegisteredPaths == {part.path : part \in partitions}

-----------------------------------------------------------------------------
(***************************************************************************)
(* Appending.                                                              *)
(***************************************************************************)

\* append: one INSERT. Event ids are fresh uuids (an id present in the hot table
\* would violate UNIQUE and the call would throw).
AppendEvent(id, tag) ==
    /\ lastSeq < MaxSeq
    /\ \A e \in accepted : e[2] # id
    /\ hot' = hot \cup {[seq |-> NextSequence, id |-> id, tag |-> tag]}
    /\ lastSeq' = NextSequence
    /\ accepted' = accepted \cup {<<NextSequence, id>>}
    /\ UNCHANGED <<partitions, onDisk, files, job>>

-----------------------------------------------------------------------------
(***************************************************************************)
(* Retagging an envelope column: SELECT the row, then UPDATE it.           *)
(***************************************************************************)

\* reclassifyEntity, up to its early returns: the row exists and is not yet at
\* the target.
ReclassifyRead(p, id, tag) ==
    /\ "reclassify" \in Operations
    /\ job[p].pc = "idle"
    /\ \E r \in hot : r.id = id /\ r.tag # tag
    /\ job' = [job EXCEPT ![p] = [Idle EXCEPT !.pc = "retag", !.id = id, !.tag = tag]]
    /\ UNCHANGED <<hot, lastSeq, partitions, onDisk, files, accepted>>

\* reclassifyEntity, the UPDATE and `return { reclassified: true }`.
ReclassifyWrite(p) ==
    /\ job[p].pc = "retag"
    /\ hot' = {IF r.id = job[p].id THEN [r EXCEPT !.tag = job[p].tag] ELSE r : r \in hot}
    /\ job' = [job EXCEPT ![p].pc = "reclassified"]
    /\ UNCHANGED <<lastSeq, partitions, onDisk, files, accepted>>

\* The caller of reclassifyEntity takes the result and goes on.
ReclassifyReturn(p) ==
    /\ job[p].pc = "reclassified"
    /\ job' = [job EXCEPT ![p] = Idle]
    /\ UNCHANGED <<hot, lastSeq, partitions, onDisk, files, accepted>>

-----------------------------------------------------------------------------
(***************************************************************************)
(* archiveEventsOlderThan, called by scripts/archive/check-and-archive.ts. *)
(***************************************************************************)

\* The caller's cutoff: keep the newest TargetEvents, never less than 1.
ArchiveCutoff(watermark) ==
    IF watermark - TargetEvents > 1 THEN watermark - TargetEvents ELSE 1

\* Steps 1 and 2: refuse an existing file, create the archive database.
ArchiveOpen(p, path, watermark) ==
    /\ "archive" \in Operations
    /\ job[p].pc = "idle"
    /\ IsHighWatermark(watermark)
    /\ path \notin onDisk
    /\ onDisk' = onDisk \cup {path}
    /\ job' = [job EXCEPT ![p] = [Idle EXCEPT !.pc = "opened", !.path = path,
                                              !.cutoff = ArchiveCutoff(watermark)]]
    /\ UNCHANGED <<hot, lastSeq, partitions, files, accepted>>

ColdRows(cutoff) == {r \in hot : r.seq <= cutoff}

\* Step 3: SELECT the cold rows and copy them into the archive database.
ArchiveCopy(p) ==
    LET cold == ColdRows(job[p].cutoff) IN
    /\ job[p].pc = "opened"
    /\ cold # {}
    /\ files' = [files EXCEPT ![job[p].path] = cold]
    /\ job' = [job EXCEPT ![p].pc = "copied", ![p].rows = cold]
    /\ UNCHANGED <<hot, lastSeq, partitions, onDisk, accepted>>

\* Step 4's test: archive COUNT(*) = hot COUNT(*) at or below the cutoff.
ArchiveCountsAgree(p) ==
    Cardinality(ColdRows(job[p].cutoff)) = Cardinality(job[p].rows)

\* Steps 4 and 5: the integrity gate, then the hash.
ArchiveGate(p) ==
    /\ job[p].pc = "copied"
    /\ ArchiveCountsAgree(p)
    /\ job' = [job EXCEPT ![p].pc = "gated"]
    /\ UNCHANGED <<hot, lastSeq, partitions, onDisk, files, accepted>>

\* Step 6: INSERT the registry row, in a transaction of its own.
ArchiveRegister(p) ==
    /\ job[p].pc = "gated"
    /\ job[p].path \notin RegisteredPaths
    /\ partitions' = partitions \cup {[path |-> job[p].path, hash |-> job[p].rows]}
    /\ job' = [job EXCEPT ![p].pc = "registered"]
    /\ UNCHANGED <<hot, lastSeq, onDisk, files, accepted>>

\* Mutant of ArchiveDelete: the cutoff is worked out again before the delete.
ArchiveDeleteAtWatermark(p) ==
    /\ job[p].pc = "registered"
    /\ hot' = hot \ ColdRows(ArchiveCutoff(lastSeq))
    /\ job' = [job EXCEPT ![p] = Idle]
    /\ UNCHANGED <<lastSeq, partitions, onDisk, files, accepted>>

\* Steps 7 and 8: DELETE every hot row at or below the cutoff.
ArchiveDelete(p) ==
    /\ job[p].pc = "registered"
    /\ hot' = hot \ ColdRows(job[p].cutoff)
    /\ job' = [job EXCEPT ![p] = Idle]
    /\ UNCHANGED <<lastSeq, partitions, onDisk, files, accepted>>

-----------------------------------------------------------------------------
(***************************************************************************)
(* extractToArchivePartition.                                              *)
(***************************************************************************)

\* Mutant of ExtractCopy: an existing archive file is overwritten.
ExtractCopyOverwrites(p, path, rows) ==
    /\ "extract" \in Operations
    /\ job[p].pc = "idle"
    /\ rows # {}
    /\ onDisk' = onDisk \cup {path}
    /\ files' = [files EXCEPT ![path] = rows]
    /\ job' = [job EXCEPT ![p] = [Idle EXCEPT !.pc = "extracted", !.path = path,
                                              !.rows = rows]]
    /\ UNCHANGED <<hot, lastSeq, partitions, accepted>>

\* Steps 1 to 4: refuse an existing file, snapshot the selected rows (by id
\* list or predicate: any non-empty set of hot rows), copy them, hash the file.
ExtractCopy(p, path, rows) ==
    /\ "extract" \in Operations
    /\ job[p].pc = "idle"
    /\ path \notin onDisk
    /\ rows # {}
    /\ onDisk' = onDisk \cup {path}
    /\ files' = [files EXCEPT ![path] = rows]
    /\ job' = [job EXCEPT ![p] = [Idle EXCEPT !.pc = "extracted", !.path = path,
                                              !.rows = rows]]
    /\ UNCHANGED <<hot, lastSeq, partitions, accepted>>

\* Mutant of ExtractCommits: the number of deleted rows is not compared.
ExtractCommitsUnchecked(p) == job[p].path \notin RegisteredPaths

\* Step 5's tests: the registry accepts the path, and the DELETE by captured
\* sequence removes as many rows as were captured.
ExtractCommits(p) ==
    /\ job[p].path \notin RegisteredPaths
    /\ Seqs(job[p].rows) \subseteq Seqs(hot)

\* Step 5: one immediate transaction registers the partition and deletes
\* exactly the captured sequences.
ExtractCommit(p) ==
    /\ job[p].pc = "extracted"
    /\ ExtractCommits(p)
    /\ partitions' = partitions \cup {[path |-> job[p].path, hash |-> job[p].rows]}
    /\ hot' = {r \in hot : r.seq \notin Seqs(job[p].rows)}
    /\ job' = [job EXCEPT ![p] = Idle]
    /\ UNCHANGED <<lastSeq, onDisk, files, accepted>>

-----------------------------------------------------------------------------
(***************************************************************************)
(* Failure.                                                                *)
(***************************************************************************)

\* The catch block of both calls: unlink the archive file, rethrow.
CleanUp(p) ==
    /\ onDisk' = onDisk \ {job[p].path}
    /\ files' = [files EXCEPT ![job[p].path] = {}]
    /\ job' = [job EXCEPT ![p] = Idle]
    /\ UNCHANGED <<hot, lastSeq, partitions, accepted>>

\* The calls' own refusals: nothing to archive, counts that differ, a path
\* already registered, a delete that missed rows (the transaction rolls back).
Refuse(p) ==
    /\ \/ job[p].pc = "opened" /\ ColdRows(job[p].cutoff) = {}
       \/ job[p].pc = "copied" /\ ~ArchiveCountsAgree(p)
       \/ job[p].pc = "gated" /\ job[p].path \in RegisteredPaths
       \/ job[p].pc = "extracted" /\ ~ExtractCommits(p)
    /\ CleanUp(p)

\* A statement throws (SQLITE_BUSY after busy_timeout, disk full): the
\* transaction it is in rolls back and the catch block runs.
Fail(p) ==
    /\ Exporting(p)
    /\ CleanUp(p)

\* The process dies between two statements: no catch block runs.
Crash(p) ==
    /\ job[p].pc # "idle"
    /\ job' = [job EXCEPT ![p] = Idle]
    /\ UNCHANGED <<hot, lastSeq, partitions, onDisk, files, accepted>>

-----------------------------------------------------------------------------
Init ==
    /\ hot = {}
    /\ lastSeq = 0
    /\ partitions = {}
    /\ onDisk = {}
    /\ files = [path \in Paths |-> {}]
    /\ job = [p \in Procs |-> Idle]
    /\ accepted = {}

Next ==
    \/ \E id \in Ids, tag \in Tags : AppendEvent(id, tag)
    \/ \E p \in Procs :
        \/ \E id \in Ids, tag \in Tags : ReclassifyRead(p, id, tag)
        \/ ReclassifyWrite(p)
        \/ ReclassifyReturn(p)
        \/ \E path \in Paths, watermark \in 0..lastSeq : ArchiveOpen(p, path, watermark)
        \/ ArchiveCopy(p)
        \/ ArchiveGate(p)
        \/ ArchiveRegister(p)
        \/ ArchiveDelete(p)
        \/ \E path \in Paths, rows \in SUBSET hot : ExtractCopy(p, path, rows)
        \/ ExtractCommit(p)
        \/ Refuse(p)
        \/ Fail(p)
        \/ Crash(p)

Spec == Init /\ [][Next]_vars

-----------------------------------------------------------------------------
\* verifyArchiveIntegrity reports a partition as ok.
PartitionOk(part) == part.path \in onDisk /\ files[part.path] = part.hash

\* The entries a full replay still finds: the hot table, and the files of the
\* registered partitions.
Replayable ==
    Keys(hot) \cup UNION {Keys(files[part.path]) : part \in partitions}

-----------------------------------------------------------------------------
(***************************************************************************)
(* Properties.                                                             *)
(***************************************************************************)

\* Types: in particular every stored sequence is positive, the archiver's cutoff
\* is never below zero, and a call holds a path exactly while it exports.
TypeOK ==
    /\ hot \subseteq Row
    /\ lastSeq \in Nat
    /\ partitions \subseteq Partition
    /\ onDisk \subseteq Paths
    /\ files \in [Paths -> SUBSET Row]
    /\ job \in [Procs -> Job]
    /\ accepted \subseteq (Nat \X Ids)
    /\ \A p \in Procs : Exporting(p) <=> job[p].path # NoPath

\* The store implements the append-only log: whatever the interleaving of
\* appends, retagging, archiving and extraction, and wherever a call throws or
\* its process dies, a full replay (hot plus registered partitions) finds
\* exactly the events ever appended, and appends take ever larger sequences.
Log == INSTANCE AppendOnlyLog WITH log <- Replayable
ImplementsLog == Log!Spec

\* verifyArchiveIntegrity finds every registered archive file, with the content
\* that was hashed when it was registered: a call that throws removes its file
\* and leaves no registry row behind.
ArchiveIntegrity == \A part \in partitions : PartitionOk(part)

-----------------------------------------------------------------------------
(***************************************************************************)
(* The inductive invariant behind ImplementsLog.                           *)
(***************************************************************************)

\* Paths whose registered file no call in progress can still remove.
SettledPaths ==
    {path \in RegisteredPaths : \A p \in Procs : job[p].path # path}

\* Sequences are handed out once, and only existing events are stored.
SequenceInv ==
    /\ \A e \in accepted : e[1] \in 1..lastSeq
    /\ \A e, f \in accepted : e[1] = f[1] => e = f
    /\ Keys(hot) \subseteq accepted
    /\ \A path \in Paths : Keys(files[path]) \subseteq accepted

\* A call in progress owns its archive file; a path without a file is empty.
OwnerInv ==
    /\ \A path \in Paths \ onDisk : files[path] = {}
    /\ \A p \in Procs : Exporting(p) => job[p].path \in onDisk
    /\ \A p, q \in Procs :
          Exporting(p) /\ Exporting(q) /\ p # q => job[p].path # job[q].path

\* The archiver's cutoff is behind the sequences to come, so that what it will
\* delete is among what it has copied.
CopyOf(p) ==
    /\ Archiving(p) => job[p].cutoff <= lastSeq \/ job[p].cutoff = 1
    /\ HasCopied(p) =>
         /\ job[p].cutoff <= lastSeq
         /\ Keys(ColdRows(job[p].cutoff)) \subseteq Keys(job[p].rows)
    /\ HasCopied(p) \/ job[p].pc = "extracted" =>
         files[job[p].path] = job[p].rows
    /\ job[p].pc = "registered" => job[p].path \in RegisteredPaths

CopyInv == \A p \in Procs : CopyOf(p)

\* No event depends on a file that a failing call would remove.
CoverInv ==
    \A e \in accepted :
        \/ e \in Keys(hot)
        \/ \E path \in SettledPaths : e \in Keys(files[path])

\* Every event ever appended is in the hot table or in a registered archive file
\* that no throwing call can unlink any more, whatever archive and extraction
\* calls of other processes are under way.
StoreInv == SequenceInv /\ OwnerInv /\ CopyInv /\ CoverInv

-----------------------------------------------------------------------------
(***************************************************************************)
(* The inductive invariant behind ArchiveIntegrity, where nothing archives.*)
(***************************************************************************)

OneRowEach(S) == \A r, s \in S : r.seq = s.seq => r = s

\* No tier holds a sequence twice, and no two tiers hold the same one.
StoredOnce ==
    /\ OneRowEach(hot)
    /\ \A part \in partitions :
         /\ OneRowEach(files[part.path])
         /\ \A r \in files[part.path], s \in hot : r.seq # s.seq
    /\ \A a, b \in partitions : a # b =>
         \A r \in files[a.path], s \in files[b.path] : r.seq # s.seq

\* An extraction registers its file and lets go of it in the same step.
ExtractInv ==
    /\ \A p \in Procs : ~ Archiving(p)
    /\ \A path \in Paths : OneRowEach(files[path])
    /\ \A part \in partitions, p \in Procs : Exporting(p) => job[p].path # part.path
    /\ \A a, b \in partitions : a.path = b.path => a = b
    /\ ArchiveIntegrity
    /\ StoredOnce

-----------------------------------------------------------------------------
(***************************************************************************)
(* The same beside archive calls.                                          *)
(***************************************************************************)

\* The delete of an archive call (step 7) throws: the catch block unlinks a file
\* whose registry row is committed.
DeleteThrows == \E p \in Procs : job[p].pc = "registered" /\ Fail(p)

\* Until it has deleted its rows, a call may hold the file of a registered partition;
\* one that may still be refused does not.
IntegrityInv ==
    /\ ArchiveIntegrity
    /\ \A part \in partitions, p \in Procs :
          Exporting(p) /\ job[p].path = part.path => job[p].pc = "registered"
=============================================================================

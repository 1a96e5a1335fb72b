----------------------- MODULE PartitionedEventStore -----------------------
(***************************************************************************)
(* The unified reader of partitioned-store.ts over the hot table and the   *)
(* registered archive files.  replay() is a generator: it lists the        *)
(* partitions, then reads one archive file after the other, then the hot   *)
(* table, and the calls of other processes commit in between.              *)
(*                                                                         *)
(* Readers write nothing, so one stands for any number of them.  Its       *)
(* callers replay everything: the sequence floor of ReplayOpts is 1.       *)
(***************************************************************************)
EXTENDS EventStore

VARIABLE
    reader          \* the replay in progress, or the last one to finish

readerVars == <<vars, reader>>

\* A replay: the partitions it listed, those it has still to read, the entries
\* it has yielded and those it has yielded again; `begun` is what had been
\* appended when it listed the partitions.
Reader == [pc : {"idle", "reading", "done"},
           listed : SUBSET Partition, left : SUBSET Partition,
           seen : SUBSET (Nat \X Ids), again : SUBSET (Nat \X Ids),
           begun : SUBSET (Nat \X Ids)]

NoReplay == [pc |-> "idle", listed |-> {}, left |-> {}, seen |-> {}, again |-> {},
             begun |-> {}]

\* The reader takes the rows of one store (one SELECT ... ORDER BY sequence).
Yield(rows) ==
    [reader EXCEPT !.seen  = @ \cup Keys(rows),
                   !.again = @ \cup (Keys(rows) \cap reader.seen)]

\* listArchivePartitions: one SELECT.
ReplayList ==
    /\ reader.pc # "reading"
    /\ reader' = [NoReplay EXCEPT !.pc = "reading", !.listed = partitions,
                                  !.left = partitions, !.begun = accepted]
    /\ UNCHANGED vars

\* ORDER BY min_sequence ASC.
IsNextPartition(part) ==
    \A other \in reader.left :
        \E r \in part.hash : \A s \in other.hash : r.seq <= s.seq

\* openColdStore and the cold store's replay.
ReplayCold(part) ==
    /\ reader.pc = "reading"
    /\ part \in reader.left
    /\ IsNextPartition(part)
    /\ part.path \in onDisk
    /\ reader' = [Yield(files[part.path]) EXCEPT !.left = @ \ {part}]
    /\ UNCHANGED vars

\* openColdStore of a file that is gone: the read-only open throws, and so does
\* the replay.
ReplayThrows(part) ==
    /\ reader.pc = "reading"
    /\ part \in reader.left
    /\ IsNextPartition(part)
    /\ part.path \notin onDisk
    /\ reader' = NoReplay
    /\ UNCHANGED vars

\* Mutant of HotRows: only the rows after the last archived one, as if archive
\* files ended where the hot table begins.
HotRowsAfterArchives ==
    {r \in hot : \A part \in reader.listed : \A s \in part.hash : s.seq < r.seq}

\* hotStore.replay: no filter.
HotRows == hot

\* The hot store comes last; then the generator is done.
ReplayHot ==
    /\ reader.pc = "reading"
    /\ reader.left = {}
    /\ reader' = [Yield(HotRows) EXCEPT !.pc = "done"]
    /\ UNCHANGED vars

ReaderInit == Init /\ reader = NoReplay

ReaderNext ==
    \/ Next /\ UNCHANGED reader
    \/ ReplayList
    \/ \E part \in reader.left : ReplayCold(part) \/ ReplayThrows(part)
    \/ ReplayHot

ReaderSpec == ReaderInit /\ [][ReaderNext]_readerVars

-----------------------------------------------------------------------------
(***************************************************************************)
(* Properties.                                                             *)
(***************************************************************************)

\* The entries moved to an archive file that the replay does not know of.
Moved == UNION {Keys(files[part.path]) : part \in partitions \ reader.listed}

\* A replay yields no event twice: no two tiers it reads hold the same row,
\* whatever extractions of other processes commit between its reads, throw or die.
ReplayedOnce == reader.again = {}

\* A replay that ran to its end has yielded every event appended before it
\* began, except those that a call of another process moved to an archive file
\* after the partitions were listed; and it yields nothing that was not appended.
ReplayMissesOnlyMoved ==
    /\ reader.seen \subseteq accepted
    /\ reader.pc = "done" => reader.begun \subseteq reader.seen \cup Moved

-----------------------------------------------------------------------------
(***************************************************************************)
(* The inductive invariants behind the two.                                *)
(***************************************************************************)

\* The registered partitions whose files the replay has not read.
Unread == partitions \ (reader.listed \ reader.left)

\* An entry is in a file, not read yet or not known to the replay, that no
\* throwing call can unlink any more.
InUnreadFile(e) ==
    \E part \in Unread : part.path \in SettledPaths /\ e \in Keys(files[part.path])

\* What the replay has not yielded is still ahead of it or has been moved; an
\* archive call about to delete rows from the hot table behind the reader's back
\* has copied them to a file that the reader has not passed by.
ReplayInv ==
    /\ reader \in Reader
    /\ reader.left \subseteq reader.listed /\ reader.listed \subseteq partitions
    /\ reader.seen \cup reader.begun \subseteq accepted
    /\ \A e \in reader.begun :
         \/ e \in reader.seen
         \/ reader.pc = "reading" /\ e \in Keys(hot)
         \/ InUnreadFile(e)
    /\ reader.pc = "done" => reader.left = {}
    /\ reader.pc = "reading" =>
         \A p \in Procs, part \in reader.listed \ reader.left :
             job[p].pc = "registered" /\ job[p].path = part.path =>
                 Keys(job[p].rows) \subseteq reader.seen

\* Where nothing archives, what the replay has yielded came from the files that it
\* has read; none of it is in a tier still to come.
YieldInv ==
    /\ ReplayedOnce
    /\ reader.listed \subseteq partitions
    /\ reader.pc = "reading" =>
         \A e \in reader.seen :
             \E part \in reader.listed \ reader.left : e \in Keys(files[part.path])
=============================================================================

---------------------------- MODULE PostgresSync ----------------------------
(***************************************************************************)
(* The two-way sync of postgres-sync.ts between the SQLite store of each   *)
(* host and one Postgres table.  A sync reads the host's events, reads the *)
(* cloud's, inserts in the cloud what it found missing there (one          *)
(* statement per event) and then at the host what it found missing here    *)
(* (one transaction).  Syncs of several hosts, and several syncs of one    *)
(* host, overlap; hosts go on appending and archiving meanwhile.           *)
(*                                                                         *)
(* An event is its id.  Its row has a sequence of its own in each store.   *)
(***************************************************************************)
EXTENDS Integers, FiniteSets

CONSTANTS
    Hosts,          \* the machines with a local store
    Syncs,          \* event-store:sync processes
    HostOf,         \* the host each of them runs on
    Ids,            \* event ids
    MaxSeq,         \* bound on archiving: no archive run beyond this sequence;
                    \* 0 for hosts that never archive
    MaxFaults       \* bound on syncs that throw or die

ASSUME SyncAssumption ==
    /\ HostOf \in [Syncs -> Hosts]
    /\ MaxSeq \in Nat
    /\ MaxFaults \in Nat

VARIABLES
    hot,            \* per host: rows of the hot `events` table
    cold,           \* per host: ids in its archive partitions
    last,           \* per host: last sequence handed out
    cloud,          \* rows of the Postgres `events` table
    lastCloud,      \* last sequence handed out in Postgres
    sync,           \* per sync: its program counter and locals
    before,         \* history: <<a, b>> when a was known where b was appended
    faults          \* history: syncs that threw or died

vars == <<hot, cold, last, cloud, lastCloud, sync, before, faults>>

Row == [seq : Nat \ {0}, id : Ids]

Sync == [pc : {"idle", "local", "push"}, local : SUBSET Row, push : SUBSET Row,
         pull : SUBSET Row]

Idle == [pc |-> "idle", local |-> {}, push |-> {}, pull |-> {}]

IdsOf(rows)   == {r.id : r \in rows}
Known(h)      == IdsOf(hot[h]) \cup cold[h]
Appended      == UNION {Known(h) : h \in Hosts}

-----------------------------------------------------------------------------
\* append at a host: a fresh uuid.
AppendEvent(h, id) ==
    /\ id \notin Appended
    /\ hot' = [hot EXCEPT ![h] = @ \cup {[seq |-> last[h] + 1, id |-> id]}]
    /\ last' = [last EXCEPT ![h] = @ + 1]
    /\ before' = before \cup {<<a, id>> : a \in Known(h)}
    /\ UNCHANGED <<cold, cloud, lastCloud, sync, faults>>

\* archiveEventsOlderThan at a host: the rows up to a cutoff leave the hot table.
Archive(h, cutoff) ==
    LET rows == {r \in hot[h] : r.seq <= cutoff} IN
    /\ last[h] <= MaxSeq
    /\ rows # {}
    /\ hot' = [hot EXCEPT ![h] = @ \ rows]
    /\ cold' = [cold EXCEPT ![h] = @ \cup IdsOf(rows)]
    /\ UNCHANGED <<last, cloud, lastCloud, sync, before, faults>>

-----------------------------------------------------------------------------
(***************************************************************************)
(* runSync.                                                                *)
(***************************************************************************)

\* SELECT the host's events.
ReadLocal(s) ==
    /\ sync[s].pc = "idle"
    /\ sync' = [sync EXCEPT ![s] = [Idle EXCEPT !.pc = "local", !.local = hot[HostOf[s]]]]
    /\ UNCHANGED <<hot, cold, last, cloud, lastCloud, before, faults>>

\* Mutant of ReadCloud: with nothing to push the stores are taken to agree.
ReadCloudPushOnly(s) ==
    LET push == {r \in sync[s].local : r.id \notin IdsOf(cloud)} IN
    /\ sync[s].pc = "local"
    /\ sync' = [sync EXCEPT ![s] =
         [pc |-> "push", local |-> {}, push |-> push,
          pull |-> IF push = {} THEN {}
                   ELSE {r \in cloud : r.id \notin IdsOf(sync[s].local)}]]
    /\ UNCHANGED <<hot, cold, last, cloud, lastCloud, before, faults>>

\* SELECT the cloud's events, and compare by event id.
ReadCloud(s) ==
    LET local == sync[s].local IN
    /\ sync[s].pc = "local"
    /\ sync' = [sync EXCEPT ![s] = [pc    |-> "push",
                                    local |-> {},
                                    push  |-> {r \in local : r.id \notin IdsOf(cloud)},
                                    pull  |-> {r \in cloud : r.id \notin IdsOf(local)}]]
    /\ UNCHANGED <<hot, cold, last, cloud, lastCloud, before, faults>>

\* Mutant of IsNextPush: the query has no ORDER BY.
IsNextPushUnordered(s, r) == r \in sync[s].push

\* The events are pushed in the order of their local sequence.
IsNextPush(s, r) ==
    /\ r \in sync[s].push
    /\ \A other \in sync[s].push : r.seq <= other.seq

\* INSERT ... ON CONFLICT (event_id) DO NOTHING; a conflict still uses up a number.
PushEvent(s, r) ==
    /\ sync[s].pc = "push"
    /\ IsNextPush(s, r)
    /\ cloud' = IF r.id \in IdsOf(cloud) THEN cloud
                ELSE cloud \cup {[seq |-> lastCloud + 1, id |-> r.id]}
    /\ lastCloud' = lastCloud + 1
    /\ sync' = [sync EXCEPT ![s].push = @ \ {r}]
    /\ UNCHANGED <<hot, cold, last, before, faults>>

\* Mutant of PullPosition: counted from 0.
PullPositionFromZero(rows, r) == Cardinality({other \in rows : other.seq < r.seq})

\* Mutant of PullPosition: the newest event first.
PullPositionBackwards(rows, r) == Cardinality({other \in rows : other.seq >= r.seq})

\* Position, counted from 1, of row r among the rows to pull.
PullPosition(rows, r) == Cardinality({other \in rows : other.seq <= r.seq})

\* INSERT OR IGNORE every missing event, in cloud order, in one transaction.
PulledRows(h, rows) ==
    {[seq |-> last[h] + PullPosition(rows, r), id |-> r.id] :
        r \in {row \in rows : row.id \notin IdsOf(hot[h])}}

\* The pull, and the end of the sync.
PullEvents(s) ==
    LET h    == HostOf[s]
        rows == sync[s].pull
    IN
    /\ sync[s].pc = "push"
    /\ sync[s].push = {}
    /\ hot' = [hot EXCEPT ![h] = @ \cup PulledRows(h, rows)]
    /\ last' = [last EXCEPT ![h] = @ + Cardinality(rows)]
    /\ sync' = [sync EXCEPT ![s] = Idle]
    /\ UNCHANGED <<cold, cloud, lastCloud, before, faults>>

\* A statement or the connection throws, or the process dies: what was inserted
\* stays, the pull transaction is not begun.
Abort(s) ==
    /\ sync[s].pc # "idle"
    /\ faults < MaxFaults
    /\ faults' = faults + 1
    /\ sync' = [sync EXCEPT ![s] = Idle]
    /\ UNCHANGED <<hot, cold, last, cloud, lastCloud, before>>

-----------------------------------------------------------------------------
Init ==
    /\ hot = [h \in Hosts |-> {}]
    /\ cold = [h \in Hosts |-> {}]
    /\ last = [h \in Hosts |-> 0]
    /\ cloud = {}
    /\ lastCloud = 0
    /\ sync = [s \in Syncs |-> Idle]
    /\ before = {}
    /\ faults = 0

Step(s) ==
    \/ ReadLocal(s)
    \/ ReadCloud(s)
    \/ \E r \in sync[s].push : PushEvent(s, r)
    \/ PullEvents(s)

Next ==
    \/ \E h \in Hosts, id \in Ids : AppendEvent(h, id)
    \/ \E h \in Hosts : \E cutoff \in 1..last[h] : Archive(h, cutoff)
    \/ \E s \in Syncs : Step(s) \/ Abort(s)

Spec == Init /\ [][Next]_vars

\* event-store:sync is run again and again (before and after each workflow run).
FairSpec == Spec /\ \A s \in Syncs : WF_vars(Step(s))

-----------------------------------------------------------------------------
(***************************************************************************)
(* Properties.                                                             *)
(***************************************************************************)

\* Types: in particular every row has a positive sequence.
TypeOK ==
    /\ hot \in [Hosts -> SUBSET Row]
    /\ cold \in [Hosts -> SUBSET Ids]
    /\ last \in [Hosts -> Nat]
    /\ cloud \subseteq Row
    /\ lastCloud \in Nat
    /\ sync \in [Syncs -> Sync]
    /\ before \subseteq (Ids \X Ids)
    /\ faults \in 0..MaxFaults

\* In this table, every event comes after those known where it was appended.
InCausalOrder(rows) ==
    \A r \in rows, pair \in before :
        pair[2] = r.id => \E q \in rows : q.id = pair[1] /\ q.seq < r.seq

\* Replay at any host, or of the cloud table, meets no event before the events its
\* author had seen: though each store numbers the events for itself, and syncs are
\* cut short or overlap, neither a push nor a pull lets an event overtake a cause.
\* (Of hosts that do not archive.)
CausalOrder ==
    /\ InCausalOrder(cloud)
    /\ \A h \in Hosts : InCausalOrder(hot[h])

\* The cloud table holds no event before one that its author had seen, though hosts
\* archive events while they are being pushed, or before. (Of hosts that run one
\* sync at a time.)
CloudOrder ==
    \A q, r \in cloud : <<q.id, r.id>> \in before => q.seq < r.seq

\* A replay of all tiers of a host, the archived events before the hot rows, meets no
\* event before one that its author had seen: neither the pull, which numbers what
\* it brings anew and brings archived events back, nor the archiver, which cuts by
\* sequence, lets an event overtake a cause. (Of hosts that run one sync at a time;
\* of an event in both tiers, the archived one counts.)
HostOrder ==
    \A h \in Hosts : \A q \in hot[h] : q.id \notin cold[h] =>
        /\ \A r \in hot[h] : <<q.id, r.id>> \in before => q.seq < r.seq
        /\ \A id \in cold[h] : <<q.id, id>> \notin before

\* "INSERTs missing events in each direction": in the end every host knows every
\* event, syncs that throw and appends during a sync included.
EventuallyEverywhere ==
    \A id \in Ids, h \in Hosts : id \in Appended ~> id \in Known(h)

-----------------------------------------------------------------------------
(***************************************************************************)
(* The inductive invariants behind them.                                   *)
(***************************************************************************)

\* Sequences lie below the counters, the locals of a sync are of events its host and
\* the cloud have, and a cause is another event.
KnownInv ==
    /\ IsFiniteSet(cloud)
    /\ \A r \in cloud : r.seq <= lastCloud
    /\ \A h \in Hosts : \A r \in hot[h] : r.seq <= last[h]
    /\ IdsOf(cloud) \subseteq Appended
    /\ \A pair \in before : pair[1] \in Appended /\ pair[2] \in Appended /\ pair[1] # pair[2]
    /\ \A s \in Syncs :
         /\ IdsOf(sync[s].local) \cup IdsOf(sync[s].push) \subseteq Known(HostOf[s])
         /\ sync[s].pull \subseteq cloud
         /\ sync[s].pc # "local" => sync[s].local = {}
         /\ sync[s].pc # "push" => sync[s].push = {} /\ sync[s].pull = {}

SyncInv == TypeOK /\ KnownInv

\* In rows being pushed (pulled), an event comes after its causes, where these are not
\* at the destination yet.
InOrderFor(rows, there) ==
    \A r \in rows, pair \in before :
        pair[2] = r.id => \/ pair[1] \in there
                         \/ \E q \in rows : q.id = pair[1] /\ q.seq < r.seq

\* The locals of the syncs are in causal order. (Of hosts that do not archive.)
CausalInv ==
    /\ \A h \in Hosts : cold[h] = {}
    /\ CausalOrder
    /\ \A s \in Syncs :
         /\ sync[s].local \subseteq hot[HostOf[s]]
         /\ InCausalOrder(sync[s].local)
         /\ InOrderFor(sync[s].push, IdsOf(cloud))
         /\ InOrderFor(sync[s].pull, IdsOf(hot[HostOf[s]]))

\* An event that is not in the cloud is known at one host only, and its causes there.
OriginInv ==
    /\ \A h, g \in Hosts : \A id \in Known(h) \cap Known(g) : id \in IdsOf(cloud) \/ h = g
    /\ \A h \in Hosts, pair \in before :
         pair[2] \in Known(h) \ IdsOf(cloud) => pair[1] \in Known(h)

\* In these rows, an event comes after those of its causes that are not in the cloud.
PushOrder(rows) ==
    \A q, r \in rows : <<q.id, r.id>> \in before /\ q.id \notin IdsOf(cloud) => q.seq < r.seq

\* These rows, taken at the host, have all causes that the host holds hot and the
\* cloud lacks.
PushComplete(rows, h) ==
    \A pair \in before :
        /\ pair[2] \in IdsOf(rows)
        /\ pair[1] \in IdsOf(hot[h]) \ IdsOf(cloud)
        => pair[1] \in IdsOf(rows)

\* An event that the cloud lacks, though it has one that follows from it, will not
\* come any more: no hot table and no sync holds it. (Of one sync per host at a time.)
OrderInv ==
    /\ CloudOrder
    /\ \A h \in Hosts : PushOrder(hot[h])
    /\ \A s \in Syncs : \A rows \in {sync[s].local, sync[s].push} :
         PushOrder(rows) /\ PushComplete(rows, HostOf[s])
    /\ \A pair \in before : pair[2] \in IdsOf(cloud) /\ pair[1] \notin IdsOf(cloud) =>
         /\ \A h \in Hosts : pair[1] \notin IdsOf(hot[h])
         /\ \A s \in Syncs : pair[1] \notin IdsOf(sync[s].local) \cup IdsOf(sync[s].push)

\* Where an event is known, or will be pulled to, those of its causes that the cloud
\* has are known or will be pulled too. (Of one sync per host at a time.)
ClosedInv ==
    /\ \A h \in Hosts, pair \in before :
         pair[2] \in Known(h) /\ pair[1] \in IdsOf(cloud) => pair[1] \in Known(h)
    /\ \A s \in Syncs, pair \in before :
         pair[2] \in IdsOf(sync[s].pull) /\ pair[1] \in IdsOf(cloud) =>
             pair[1] \in IdsOf(sync[s].pull) \cup Known(HostOf[s])
=============================================================================

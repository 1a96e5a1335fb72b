-------------------------- MODULE PostgresSyncProofs --------------------------
(***************************************************************************)
(* Proofs about PostgresSync, for any number of hosts, syncs, events,      *)
(* archive runs and faults: types; the causal order of every table, of     *)
(* hosts that do not archive; the order of the cloud table, of hosts that  *)
(* archive but run one sync at a time.                                     *)
(***************************************************************************)
EXTENDS PostgresSync, TLAPS, FiniteSetTheorems

(***************************************************************************)
(* Pulled rows.                                                            *)
(***************************************************************************)

\* Positions are counted from 1 and follow the sequences of the cloud.
LEMMA PullPositionFacts ==
    ASSUME NEW rows, IsFiniteSet(rows), rows \subseteq Row
    PROVE  /\ Cardinality(rows) \in Nat
           /\ \A r \in rows : PullPosition(rows, r) \in Nat \ {0}
           /\ \A r \in rows : PullPosition(rows, r) <= Cardinality(rows)
           /\ \A q, r \in rows : q.seq < r.seq => PullPosition(rows, q) < PullPosition(rows, r)
<1> DEFINE upto(r) == {other \in rows : other.seq <= r.seq}
<1>1. \A r \in rows : r.seq \in Nat
  BY DEF Row
<1>2. ASSUME NEW r \in rows
      PROVE  /\ IsFiniteSet(upto(r)) /\ Cardinality(upto(r)) \in Nat
             /\ Cardinality(upto(r)) <= Cardinality(rows) /\ r \in upto(r)
  BY <1>1, FS_Subset, FS_CardinalityType
<1>3. ASSUME NEW r \in rows
      PROVE  Cardinality(upto(r)) # 0
  BY <1>2, FS_EmptySet
<1>4. ASSUME NEW q \in rows, NEW r \in rows, q.seq < r.seq
      PROVE  Cardinality(upto(q)) < Cardinality(upto(r))
  <2>1. upto(q) \in SUBSET upto(r) /\ upto(q) # upto(r)
    BY <1>1, <1>2, <1>4
  <2>2. /\ Cardinality(upto(q)) <= Cardinality(upto(r))
        /\ Cardinality(upto(q)) # Cardinality(upto(r))
    <3>1. ASSUME NEW R, IsFiniteSet(R), NEW Q \in SUBSET R, Q # R
          PROVE  Cardinality(Q) <= Cardinality(R) /\ Cardinality(Q) # Cardinality(R)
      BY <3>1, FS_Subset
    <3>2. IsFiniteSet(upto(r))
      BY <1>2
    <3>3. QED
      BY <2>1, <3>1, <3>2, Zenon
  <2>3. Cardinality(upto(q)) \in Nat /\ Cardinality(upto(r)) \in Nat
    BY <1>2
  <2> HIDE DEF upto
  <2>4. QED
    BY <2>2, <2>3
<1>5. Cardinality(rows) \in Nat
  BY FS_CardinalityType
<1>6. QED
  BY <1>2, <1>3, <1>4, <1>5 DEF PullPosition

(***************************************************************************)
(* What the steps do.                                                      *)
(***************************************************************************)

LEMMA TypeFacts ==
    ASSUME SyncInv
    PROVE  /\ \A h \in Hosts : hot[h] \subseteq Row /\ cold[h] \subseteq Ids /\ last[h] \in Nat
           /\ \A h \in Hosts : \A r \in hot[h] : r.seq \in Nat \ {0} /\ r.id \in Ids /\ r.seq <= last[h]
           /\ cloud \subseteq Row /\ lastCloud \in Nat /\ sync \in [Syncs -> Sync]
           /\ \A r \in cloud : r.seq \in Nat \ {0} /\ r.id \in Ids /\ r.seq <= lastCloud
           /\ \A s \in Syncs : /\ HostOf[s] \in Hosts /\ sync[s] \in Sync
                              /\ sync[s].local \subseteq Row /\ sync[s].push \subseteq Row
                              /\ sync[s].pull \subseteq Row
           /\ \A h \in Hosts : Known(h) \subseteq Ids
BY SyncAssumption DEF SyncInv, TypeOK, KnownInv, Row, Sync, Known, IdsOf

LEMMA SyncBecomes ==
    ASSUME sync \in [Syncs -> Sync], NEW s \in Syncs, NEW next \in Sync,
           sync' = [sync EXCEPT ![s] = next]
    PROVE  /\ sync' \in [Syncs -> Sync] /\ sync'[s] = next
           /\ \A other \in Syncs \ {s} : sync'[other] = sync[other]
OBVIOUS

LEMMA IdleFacts ==
    /\ Idle \in Sync /\ Idle.pc = "idle" /\ Idle.local = {} /\ Idle.push = {} /\ Idle.pull = {}
BY DEF Idle, Sync

LEMMA AppendFacts ==
    ASSUME SyncInv, NEW h \in Hosts, NEW id \in Ids, AppendEvent(h, id)
    PROVE  /\ hot' \in [Hosts -> SUBSET Row] /\ last' \in [Hosts -> Nat]
           /\ hot'[h] = hot[h] \cup {[seq |-> last[h] + 1, id |-> id]}
           /\ last'[h] = last[h] + 1
           /\ \A g \in Hosts \ {h} : hot'[g] = hot[g] /\ last'[g] = last[g]
           /\ before' = before \cup {<<a, id>> : a \in Known(h)}
           /\ UNCHANGED <<cold, cloud, lastCloud, sync, faults>>
           /\ id \notin Appended /\ Appended' = Appended \cup {id}
           /\ Known(h)' = Known(h) \cup {id}
           /\ \A g \in Hosts \ {h} : Known(g)' = Known(g)
           /\ IdsOf(hot'[h]) = IdsOf(hot[h]) \cup {id}
<1> DEFINE new == [seq |-> last[h] + 1, id |-> id]
<1>1. /\ hot \in [Hosts -> SUBSET Row] /\ last \in [Hosts -> Nat]
  BY DEF SyncInv, TypeOK
<1>2. /\ hot' = [hot EXCEPT ![h] = hot[h] \cup {new}]
      /\ last' = [last EXCEPT ![h] = last[h] + 1]
      /\ before' = before \cup {<<a, id>> : a \in Known(h)}
      /\ UNCHANGED <<cold, cloud, lastCloud, sync, faults>>
      /\ id \notin Appended
  BY DEF AppendEvent
<1>3. new \in Row /\ new.id = id
  BY <1>1 DEF Row
<1> HIDE DEF new
<1>4. /\ hot' \in [Hosts -> SUBSET Row] /\ hot'[h] = hot[h] \cup {new}
      /\ \A g \in Hosts \ {h} : hot'[g] = hot[g]
  BY <1>1, <1>2, <1>3
<1>5. /\ last' \in [Hosts -> Nat] /\ last'[h] = last[h] + 1
      /\ \A g \in Hosts \ {h} : last'[g] = last[g]
  BY <1>1, <1>2
<1>6. IdsOf(hot'[h]) = IdsOf(hot[h]) \cup {id}
  BY <1>3, <1>4 DEF IdsOf
<1>7. Known(h)' = Known(h) \cup {id} /\ \A g \in Hosts \ {h} : Known(g)' = Known(g)
  BY <1>2, <1>4, <1>6 DEF Known
<1>8. Appended' = Appended \cup {id}
  BY <1>7 DEF Appended
<1>9. QED
  BY <1>2, <1>4, <1>5, <1>6, <1>7, <1>8 DEF new

LEMMA ArchiveFacts ==
    ASSUME SyncInv, NEW h \in Hosts, NEW cutoff, Archive(h, cutoff)
    PROVE  /\ hot' \in [Hosts -> SUBSET Row] /\ cold' \in [Hosts -> SUBSET Ids]
           /\ \A g \in Hosts : hot'[g] \subseteq hot[g] /\ IdsOf(hot'[g]) \subseteq IdsOf(hot[g])
           /\ \A g \in Hosts : Known(g)' = Known(g)
           /\ Appended' = Appended
           /\ UNCHANGED <<last, cloud, lastCloud, sync, before, faults>>
<1> DEFINE rows == {r \in hot[h] : r.seq <= cutoff}
<1>1. /\ hot' = [hot EXCEPT ![h] = hot[h] \ rows]
      /\ cold' = [cold EXCEPT ![h] = cold[h] \cup IdsOf(rows)]
      /\ UNCHANGED <<last, cloud, lastCloud, sync, before, faults>>
  BY DEF Archive
<1>2. hot \in [Hosts -> SUBSET Row] /\ cold \in [Hosts -> SUBSET Ids]
  BY DEF SyncInv, TypeOK
<1>3. rows \subseteq hot[h]
  OBVIOUS
<1> HIDE DEF rows
<1>4. IdsOf(rows) \subseteq IdsOf(hot[h]) /\ IdsOf(rows) \subseteq Ids
  BY <1>2, <1>3 DEF IdsOf, Row
<1>5. /\ hot' \in [Hosts -> SUBSET Row] /\ hot'[h] = hot[h] \ rows
      /\ \A g \in Hosts \ {h} : hot'[g] = hot[g]
      /\ cold' \in [Hosts -> SUBSET Ids] /\ cold'[h] = cold[h] \cup IdsOf(rows)
      /\ \A g \in Hosts \ {h} : cold'[g] = cold[g]
  BY <1>1, <1>2, <1>4
<1>6. IdsOf(hot[h]) = IdsOf(hot'[h]) \cup IdsOf(rows)
  BY <1>3, <1>5 DEF IdsOf
<1>7. \A g \in Hosts : Known(g)' = Known(g)
  BY <1>5, <1>6 DEF Known
<1>8. QED
  BY <1>1, <1>5, <1>6, <1>7 DEF Appended

LEMMA ReadLocalFacts ==
    ASSUME SyncInv, NEW s \in Syncs, ReadLocal(s)
    PROVE  /\ sync' \in [Syncs -> Sync]
           /\ \A other \in Syncs \ {s} : sync'[other] = sync[other]
           /\ sync'[s].pc = "local" /\ sync'[s].local = hot[HostOf[s]]
           /\ sync'[s].push = {} /\ sync'[s].pull = {}
           /\ UNCHANGED <<hot, cold, last, cloud, lastCloud, before, faults>>
<1> DEFINE next == [Idle EXCEPT !.pc = "local", !.local = hot[HostOf[s]]]
<1>1. sync' = [sync EXCEPT ![s] = next]
      /\ UNCHANGED <<hot, cold, last, cloud, lastCloud, before, faults>>
  BY DEF ReadLocal
<1>2. /\ next \in Sync /\ next.pc = "local" /\ next.local = hot[HostOf[s]]
      /\ next.push = {} /\ next.pull = {}
  BY TypeFacts DEF Idle, Sync
<1> HIDE DEF next
<1>3. QED
  BY <1>1, <1>2, TypeFacts, SyncBecomes

LEMMA ReadCloudFacts ==
    ASSUME SyncInv, NEW s \in Syncs, ReadCloud(s)
    PROVE  /\ sync' \in [Syncs -> Sync]
           /\ \A other \in Syncs \ {s} : sync'[other] = sync[other]
           /\ sync'[s].pc = "push" /\ sync'[s].local = {}
           /\ sync'[s].push = {r \in sync[s].local : r.id \notin IdsOf(cloud)}
           /\ sync'[s].pull = {r \in cloud : r.id \notin IdsOf(sync[s].local)}
           /\ UNCHANGED <<hot, cold, last, cloud, lastCloud, before, faults>>
<1> DEFINE push == {r \in sync[s].local : r.id \notin IdsOf(cloud)}
           pull == {r \in cloud : r.id \notin IdsOf(sync[s].local)}
           next == [pc |-> "push", local |-> {}, push |-> push, pull |-> pull]
<1>1. sync' = [sync EXCEPT ![s] = next]
      /\ UNCHANGED <<hot, cold, last, cloud, lastCloud, before, faults>>
  BY DEF ReadCloud
<1>2. push \subseteq Row /\ pull \subseteq Row
  BY TypeFacts
<1> HIDE DEF push, pull
<1>3. /\ next \in Sync /\ next.pc = "push" /\ next.local = {}
      /\ next.push = push /\ next.pull = pull
  BY <1>2 DEF Sync
<1> HIDE DEF next
<1>4. QED
  BY <1>1, <1>3, TypeFacts, SyncBecomes DEF push, pull

LEMMA PushFacts ==
    ASSUME SyncInv, NEW s \in Syncs, NEW r \in sync[s].push, PushEvent(s, r)
    PROVE  /\ sync' \in [Syncs -> Sync]
           /\ \A other \in Syncs \ {s} : sync'[other] = sync[other]
           /\ sync[s].pc = "push" /\ sync'[s].pc = "push"
           /\ sync'[s].local = sync[s].local /\ sync'[s].pull = sync[s].pull
           /\ sync'[s].push = sync[s].push \ {r}
           /\ lastCloud' = lastCloud + 1
           /\ \/ r.id \in IdsOf(cloud) /\ cloud' = cloud
              \/ r.id \notin IdsOf(cloud) /\ cloud' = cloud \cup {[seq |-> lastCloud + 1, id |-> r.id]}
           /\ IdsOf(cloud') = IdsOf(cloud) \cup {r.id}
           /\ \A other \in sync[s].push : r.seq <= other.seq
           /\ r \in Row /\ r.id \in Known(HostOf[s])
           /\ UNCHANGED <<hot, cold, last, before, faults>>
<1> DEFINE push == sync[s].push \ {r}
           new  == [seq |-> lastCloud + 1, id |-> r.id]
<1>1. /\ sync' = [sync EXCEPT ![s].push = push] /\ sync[s].pc = "push"
      /\ lastCloud' = lastCloud + 1
      /\ UNCHANGED <<hot, cold, last, before, faults>>
      /\ \A other \in sync[s].push : r.seq <= other.seq
  BY DEF PushEvent, IsNextPush
<1>2. /\ sync \in [Syncs -> Sync] /\ push \subseteq Row /\ r \in Row
  BY TypeFacts
<1>3. r.id \in Known(HostOf[s])
  BY DEF SyncInv, KnownInv, IdsOf
<1>4. \/ r.id \in IdsOf(cloud) /\ cloud' = cloud
      \/ r.id \notin IdsOf(cloud) /\ cloud' = cloud \cup {new}
  BY DEF PushEvent
<1>5. new.id = r.id
  OBVIOUS
<1> HIDE DEF push
<1>6. /\ sync' \in [Syncs -> Sync]
      /\ \A other \in Syncs \ {s} : sync'[other] = sync[other]
      /\ sync'[s].pc = sync[s].pc
      /\ sync'[s].local = sync[s].local /\ sync'[s].pull = sync[s].pull
      /\ sync'[s].push = push
  BY <1>1, <1>2 DEF Sync
<1> HIDE DEF new
<1>7. IdsOf(cloud') = IdsOf(cloud) \cup {r.id}
  BY <1>4, <1>5 DEF IdsOf
<1>8. QED
  BY <1>1, <1>2, <1>3, <1>4, <1>6, <1>7 DEF push, new

LEMMA AbortFacts ==
    ASSUME SyncInv, NEW s \in Syncs, Abort(s)
    PROVE  /\ sync' \in [Syncs -> Sync]
           /\ \A other \in Syncs \ {s} : sync'[other] = sync[other]
           /\ sync'[s] = Idle
           /\ faults' \in 0..MaxFaults
           /\ UNCHANGED <<hot, cold, last, cloud, lastCloud, before>>
<1>1. /\ sync' = [sync EXCEPT ![s] = Idle] /\ faults' = faults + 1 /\ faults < MaxFaults
      /\ UNCHANGED <<hot, cold, last, cloud, lastCloud, before>>
  BY DEF Abort
<1>2. faults' \in 0..MaxFaults
  BY <1>1, SyncAssumption DEF SyncInv, TypeOK
<1>3. QED
  BY <1>1, <1>2, TypeFacts, IdleFacts, SyncBecomes

LEMMA PullFacts ==
    ASSUME SyncInv, NEW s \in Syncs, PullEvents(s)
    PROVE  LET h == HostOf[s]
               rows == sync[s].pull
           IN
           /\ sync' \in [Syncs -> Sync]
           /\ \A other \in Syncs \ {s} : sync'[other] = sync[other]
           /\ sync'[s] = Idle
           /\ hot' \in [Hosts -> SUBSET Row] /\ last' \in [Hosts -> Nat]
           /\ hot'[h] = hot[h] \cup PulledRows(h, rows) /\ last[h] <= last'[h]
           /\ \A g \in Hosts \ {h} : hot'[g] = hot[g] /\ last'[g] = last[g]
           /\ \A n \in PulledRows(h, rows) :
                /\ n \in Row /\ last[h] < n.seq /\ n.seq <= last'[h]
                /\ n.id \in IdsOf(cloud) /\ n.id \notin IdsOf(hot[h])
                /\ \E r \in rows : r.id = n.id /\ n.seq = last[h] + PullPosition(rows, r)
           /\ \A r \in rows : r.id \in IdsOf(hot[h]) \/
                [seq |-> last[h] + PullPosition(rows, r), id |-> r.id] \in PulledRows(h, rows)
           /\ \A g \in Hosts : IdsOf(hot[g]) \subseteq IdsOf(hot'[g])
                               /\ IdsOf(hot'[g]) \subseteq IdsOf(hot[g]) \cup IdsOf(cloud)
           /\ UNCHANGED <<cold, cloud, lastCloud, before, faults>>
<1> DEFINE h == HostOf[s]
           rows == sync[s].pull
           new == PulledRows(h, rows)
<1>1. /\ h \in Hosts /\ rows \subseteq Row /\ rows \subseteq cloud /\ IsFiniteSet(rows)
      /\ last \in [Hosts -> Nat] /\ hot \in [Hosts -> SUBSET Row] /\ last[h] \in Nat
  BY TypeFacts, FS_Subset DEF SyncInv, KnownInv, TypeOK
<1>2. /\ hot' = [hot EXCEPT ![h] = hot[h] \cup new]
      /\ last' = [last EXCEPT ![h] = last[h] + Cardinality(rows)]
      /\ sync' = [sync EXCEPT ![s] = Idle]
      /\ UNCHANGED <<cold, cloud, lastCloud, before, faults>>
  BY DEF PullEvents
<1>3. /\ sync' \in [Syncs -> Sync] /\ sync'[s] = Idle
      /\ \A other \in Syncs \ {s} : sync'[other] = sync[other]
  BY <1>2, TypeFacts, IdleFacts, SyncBecomes
<1> HIDE DEF h, rows
<1>4. /\ Cardinality(rows) \in Nat
      /\ \A r \in rows : PullPosition(rows, r) \in Nat \ {0}
      /\ \A r \in rows : PullPosition(rows, r) <= Cardinality(rows)
  BY <1>1, PullPositionFacts
<1>5. /\ last' \in [Hosts -> Nat] /\ last'[h] = last[h] + Cardinality(rows)
      /\ \A g \in Hosts \ {h} : last'[g] = last[g]
  BY <1>1, <1>2, <1>4
<1>6. ASSUME NEW n \in new
      PROVE  /\ n \in Row /\ last[h] < n.seq /\ n.seq <= last'[h]
             /\ n.id \in IdsOf(cloud) /\ n.id \notin IdsOf(hot[h])
             /\ \E r \in rows : r.id = n.id /\ n.seq = last[h] + PullPosition(rows, r)
  <2>1. PICK r \in rows : /\ r.id \notin IdsOf(hot[h])
                          /\ n = [seq |-> last[h] + PullPosition(rows, r), id |-> r.id]
    BY DEF PulledRows
  <2>2. r.id \in Ids /\ r.id \in IdsOf(cloud)
    BY <1>1 DEF Row, IdsOf
  <2>3. /\ n.id = r.id /\ n.seq = last[h] + PullPosition(rows, r)
    BY <2>1
  <2>4. n.seq \in Nat \ {0} /\ last[h] < n.seq /\ n.seq <= last'[h]
    BY <1>1, <1>4, <1>5, <2>3
  <2>5. n \in Row
    BY <2>1, <2>2, <2>3, <2>4 DEF Row
  <2>6. QED
    BY <2>1, <2>2, <2>3, <2>4, <2>5
<1>7. ASSUME NEW r \in rows, r.id \notin IdsOf(hot[h])
      PROVE  [seq |-> last[h] + PullPosition(rows, r), id |-> r.id] \in new
  BY <1>7 DEF PulledRows
<1>8. last[h] <= last'[h]
  BY <1>1, <1>4, <1>5
<1> HIDE DEF new
<1>9. new \subseteq Row
  BY <1>6
<1>10. /\ hot' \in [Hosts -> SUBSET Row] /\ hot'[h] = hot[h] \cup new
       /\ \A g \in Hosts \ {h} : hot'[g] = hot[g]
  BY <1>1, <1>2, <1>9
<1>11. \A g \in Hosts : IdsOf(hot[g]) \subseteq IdsOf(hot'[g])
                       /\ IdsOf(hot'[g]) \subseteq IdsOf(hot[g]) \cup IdsOf(cloud)
  BY <1>6, <1>10 DEF IdsOf
<1>12. QED
  BY <1>2, <1>3, <1>5, <1>6, <1>7, <1>8, <1>10, <1>11 DEF new, h, rows

(***************************************************************************)
(* Types, and what is known where.                                         *)
(***************************************************************************)

\* A step of one sync that leaves the locals within what is known.
LEMMA KnownMoves ==
    ASSUME SyncInv, NEW s \in Syncs, sync' \in [Syncs -> Sync],
           \A other \in Syncs \ {s} : sync'[other] = sync[other],
           hot' \in [Hosts -> SUBSET Row], cold' \in [Hosts -> SUBSET Ids],
           last' \in [Hosts -> Nat], cloud' \subseteq Row, lastCloud' \in Nat,
           faults' \in 0..MaxFaults, UNCHANGED before,
           IsFiniteSet(cloud'), cloud \subseteq cloud',
           \A r \in cloud' : r.seq <= lastCloud',
           \A h \in Hosts : \A r \in hot'[h] : r.seq <= last'[h],
           \A h \in Hosts : Known(h) \subseteq Known(h)',
           IdsOf(cloud') \subseteq Appended,
           IdsOf(sync'[s].local) \cup IdsOf(sync'[s].push) \subseteq Known(HostOf[s]),
           sync'[s].pull \subseteq cloud',
           sync'[s].pc # "local" => sync'[s].local = {},
           sync'[s].pc # "push" => sync'[s].push = {} /\ sync'[s].pull = {}
    PROVE  SyncInv'
<1>1. TypeOK'
  BY DEF SyncInv, TypeOK
<1>2. Appended \subseteq Appended'
  BY DEF Appended
<1>3. ASSUME NEW other \in Syncs
      PROVE  /\ IdsOf(sync'[other].local) \cup IdsOf(sync'[other].push) \subseteq Known(HostOf[other])'
             /\ sync'[other].pull \subseteq cloud'
             /\ sync'[other].pc # "local" => sync'[other].local = {}
             /\ sync'[other].pc # "push" => sync'[other].push = {} /\ sync'[other].pull = {}
  <2>1. HostOf[other] \in Hosts
    BY TypeFacts
  <2>2. CASE other = s
    BY <2>1, <2>2
  <2>3. CASE other # s
    BY <2>1, <2>3 DEF SyncInv, KnownInv
  <2>4. QED
    BY <2>2, <2>3
<1>4. KnownInv'
  BY <1>2, <1>3 DEF SyncInv, KnownInv
<1>5. QED
  BY <1>1, <1>4 DEF SyncInv

LEMMA SyncStep == SyncInv /\ Next => SyncInv'
<1> SUFFICES ASSUME SyncInv, Next
             PROVE  SyncInv'
  OBVIOUS
<1>0. /\ TypeOK /\ KnownInv
  BY DEF SyncInv
<1>1. ASSUME NEW h \in Hosts, NEW id \in Ids, AppendEvent(h, id)
      PROVE  SyncInv'
  <2> DEFINE new == [seq |-> last[h] + 1, id |-> id]
  <2>1. /\ hot' \in [Hosts -> SUBSET Row] /\ last' \in [Hosts -> Nat]
        /\ hot'[h] = hot[h] \cup {new} /\ last'[h] = last[h] + 1
        /\ \A g \in Hosts \ {h} : hot'[g] = hot[g] /\ last'[g] = last[g]
        /\ before' = before \cup {<<a, id>> : a \in Known(h)}
        /\ UNCHANGED <<cold, cloud, lastCloud, sync, faults>>
        /\ id \notin Appended /\ Appended' = Appended \cup {id}
        /\ \A g \in Hosts : Known(g) \subseteq Known(g)'
    BY <1>1, AppendFacts
  <2>2. Known(h) \subseteq Ids /\ Known(h) \subseteq Appended
    BY TypeFacts DEF Appended
  <2>3. TypeOK'
    BY <1>0, <2>1, <2>2 DEF TypeOK
  <2>4. ASSUME NEW g \in Hosts, NEW r \in hot'[g]
        PROVE  r.seq <= last'[g]
    <3>1. /\ new.seq = last[h] + 1 /\ last[g] \in Nat /\ last[h] \in Nat
          /\ \A q \in hot[g] : q.seq \in Nat /\ q.seq <= last[g]
      BY TypeFacts
    <3> HIDE DEF new
    <3>2. QED
      BY <2>1, <3>1
  <2>5. ASSUME NEW pair \in before'
        PROVE  pair[1] \in Appended' /\ pair[2] \in Appended' /\ pair[1] # pair[2]
    <3>1. CASE pair \in before
      BY <1>0, <2>1, <3>1 DEF KnownInv
    <3>2. CASE \E a \in Known(h) : pair = <<a, id>>
      BY <2>1, <2>2, <3>2
    <3>3. QED
      BY <2>1, <3>1, <3>2
  <2>6. \A s \in Syncs : HostOf[s] \in Hosts
    BY TypeFacts
  <2>7. KnownInv'
    BY <1>0, <2>1, <2>4, <2>5, <2>6 DEF KnownInv
  <2>8. QED
    BY <2>3, <2>7 DEF SyncInv
<1>2. ASSUME NEW h \in Hosts, NEW cutoff, Archive(h, cutoff)
      PROVE  SyncInv'
  <2>1. /\ hot' \in [Hosts -> SUBSET Row] /\ cold' \in [Hosts -> SUBSET Ids]
        /\ \A g \in Hosts : hot'[g] \subseteq hot[g] /\ Known(g)' = Known(g)
        /\ Appended' = Appended
        /\ UNCHANGED <<last, cloud, lastCloud, sync, before, faults>>
    BY <1>2, ArchiveFacts
  <2>2. TypeOK'
    BY <1>0, <2>1 DEF TypeOK
  <2>3. \A s \in Syncs : HostOf[s] \in Hosts
    BY TypeFacts
  <2>4. KnownInv'
    BY <1>0, <2>1, <2>3 DEF KnownInv
  <2>5. QED
    BY <2>2, <2>4 DEF SyncInv
<1>3. ASSUME NEW s \in Syncs, sync' \in [Syncs -> Sync],
             \A other \in Syncs \ {s} : sync'[other] = sync[other],
             IdsOf(sync'[s].local) \cup IdsOf(sync'[s].push) \subseteq Known(HostOf[s]),
             sync'[s].pull \subseteq cloud,
             sync'[s].pc # "local" => sync'[s].local = {},
             sync'[s].pc # "push" => sync'[s].push = {} /\ sync'[s].pull = {},
             UNCHANGED <<hot, cold, last, cloud, lastCloud, before>>, faults' \in 0..MaxFaults
      PROVE  SyncInv'
  <2>1. \A h \in Hosts : Known(h)' = Known(h)
    BY <1>3 DEF Known
  <2>2. QED
    BY <1>0, <1>3, <2>1, KnownMoves DEF TypeOK, KnownInv
<1>4. ASSUME NEW s \in Syncs, ReadLocal(s)
      PROVE  SyncInv'
  <2>1. IdsOf(hot[HostOf[s]]) \subseteq Known(HostOf[s])
    BY DEF Known
  <2>2. IdsOf({}) = {}
    BY DEF IdsOf
  <2>3. QED
    BY <1>0, <1>3, <1>4, <2>1, <2>2, ReadLocalFacts DEF TypeOK
<1>5. ASSUME NEW s \in Syncs, ReadCloud(s)
      PROVE  SyncInv'
  <2>1. IdsOf({r \in sync[s].local : r.id \notin IdsOf(cloud)}) \subseteq Known(HostOf[s])
    BY <1>0 DEF KnownInv, IdsOf
  <2>2. IdsOf({}) = {}
    BY DEF IdsOf
  <2>3. QED
    BY <1>0, <1>3, <1>5, <2>1, <2>2, ReadCloudFacts DEF TypeOK
<1>6. ASSUME NEW s \in Syncs, Abort(s)
      PROVE  SyncInv'
  <2>1. IdsOf({}) = {}
    BY DEF IdsOf
  <2>2. QED
    BY <1>0, <1>3, <1>6, <2>1, AbortFacts, IdleFacts DEF TypeOK
<1>7. ASSUME NEW s \in Syncs, NEW r \in sync[s].push, PushEvent(s, r)
      PROVE  SyncInv'
  <2> DEFINE new == [seq |-> lastCloud + 1, id |-> r.id]
  <2>1. /\ sync' \in [Syncs -> Sync]
        /\ \A other \in Syncs \ {s} : sync'[other] = sync[other]
        /\ sync[s].pc = "push" /\ sync'[s].pc = "push"
        /\ sync'[s].local = sync[s].local /\ sync'[s].pull = sync[s].pull
        /\ sync'[s].push = sync[s].push \ {r}
        /\ lastCloud' = lastCloud + 1
        /\ cloud' = cloud \/ cloud' = cloud \cup {new}
        /\ IdsOf(cloud') = IdsOf(cloud) \cup {r.id}
        /\ r \in Row /\ r.id \in Known(HostOf[s])
        /\ UNCHANGED <<hot, cold, last, before, faults>>
    BY <1>7, PushFacts
  <2>2. /\ lastCloud \in Nat /\ cloud \subseteq Row /\ HostOf[s] \in Hosts
        /\ \A q \in cloud : q.seq \in Nat /\ q.seq <= lastCloud
    BY TypeFacts
  <2>3. new \in Row /\ new.seq = lastCloud + 1
    BY <2>1, <2>2 DEF Row
  <2> HIDE DEF new
  <2>4. /\ cloud' \subseteq Row /\ lastCloud' \in Nat /\ cloud \subseteq cloud'
        /\ \A q \in cloud' : q.seq <= lastCloud'
    BY <2>1, <2>2, <2>3
  <2>5. IsFiniteSet(cloud')
    BY <1>0, <2>1, FS_AddElement DEF KnownInv
  <2>6. IdsOf(cloud') \subseteq Appended
    BY <1>0, <2>1, <2>2 DEF KnownInv, Appended
  <2>7. IdsOf(sync'[s].push) \subseteq IdsOf(sync[s].push)
    BY <2>1 DEF IdsOf
  <2>8. \A h \in Hosts : Known(h)' = Known(h)
    BY <2>1 DEF Known
  <2>9. /\ IdsOf(sync'[s].local) \cup IdsOf(sync'[s].push) \subseteq Known(HostOf[s])
        /\ sync'[s].pull \subseteq cloud'
        /\ sync'[s].pc # "local" => sync'[s].local = {}
    BY <1>0, <2>1, <2>4, <2>7 DEF KnownInv
  <2>10. /\ hot' \in [Hosts -> SUBSET Row] /\ cold' \in [Hosts -> SUBSET Ids]
         /\ last' \in [Hosts -> Nat] /\ faults' \in 0..MaxFaults
         /\ \A h \in Hosts : \A q \in hot'[h] : q.seq <= last'[h]
    BY <1>0, <2>1 DEF TypeOK, KnownInv
  <2>11. QED
    BY <2>1, <2>4, <2>5, <2>6, <2>8, <2>9, <2>10, KnownMoves
<1>8. ASSUME NEW s \in Syncs, PullEvents(s)
      PROVE  SyncInv'
  <2> DEFINE h == HostOf[s]
             new == PulledRows(h, sync[s].pull)
  <2>1. /\ sync' \in [Syncs -> Sync] /\ sync'[s] = Idle
        /\ \A other \in Syncs \ {s} : sync'[other] = sync[other]
        /\ hot' \in [Hosts -> SUBSET Row] /\ last' \in [Hosts -> Nat]
        /\ hot'[h] = hot[h] \cup new /\ last[h] <= last'[h]
        /\ \A g \in Hosts \ {h} : hot'[g] = hot[g] /\ last'[g] = last[g]
        /\ \A n \in new : n.seq <= last'[h]
        /\ \A g \in Hosts : IdsOf(hot[g]) \subseteq IdsOf(hot'[g])
        /\ UNCHANGED <<cold, cloud, lastCloud, before, faults>>
    BY <1>8, PullFacts
  <2>2. ASSUME NEW g \in Hosts, NEW r \in hot'[g]
        PROVE  r.seq <= last'[g]
    <3>1. /\ last[g] \in Nat /\ last'[g] \in Nat
          /\ \A q \in hot[g] : q.seq \in Nat /\ q.seq <= last[g]
      BY <2>1, TypeFacts
    <3> HIDE DEF new, h
    <3>2. CASE g = h /\ r \in hot[g]
      <4>1. last[g] <= last'[g]
        BY <2>1, <3>2
      <4>2. QED
        BY <3>1, <3>2, <4>1
    <3>3. CASE g = h /\ r \notin hot[g]
      BY <2>1, <3>3
    <3>4. CASE g # h
      BY <2>1, <3>1, <3>4
    <3>5. QED
      BY <3>2, <3>3, <3>4
  <2>3. \A g \in Hosts : Known(g) \subseteq Known(g)'
    BY <2>1 DEF Known
  <2>4. IdsOf({}) = {}
    BY DEF IdsOf
  <2>5. /\ IdsOf(sync'[s].local) \cup IdsOf(sync'[s].push) \subseteq Known(HostOf[s])
        /\ sync'[s].pull \subseteq cloud'
        /\ sync'[s].pc # "local" => sync'[s].local = {}
        /\ sync'[s].pc # "push" => sync'[s].push = {} /\ sync'[s].pull = {}
    BY <2>1, <2>4, IdleFacts
  <2>6. /\ cold' \in [Hosts -> SUBSET Ids] /\ cloud' \subseteq Row /\ lastCloud' \in Nat
        /\ faults' \in 0..MaxFaults /\ IsFiniteSet(cloud') /\ cloud \subseteq cloud'
        /\ (\A r \in cloud' : r.seq <= lastCloud') /\ IdsOf(cloud') \subseteq Appended
    BY <1>0, <2>1 DEF TypeOK, KnownInv
  <2> HIDE DEF new, h
  <2>7. QED
    BY <2>1, <2>2, <2>3, <2>5, <2>6, KnownMoves
<1>9. QED
  BY <1>1, <1>2, <1>4, <1>5, <1>6, <1>7, <1>8 DEF Next, Step

(***************************************************************************)
(* Causal order, of hosts that do not archive.                             *)
(***************************************************************************)

LEMMA NoArchive ==
    ASSUME MaxSeq = 0, SyncInv, NEW h \in Hosts, NEW cutoff \in 1..last[h], Archive(h, cutoff)
    PROVE  FALSE
BY TypeFacts DEF Archive

LEMMA HotIsKnown ==
    ASSUME CausalInv, NEW h \in Hosts
    PROVE  Known(h) = IdsOf(hot[h])
BY DEF CausalInv, Known

\* A step of one sync that appends nothing at any host and nothing in the cloud.
LEMMA CausalMoves ==
    ASSUME SyncInv, CausalInv, NEW s \in Syncs,
           \A other \in Syncs \ {s} : sync'[other] = sync[other],
           UNCHANGED <<hot, cold, before, cloud>>,
           sync'[s].local \subseteq hot[HostOf[s]], InCausalOrder(sync'[s].local),
           InOrderFor(sync'[s].push, IdsOf(cloud)),
           InOrderFor(sync'[s].pull, IdsOf(hot[HostOf[s]]))
    PROVE  CausalInv'
<1>1. CausalOrder'
  BY DEF CausalInv, CausalOrder, InCausalOrder
<1>2. ASSUME NEW other \in Syncs
      PROVE  /\ sync'[other].local \subseteq hot'[HostOf[other]]
             /\ InCausalOrder(sync[other].local)'
             /\ InOrderFor(sync[other].push, IdsOf(cloud))'
             /\ InOrderFor(sync[other].pull, IdsOf(hot[HostOf[other]]))'
  <2>1. CASE other = s
    BY <2>1 DEF InCausalOrder, InOrderFor
  <2>2. CASE other # s
    BY <2>2 DEF CausalInv, InCausalOrder, InOrderFor
  <2>3. QED
    BY <2>1, <2>2
<1>3. QED
  BY <1>1, <1>2 DEF CausalInv

LEMMA CausalStep ==
    ASSUME MaxSeq = 0, SyncInv, CausalInv, Next
    PROVE  CausalInv'
<1>0. /\ CausalOrder /\ \A h \in Hosts : cold[h] = {} /\ Known(h) = IdsOf(hot[h])
  BY HotIsKnown DEF CausalInv
<1>s. ASSUME NEW s \in Syncs
      PROVE  /\ HostOf[s] \in Hosts
             /\ sync[s].local \subseteq hot[HostOf[s]] /\ InCausalOrder(sync[s].local)
             /\ InOrderFor(sync[s].push, IdsOf(cloud))
             /\ InOrderFor(sync[s].pull, IdsOf(hot[HostOf[s]]))
             /\ IdsOf(sync[s].push) \subseteq Known(HostOf[s]) /\ sync[s].pull \subseteq cloud
  BY TypeFacts DEF CausalInv, SyncInv, KnownInv
<1>e. /\ InCausalOrder({}) /\ InOrderFor({}, IdsOf(cloud))
      /\ \A s \in Syncs : InOrderFor({}, IdsOf(hot[HostOf[s]]))
  BY DEF InCausalOrder, InOrderFor
<1>1. ASSUME NEW h \in Hosts, NEW id \in Ids, AppendEvent(h, id)
      PROVE  CausalInv'
  <2> DEFINE new == [seq |-> last[h] + 1, id |-> id]
  <2>1. /\ hot'[h] = hot[h] \cup {new}
        /\ \A g \in Hosts \ {h} : hot'[g] = hot[g]
        /\ before' = before \cup {<<a, id>> : a \in Known(h)}
        /\ UNCHANGED <<cold, cloud, sync>>
        /\ id \notin Appended
    BY <1>1, AppendFacts
  <2>2. /\ new.id = id /\ new.seq = last[h] + 1 /\ last[h] \in Nat
        /\ \A q \in hot[h] : q.seq \in Nat /\ q.seq <= last[h]
    BY TypeFacts
  <2> HIDE DEF new
  <2>3. \A q \in hot[h] : q.seq < new.seq
    BY <2>2
  <2>4. ASSUME NEW rows, IdsOf(rows) \subseteq Appended, NEW r \in rows, NEW pair \in before',
               pair[2] = r.id
        PROVE  pair \in before
    <3>1. r.id # id
      BY <2>1, <2>4 DEF IdsOf
    <3>2. QED
      BY <2>1, <2>4, <3>1
  <2>5. /\ \A g \in Hosts : IdsOf(hot[g]) \subseteq Appended
        /\ IdsOf(cloud) \subseteq Appended
    BY DEF SyncInv, KnownInv, Known, Appended
  <2>6. ASSUME NEW s \in Syncs
        PROVE  /\ IdsOf(sync[s].local) \subseteq Appended
               /\ IdsOf(sync[s].push) \subseteq Appended
               /\ IdsOf(sync[s].pull) \subseteq Appended
    BY <1>s, <2>5 DEF SyncInv, KnownInv, IdsOf, Known, Appended
  <2>7. InCausalOrder(cloud)'
    BY <1>0, <2>1, <2>4, <2>5 DEF CausalOrder, InCausalOrder
  <2>8. ASSUME NEW g \in Hosts \ {h}
        PROVE  InCausalOrder(hot[g])'
    BY <1>0, <2>1, <2>4, <2>5 DEF CausalOrder, InCausalOrder
  <2>9. ASSUME NEW r \in hot'[h], NEW pair \in before', pair[2] = r.id
        PROVE  \E q \in hot'[h] : q.id = pair[1] /\ q.seq < r.seq
    <3>1. CASE r \in hot[h]
      <4>1. pair \in before
        BY <2>4, <2>5, <2>9, <3>1
      <4>2. QED
        BY <1>0, <2>1, <2>9, <3>1, <4>1 DEF CausalOrder, InCausalOrder
    <3>2. CASE r = new
      <4>1. pair[2] = id
        BY <2>2, <2>9, <3>2
      <4>2. pair \notin before
        BY <2>1, <4>1 DEF SyncInv, KnownInv
      <4>3. pair[1] \in IdsOf(hot[h])
        BY <1>0, <2>1, <4>2
      <4>4. PICK q \in hot[h] : q.id = pair[1]
        BY <4>3 DEF IdsOf
      <4>5. QED
        BY <2>1, <2>3, <3>2, <4>4
    <3>3. QED
      BY <2>1, <3>1, <3>2
  <2>10. InCausalOrder(hot[h])'
    BY <2>9 DEF InCausalOrder
  <2>11. CausalOrder'
    BY <2>7, <2>8, <2>10 DEF CausalOrder
  <2>12. ASSUME NEW s \in Syncs
         PROVE  /\ sync'[s].local \subseteq hot'[HostOf[s]]
                /\ InCausalOrder(sync[s].local)'
                /\ InOrderFor(sync[s].push, IdsOf(cloud))'
                /\ InOrderFor(sync[s].pull, IdsOf(hot[HostOf[s]]))'
    <3>1. sync'[s].local \subseteq hot'[HostOf[s]] /\ IdsOf(hot[HostOf[s]]) \subseteq IdsOf(hot'[HostOf[s]])
      BY <1>s, <2>1 DEF IdsOf
    <3>2. InCausalOrder(sync[s].local)'
      BY <1>s, <2>1, <2>4, <2>6 DEF InCausalOrder
    <3>3. InOrderFor(sync[s].push, IdsOf(cloud))'
      BY <1>s, <2>1, <2>4, <2>6 DEF InOrderFor
    <3>4. InOrderFor(sync[s].pull, IdsOf(hot[HostOf[s]]))'
      BY <1>s, <2>1, <2>4, <2>6, <3>1 DEF InOrderFor
    <3>5. QED
      BY <3>1, <3>2, <3>3, <3>4
  <2>13. QED
    BY <1>0, <2>1, <2>11, <2>12 DEF CausalInv
<1>2. ASSUME NEW s \in Syncs, ReadLocal(s)
      PROVE  CausalInv'
  <2>1. InCausalOrder(hot[HostOf[s]])
    BY <1>0, <1>s DEF CausalOrder
  <2>2. QED
    BY <1>2, <1>e, <2>1, ReadLocalFacts, CausalMoves
<1>3. ASSUME NEW s \in Syncs, ReadCloud(s)
      PROVE  CausalInv'
  <2> DEFINE local == sync[s].local
             push == {r \in local : r.id \notin IdsOf(cloud)}
             pull == {r \in cloud : r.id \notin IdsOf(local)}
  <2>1. /\ \A other \in Syncs \ {s} : sync'[other] = sync[other]
        /\ sync'[s].local = {} /\ sync'[s].push = push /\ sync'[s].pull = pull
        /\ UNCHANGED <<hot, cold, cloud, before>>
    BY <1>3, ReadCloudFacts
  <2>2. InOrderFor(push, IdsOf(cloud))
    BY <1>s DEF InOrderFor, InCausalOrder
  <2>3. IdsOf(local) \subseteq IdsOf(hot[HostOf[s]])
    BY <1>s DEF IdsOf
  <2>4. InCausalOrder(cloud)
    BY <1>0 DEF CausalOrder
  <2>5. InOrderFor(pull, IdsOf(hot[HostOf[s]]))
    BY <2>3, <2>4 DEF InOrderFor, InCausalOrder
  <2> HIDE DEF local, push, pull
  <2>6. QED
    BY <1>e, <2>1, <2>2, <2>5, CausalMoves
<1>4. ASSUME NEW s \in Syncs, Abort(s)
      PROVE  CausalInv'
  BY <1>4, <1>e, AbortFacts, IdleFacts, CausalMoves
<1>5. ASSUME NEW s \in Syncs, NEW r \in sync[s].push, PushEvent(s, r)
      PROVE  CausalInv'
  <2> DEFINE new == [seq |-> lastCloud + 1, id |-> r.id]
  <2>1. /\ \A other \in Syncs \ {s} : sync'[other] = sync[other]
        /\ sync'[s].local = sync[s].local /\ sync'[s].pull = sync[s].pull
        /\ sync'[s].push = sync[s].push \ {r}
        /\ \/ r.id \in IdsOf(cloud) /\ cloud' = cloud
           \/ r.id \notin IdsOf(cloud) /\ cloud' = cloud \cup {new}
        /\ IdsOf(cloud') = IdsOf(cloud) \cup {r.id}
        /\ \A other \in sync[s].push : r.seq <= other.seq
        /\ UNCHANGED <<hot, cold, before>>
    BY <1>5, PushFacts
  <2>2. /\ new.id = r.id /\ new.seq = lastCloud + 1 /\ lastCloud \in Nat
        /\ \A q \in cloud : q.seq \in Nat /\ q.seq <= lastCloud
        /\ \A q \in sync[s].push : q.seq \in Nat
    BY TypeFacts DEF Row
  <2> HIDE DEF new
  <2>3. \A q \in cloud : q.seq < new.seq
    BY <2>2
  <2>4. ASSUME NEW pair \in before, pair[2] = r.id
        PROVE  pair[1] \in IdsOf(cloud)
    <3>1. \A q \in sync[s].push : ~ (q.seq < r.seq)
      BY <2>1, <2>2
    <3>2. QED
      BY <1>s, <2>4, <3>1 DEF InOrderFor
  <2>5. InCausalOrder(cloud)'
    <3> SUFFICES ASSUME NEW c \in cloud', NEW pair \in before, pair[2] = c.id
                 PROVE  \E q \in cloud' : q.id = pair[1] /\ q.seq < c.seq
      BY <2>1 DEF InCausalOrder
    <3>1. CASE c \in cloud
      BY <1>0, <2>1, <3>1 DEF CausalOrder, InCausalOrder
    <3>2. CASE c = new /\ c \notin cloud
      <4>1. PICK q \in cloud : q.id = pair[1]
        BY <2>2, <2>4, <3>2 DEF IdsOf
      <4>2. QED
        BY <2>1, <2>3, <3>2, <4>1
    <3>3. QED
      BY <2>1, <3>1, <3>2
  <2>6. CausalOrder'
    BY <1>0, <2>1, <2>5 DEF CausalOrder, InCausalOrder
  <2>7. ASSUME NEW other \in Syncs
        PROVE  InOrderFor(sync[other].push, IdsOf(cloud))'
    <3>1. CASE other = s
      <4> SUFFICES ASSUME NEW c \in sync[s].push \ {r}, NEW pair \in before, pair[2] = c.id
                   PROVE  \/ pair[1] \in IdsOf(cloud')
                          \/ \E q \in sync[s].push \ {r} : q.id = pair[1] /\ q.seq < c.seq
        BY <2>1, <3>1 DEF InOrderFor
      <4>1. \/ pair[1] \in IdsOf(cloud)
            \/ \E q \in sync[s].push : q.id = pair[1] /\ q.seq < c.seq
        BY <1>s DEF InOrderFor
      <4>2. QED
        BY <2>1, <4>1
    <3>2. CASE other # s
      BY <1>s, <2>1, <3>2 DEF InOrderFor
    <3>3. QED
      BY <3>1, <3>2
  <2>8. ASSUME NEW other \in Syncs
        PROVE  /\ sync'[other].local = sync[other].local
               /\ sync'[other].pull = sync[other].pull
    BY <2>1
  <2>9. ASSUME NEW other \in Syncs
        PROVE  /\ sync'[other].local \subseteq hot'[HostOf[other]]
               /\ InCausalOrder(sync[other].local)'
               /\ InOrderFor(sync[other].pull, IdsOf(hot[HostOf[other]]))'
    BY <1>s, <2>1, <2>8 DEF InCausalOrder, InOrderFor
  <2>10. QED
    BY <1>0, <2>1, <2>6, <2>7, <2>9 DEF CausalInv
<1>6. ASSUME NEW s \in Syncs, PullEvents(s)
      PROVE  CausalInv'
  <2> DEFINE h == HostOf[s]
             rows == sync[s].pull
             new == PulledRows(h, rows)
  <2>1. /\ \A other \in Syncs \ {s} : sync'[other] = sync[other]
        /\ sync'[s] = Idle
        /\ hot'[h] = hot[h] \cup new
        /\ \A g \in Hosts \ {h} : hot'[g] = hot[g]
        /\ \A n \in new :
             /\ n \in Row /\ last[h] < n.seq
             /\ \E r \in rows : r.id = n.id /\ n.seq = last[h] + PullPosition(rows, r)
        /\ \A r \in rows : r.id \in IdsOf(hot[h]) \/
             [seq |-> last[h] + PullPosition(rows, r), id |-> r.id] \in new
        /\ \A g \in Hosts : hot[g] \subseteq hot'[g]
        /\ \A g \in Hosts : IdsOf(hot[g]) \subseteq IdsOf(hot'[g])
        /\ UNCHANGED <<cold, cloud, before>>
    BY <1>6, PullFacts
  <2>2. /\ h \in Hosts /\ last[h] \in Nat /\ \A q \in hot[h] : q.seq \in Nat /\ q.seq <= last[h]
    BY TypeFacts
  <2>3. /\ \A r \in rows : PullPosition(rows, r) \in Nat
        /\ \A q, r \in rows : q.seq < r.seq => PullPosition(rows, q) < PullPosition(rows, r)
    <3>1. rows \subseteq Row /\ IsFiniteSet(rows)
      BY <1>s, TypeFacts, FS_Subset DEF SyncInv, KnownInv
    <3> HIDE DEF rows
    <3>2. QED
      BY <3>1, PullPositionFacts
  <2>4. InOrderFor(rows, IdsOf(hot[h]))
    BY <1>s
  <2> HIDE DEF h, rows, new
  <2>5. ASSUME NEW n \in new, NEW pair \in before, pair[2] = n.id
        PROVE  \E q \in hot'[h] : q.id = pair[1] /\ q.seq < n.seq
    <3>1. PICK r \in rows : r.id = n.id /\ n.seq = last[h] + PullPosition(rows, r)
      BY <2>1
    <3>2. CASE pair[1] \in IdsOf(hot[h])
      <4>1. PICK q \in hot[h] : q.id = pair[1]
        BY <3>2 DEF IdsOf
      <4>2. q.seq \in Nat /\ q.seq <= last[h] /\ last[h] < n.seq /\ n.seq \in Nat
        BY <2>1, <2>2 DEF Row
      <4>3. QED
        BY <2>1, <2>2, <4>1, <4>2
    <3>3. CASE pair[1] \notin IdsOf(hot[h])
      <4>1. PICK c \in rows : c.id = pair[1] /\ c.seq < r.seq
        BY <2>4, <2>5, <3>1, <3>3 DEF InOrderFor
      <4> DEFINE m == [seq |-> last[h] + PullPosition(rows, c), id |-> c.id]
      <4>2. m \in new
        BY <2>1, <3>3, <4>1
      <4>3. m.id = pair[1] /\ m.seq = last[h] + PullPosition(rows, c)
        BY <4>1
      <4>4. /\ PullPosition(rows, c) \in Nat /\ PullPosition(rows, r) \in Nat
            /\ PullPosition(rows, c) < PullPosition(rows, r)
        BY <2>3, <4>1
      <4>5. m.seq < n.seq
        BY <2>2, <3>1, <4>3, <4>4
      <4> HIDE DEF m
      <4>6. QED
        BY <2>1, <4>2, <4>3, <4>5
    <3>4. QED
      BY <3>2, <3>3
  <2>6. InCausalOrder(hot[h])'
    BY <1>0, <2>1, <2>2, <2>5 DEF CausalOrder, InCausalOrder
  <2>7. CausalOrder'
    BY <1>0, <2>1, <2>6 DEF CausalOrder, InCausalOrder
  <2>8. ASSUME NEW other \in Syncs
        PROVE  /\ sync'[other].local \subseteq hot'[HostOf[other]]
               /\ InCausalOrder(sync[other].local)'
               /\ InOrderFor(sync[other].push, IdsOf(cloud))'
               /\ InOrderFor(sync[other].pull, IdsOf(hot[HostOf[other]]))'
    <3>1. CASE other = s
      <4>1. /\ sync'[other].local = {} /\ sync'[other].push = {} /\ sync'[other].pull = {}
        BY <2>1, <3>1, IdleFacts
      <4>2. QED
        BY <4>1 DEF InCausalOrder, InOrderFor
    <3>2. CASE other # s
      <4>1. sync'[other] = sync[other] /\ before' = before /\ cloud' = cloud
        BY <2>1, <3>2
      <4>2. /\ HostOf[other] \in Hosts /\ hot[HostOf[other]] \subseteq hot'[HostOf[other]]
            /\ IdsOf(hot[HostOf[other]]) \subseteq IdsOf(hot'[HostOf[other]])
        BY <1>s, <2>1
      <4>3. sync'[other].local \subseteq hot'[HostOf[other]] /\ InCausalOrder(sync[other].local)'
        BY <1>s, <4>1, <4>2 DEF InCausalOrder
      <4>4. InOrderFor(sync[other].push, IdsOf(cloud))'
        BY <1>s, <4>1 DEF InOrderFor
      <4>5. InOrderFor(sync[other].pull, IdsOf(hot[HostOf[other]]))'
        BY <1>s, <4>1, <4>2 DEF InOrderFor
      <4>6. QED
        BY <4>3, <4>4, <4>5
    <3>3. QED
      BY <3>1, <3>2
  <2>9. QED
    BY <1>0, <2>1, <2>7, <2>8 DEF CausalInv
<1>7. QED
  BY <1>1, <1>2, <1>3, <1>4, <1>5, <1>6, NoArchive DEF Next, Step

(***************************************************************************)
(* The order of the cloud table, of one sync per host at a time.           *)
(***************************************************************************)

\* What a step must keep for the origin of events that the cloud lacks: hosts learn of
\* no such event but by appending it.
LEMMA OriginMoves ==
    ASSUME OriginInv, UNCHANGED before, IdsOf(cloud) \subseteq IdsOf(cloud'),
           \A h \in Hosts : /\ Known(h) \subseteq Known(h)'
                           /\ Known(h)' \subseteq Known(h) \cup IdsOf(cloud)
    PROVE  OriginInv'
BY DEF OriginInv

LEMMA OriginStep ==
    ASSUME SyncInv, OriginInv, Next
    PROVE  OriginInv'
<1>s. \A s \in Syncs : HostOf[s] \in Hosts
  BY TypeFacts
<1>1. ASSUME NEW h \in Hosts, NEW id \in Ids, AppendEvent(h, id)
      PROVE  OriginInv'
  <2>1. /\ before' = before \cup {<<a, id>> : a \in Known(h)} /\ UNCHANGED cloud
        /\ id \notin Appended /\ Known(h)' = Known(h) \cup {id}
        /\ \A g \in Hosts \ {h} : Known(g)' = Known(g)
    BY <1>1, AppendFacts
  <2>2. \A g \in Hosts : id \notin Known(g)
    BY <2>1 DEF Appended
  <2>3. ASSUME NEW g \in Hosts, NEW f \in Hosts, NEW i \in Known(g)' \cap Known(f)'
        PROVE  i \in IdsOf(cloud') \/ g = f
    BY <2>1, <2>2 DEF OriginInv
  <2>4. ASSUME NEW g \in Hosts, NEW pair \in before', pair[2] \in Known(g)' \ IdsOf(cloud')
        PROVE  pair[1] \in Known(g)'
    <3>1. CASE pair \in before
      <4>1. pair[2] # id
        BY <2>1, <3>1 DEF SyncInv, KnownInv
      <4>2. pair[2] \in Known(g) \ IdsOf(cloud)
        BY <2>1, <2>4, <4>1
      <4>3. QED
        BY <2>1, <3>1, <4>2 DEF OriginInv
    <3>2. CASE \E a \in Known(h) : pair = <<a, id>>
      BY <2>1, <2>2, <2>4, <3>2
    <3>3. QED
      BY <2>1, <3>1, <3>2
  <2>5. QED
    BY <2>3, <2>4 DEF OriginInv
<1>2. ASSUME NEW h \in Hosts, NEW cutoff, Archive(h, cutoff)
      PROVE  OriginInv'
  BY <1>2, ArchiveFacts, OriginMoves
<1>3. CASE UNCHANGED <<hot, cold, cloud, before>>
  <2>1. \A h \in Hosts : Known(h)' = Known(h)
    BY <1>3 DEF Known
  <2>2. QED
    BY <1>3, <2>1, OriginMoves
<1>4. ASSUME NEW s \in Syncs, ReadLocal(s) \/ ReadCloud(s) \/ Abort(s)
      PROVE  OriginInv'
  BY <1>3, <1>4 DEF ReadLocal, ReadCloud, Abort
<1>5. ASSUME NEW s \in Syncs, NEW r \in sync[s].push, PushEvent(s, r)
      PROVE  OriginInv'
  <2>1. UNCHANGED <<hot, cold, before>> /\ IdsOf(cloud) \subseteq IdsOf(cloud')
    BY <1>5, PushFacts
  <2>2. \A h \in Hosts : Known(h)' = Known(h)
    BY <2>1 DEF Known
  <2>3. QED
    BY <2>1, <2>2, OriginMoves
<1>6. ASSUME NEW s \in Syncs, PullEvents(s)
      PROVE  OriginInv'
  <2>1. /\ UNCHANGED <<cold, cloud, before>>
        /\ \A g \in Hosts : IdsOf(hot[g]) \subseteq IdsOf(hot'[g])
                            /\ IdsOf(hot'[g]) \subseteq IdsOf(hot[g]) \cup IdsOf(cloud)
    BY <1>6, PullFacts
  <2>2. \A h \in Hosts : /\ Known(h) \subseteq Known(h)'
                         /\ Known(h)' \subseteq Known(h) \cup IdsOf(cloud)
    BY <2>1 DEF Known
  <2>3. QED
    BY <2>1, <2>2, OriginMoves
<1>7. QED
  BY <1>1, <1>2, <1>4, <1>5, <1>6 DEF Next, Step

\* No two syncs run on one host.
OneSyncPerHost == \A s, t \in Syncs : HostOf[s] = HostOf[t] => s = t

\* A step that appends no event and inserts none in the cloud.
LEMMA OrderMoves ==
    ASSUME OrderInv, NEW s \in Syncs, \A t \in Syncs : HostOf[t] \in Hosts,
           \A other \in Syncs \ {s} : sync'[other] = sync[other],
           UNCHANGED <<before, cloud>>,
           \A h \in Hosts : IdsOf(hot'[h]) \subseteq IdsOf(hot[h]) \cup IdsOf(cloud),
           \A h \in Hosts : PushOrder(hot'[h]),
           IdsOf(sync'[s].local) \subseteq IdsOf(hot[HostOf[s]]),
           IdsOf(sync'[s].push) \subseteq IdsOf(sync[s].local),
           PushOrder(sync'[s].local), PushComplete(sync'[s].local, HostOf[s]),
           PushOrder(sync'[s].push), PushComplete(sync'[s].push, HostOf[s])
    PROVE  OrderInv'
<1>1. CloudOrder'
  BY DEF OrderInv, CloudOrder
<1>2. \A h \in Hosts : PushOrder(hot[h])'
  BY DEF PushOrder
<1>3. ASSUME NEW t \in Syncs
      PROVE  /\ PushOrder(sync[t].local)' /\ PushOrder(sync[t].push)'
             /\ PushComplete(sync[t].local, HostOf[t])' /\ PushComplete(sync[t].push, HostOf[t])'
  <2>1. /\ PushOrder(sync'[t].local) /\ PushOrder(sync'[t].push)
        /\ PushComplete(sync'[t].local, HostOf[t]) /\ PushComplete(sync'[t].push, HostOf[t])
    BY DEF OrderInv
  <2>2. \A pair \in before : pair[1] \in IdsOf(hot'[HostOf[t]]) \ IdsOf(cloud)
                               => pair[1] \in IdsOf(hot[HostOf[t]]) \ IdsOf(cloud)
    OBVIOUS
  <2>3. QED
    BY <2>1, <2>2 DEF PushOrder, PushComplete
<1>4. ASSUME NEW pair \in before', pair[2] \in IdsOf(cloud'), pair[1] \notin IdsOf(cloud')
      PROVE  /\ \A h \in Hosts : pair[1] \notin IdsOf(hot'[h])
             /\ \A t \in Syncs : pair[1] \notin IdsOf(sync'[t].local) \cup IdsOf(sync'[t].push)
  BY <1>4 DEF OrderInv
<1>5. QED
  BY <1>1, <1>2, <1>3, <1>4 DEF OrderInv

\* What is pushed next has no event that follows from it in the cloud, and of its
\* causes none is left to come.
LEMMA PushedInOrder ==
    ASSUME OneSyncPerHost, SyncInv, OriginInv, OrderInv,
           NEW s \in Syncs, NEW r \in sync[s].push, sync[s].pc = "push",
           \A other \in sync[s].push : r.seq <= other.seq, r.id \notin IdsOf(cloud)
    PROVE  /\ \A q \in cloud : <<r.id, q.id>> \notin before
           /\ \A a : <<a, r.id>> \in before /\ a \notin IdsOf(cloud) =>
                /\ \A h \in Hosts : a \notin IdsOf(hot[h])
                /\ \A t \in Syncs : a \notin IdsOf(sync[t].local) \cup IdsOf(sync[t].push)
<1>1. ASSUME NEW q \in cloud, <<r.id, q.id>> \in before
      PROVE  FALSE
  <2>1. q.id \in IdsOf(cloud) /\ r.id \in IdsOf(sync[s].push)
    BY DEF IdsOf
  <2>2. QED
    BY <1>1, <2>1 DEF OrderInv
<1>2. ASSUME NEW a, <<a, r.id>> \in before, a \notin IdsOf(cloud)
      PROVE  /\ \A h \in Hosts : a \notin IdsOf(hot[h])
             /\ \A t \in Syncs : a \notin IdsOf(sync[t].local) \cup IdsOf(sync[t].push)
  <2> DEFINE g == HostOf[s]
  <2>1. /\ g \in Hosts /\ r.id \in IdsOf(sync[s].push) /\ r.id \in Known(g)
        /\ sync[s].local = {}
    BY TypeFacts DEF SyncInv, KnownInv, IdsOf
  <2>2. a \in Known(g)
    BY <1>2, <2>1 DEF OriginInv
  <2>3. \A h \in Hosts : a \in Known(h) => h = g
    BY <1>2, <2>1, <2>2 DEF OriginInv
  <2>4. a \notin IdsOf(sync[s].push)
    <3> SUFFICES ASSUME NEW c \in sync[s].push, c.id = a
                 PROVE  FALSE
      BY DEF IdsOf
    <3>1. c.seq < r.seq
      BY <1>2 DEF OrderInv, PushOrder
    <3>2. c.seq \in Nat /\ r.seq \in Nat /\ r.seq <= c.seq
      BY TypeFacts DEF Row
    <3>3. QED
      BY <3>1, <3>2
  <2>5. a \notin IdsOf(hot[g])
    BY <1>2, <2>1, <2>4 DEF OrderInv, PushComplete
  <2>6. \A h \in Hosts : a \notin IdsOf(hot[h])
    BY <2>3, <2>5 DEF Known
  <2>7. ASSUME NEW t \in Syncs, a \in IdsOf(sync[t].local) \cup IdsOf(sync[t].push)
        PROVE  FALSE
    <3>1. a \in Known(HostOf[t]) /\ HostOf[t] \in Hosts
      BY <2>7, TypeFacts DEF SyncInv, KnownInv
    <3>2. t = s
      BY <2>3, <3>1 DEF OneSyncPerHost
    <3>3. a \notin IdsOf(sync[s].local)
      BY <2>1 DEF IdsOf
    <3>4. QED
      BY <2>4, <2>7, <3>2, <3>3
  <2>8. QED
    BY <2>6, <2>7
<1>3. QED
  BY <1>1, <1>2

LEMMA OrderStep ==
    ASSUME OneSyncPerHost, SyncInv, OriginInv, OrderInv, Next
    PROVE  OrderInv'
<1>s. ASSUME NEW s \in Syncs
      PROVE  /\ HostOf[s] \in Hosts
             /\ PushOrder(sync[s].local) /\ PushOrder(sync[s].push)
             /\ PushComplete(sync[s].local, HostOf[s]) /\ PushComplete(sync[s].push, HostOf[s])
  BY TypeFacts DEF OrderInv
<1>e. /\ PushOrder({}) /\ (\A h : PushComplete({}, h)) /\ IdsOf({}) = {}
  BY DEF PushOrder, PushComplete, IdsOf
<1>n. ASSUME NEW rows, rows = {}, NEW h
      PROVE  PushOrder(rows) /\ PushComplete(rows, h) /\ IdsOf(rows) = {}
  BY <1>n DEF PushOrder, PushComplete, IdsOf
<1>h. \A h \in Hosts : PushOrder(hot[h])
  BY DEF OrderInv
<1>1. ASSUME NEW h \in Hosts, NEW id \in Ids, AppendEvent(h, id)
      PROVE  OrderInv'
  <2> DEFINE new == [seq |-> last[h] + 1, id |-> id]
  <2>1. /\ hot'[h] = hot[h] \cup {new} /\ IdsOf(hot'[h]) = IdsOf(hot[h]) \cup {id}
        /\ \A g \in Hosts \ {h} : hot'[g] = hot[g]
        /\ before' = before \cup {<<a, id>> : a \in Known(h)}
        /\ UNCHANGED <<cold, cloud, sync>>
        /\ id \notin Appended
    BY <1>1, AppendFacts
  <2>2. /\ new.id = id /\ new.seq = last[h] + 1 /\ last[h] \in Nat
        /\ \A q \in hot[h] : q.seq \in Nat /\ q.seq <= last[h]
    BY TypeFacts
  <2> HIDE DEF new
  <2>3. \A q \in hot[h] : q.seq < new.seq
    BY <2>2
  <2>4. /\ \A g \in Hosts : IdsOf(hot[g]) \subseteq Appended /\ Known(g) \subseteq Appended
        /\ IdsOf(cloud) \subseteq Appended
    BY DEF SyncInv, KnownInv, Known, Appended
  <2>5. \A s \in Syncs : IdsOf(sync[s].local) \subseteq Appended /\ IdsOf(sync[s].push) \subseteq Appended
    BY <1>s, <2>4 DEF SyncInv, KnownInv
  \* Of pairs, only those that end in the new event are new.
  <2>6. ASSUME NEW a, NEW b, <<a, b>> \in before', b # id
        PROVE  <<a, b>> \in before /\ a # id
    BY <2>1, <2>6 DEF SyncInv, KnownInv
  <2>7. ASSUME NEW a, <<a, id>> \in before'
        PROVE  a # id
    <3>1. <<a, id>> \notin before
      BY <2>1 DEF SyncInv, KnownInv
    <3>2. a \in Known(h)
      BY <2>1, <2>7, <3>1
    <3>3. QED
      BY <2>1, <2>4, <3>2
  <2>8. CloudOrder'
    <3> SUFFICES ASSUME NEW q \in cloud, NEW r \in cloud, <<q.id, r.id>> \in before'
                 PROVE  q.seq < r.seq
      BY <2>1 DEF CloudOrder
    <3>1. r.id # id
      BY <2>1, <2>4 DEF IdsOf
    <3>2. QED
      BY <2>6, <3>1 DEF OrderInv, CloudOrder
  <2>9. ASSUME NEW rows, IdsOf(rows) \subseteq Appended, PushOrder(rows)
        PROVE  \A q, r \in rows : <<q.id, r.id>> \in before' /\ q.id \notin IdsOf(cloud') => q.seq < r.seq
    <3> SUFFICES ASSUME NEW q \in rows, NEW r \in rows, <<q.id, r.id>> \in before',
                        q.id \notin IdsOf(cloud')
                 PROVE  q.seq < r.seq
      OBVIOUS
    <3>1. r.id # id
      BY <2>1, <2>9 DEF IdsOf
    <3>2. QED
      BY <2>1, <2>6, <2>9, <3>1 DEF PushOrder
  <2>10. ASSUME NEW g \in Hosts
         PROVE  PushOrder(hot[g])'
    <3>1. CASE g # h
      BY <1>h, <2>1, <2>4, <2>9, <3>1 DEF PushOrder
    <3>2. CASE g = h
      <4> SUFFICES ASSUME NEW q \in hot'[h], NEW r \in hot'[h], <<q.id, r.id>> \in before',
                          q.id \notin IdsOf(cloud')
                   PROVE  q.seq < r.seq
        BY <3>2 DEF PushOrder
      <4>1. CASE q \in hot[h] /\ r \in hot[h]
        BY <1>h, <2>4, <2>9, <4>1
      <4>2. CASE q \in hot[h] /\ r = new
        BY <2>3, <4>2
      <4>3. CASE q = new
        BY <2>2, <2>6, <2>7, <4>3
      <4>4. QED
        BY <2>1, <4>1, <4>2, <4>3
    <3>3. QED
      BY <3>1, <3>2
  <2>11. ASSUME NEW s \in Syncs, NEW rows \in {sync'[s].local, sync'[s].push}
         PROVE  PushOrder(rows)' /\ PushComplete(rows, HostOf[s])'
    <3>1. IdsOf(rows) \subseteq Appended /\ PushOrder(rows) /\ PushComplete(rows, HostOf[s])
      BY <1>s, <2>1, <2>5
    <3>2. ASSUME NEW pair \in before', pair[2] \in IdsOf(rows),
                 pair[1] \in IdsOf(hot'[HostOf[s]]) \ IdsOf(cloud')
          PROVE  pair[1] \in IdsOf(rows)
      <4>1. pair[2] # id
        BY <2>1, <3>1, <3>2
      <4>2. pair \in before
        BY <2>1, <3>2, <4>1
      <4>3. pair[1] # id
        BY <2>1, <4>2 DEF SyncInv, KnownInv
      <4>4. pair[1] \in IdsOf(hot[HostOf[s]]) \ IdsOf(cloud)
        BY <1>s, <2>1, <3>2, <4>3
      <4>5. QED
        BY <3>1, <3>2, <4>2, <4>4 DEF PushComplete
    <3>3. PushComplete(rows, HostOf[s])'
      BY <3>2 DEF PushComplete
    <3>4. QED
      BY <2>9, <3>1, <3>3 DEF PushOrder
  <2>12. ASSUME NEW pair \in before', pair[2] \in IdsOf(cloud'), pair[1] \notin IdsOf(cloud')
         PROVE  /\ \A g \in Hosts : pair[1] \notin IdsOf(hot'[g])
                /\ \A s \in Syncs : pair[1] \notin IdsOf(sync'[s].local) \cup IdsOf(sync'[s].push)
    <3>1. pair[2] # id
      BY <2>1, <2>4, <2>12
    <3>2. pair \in before
      BY <2>1, <2>12, <3>1
    <3>3. pair[1] # id
      BY <2>1, <3>2 DEF SyncInv, KnownInv
    <3>4. \A g \in Hosts : pair[1] \notin IdsOf(hot[g])
      BY <2>1, <2>12, <3>2 DEF OrderInv
    <3>5. \A s \in Syncs : pair[1] \notin IdsOf(sync[s].local) \cup IdsOf(sync[s].push)
      BY <2>1, <2>12, <3>2 DEF OrderInv
    <3>6. QED
      BY <2>1, <3>3, <3>4, <3>5
  <2>13. QED
    BY <2>8, <2>10, <2>11, <2>12 DEF OrderInv
<1>2. ASSUME NEW h \in Hosts, NEW cutoff, Archive(h, cutoff)
      PROVE  OrderInv'
  <2>1. /\ \A g \in Hosts : hot'[g] \subseteq hot[g] /\ IdsOf(hot'[g]) \subseteq IdsOf(hot[g])
        /\ UNCHANGED <<cloud, sync, before>>
    BY <1>2, ArchiveFacts
  <2>2. \A g \in Hosts : PushOrder(hot[g])'
    BY <1>h, <2>1 DEF PushOrder
  <2>3. CloudOrder'
    BY <2>1 DEF OrderInv, CloudOrder
  <2>4. ASSUME NEW s \in Syncs, NEW rows \in {sync'[s].local, sync'[s].push}
        PROVE  PushOrder(rows)' /\ PushComplete(rows, HostOf[s])'
    BY <1>s, <2>1 DEF PushOrder, PushComplete
  <2>5. QED
    BY <2>1, <2>2, <2>3, <2>4 DEF OrderInv
<1>3. ASSUME NEW s \in Syncs, ReadLocal(s)
      PROVE  OrderInv'
  <2>1. PushComplete(hot[HostOf[s]], HostOf[s])
    BY DEF PushComplete
  <2>2. /\ \A other \in Syncs \ {s} : sync'[other] = sync[other]
        /\ sync'[s].local = hot[HostOf[s]] /\ sync'[s].push = {}
        /\ UNCHANGED <<hot, cloud, before>>
    BY <1>3, ReadLocalFacts
  <2>3. PushOrder(hot[HostOf[s]])
    BY <1>s, <1>h
  <2>4. /\ PushOrder(sync'[s].local) /\ PushComplete(sync'[s].local, HostOf[s])
        /\ IdsOf(sync'[s].local) = IdsOf(hot[HostOf[s]])
    BY <2>1, <2>2, <2>3
  <2>5. QED
    BY <1>s, <1>h, <1>n, <2>2, <2>4, OrderMoves
<1>4. ASSUME NEW s \in Syncs, ReadCloud(s)
      PROVE  OrderInv'
  <2> DEFINE push == {r \in sync[s].local : r.id \notin IdsOf(cloud)}
  <2>1. /\ \A other \in Syncs \ {s} : sync'[other] = sync[other]
        /\ sync'[s].local = {} /\ sync'[s].push = push
        /\ UNCHANGED <<hot, cloud, before>>
    BY <1>4, ReadCloudFacts
  <2>2. PushOrder(push)
    BY <1>s DEF PushOrder
  <2>3. PushComplete(push, HostOf[s]) /\ IdsOf(push) \subseteq IdsOf(sync[s].local)
    BY <1>s DEF PushComplete, IdsOf
  <2> HIDE DEF push
  <2>4. QED
    BY <1>s, <1>e, <1>h, <2>1, <2>2, <2>3, OrderMoves
<1>5. ASSUME NEW s \in Syncs, Abort(s)
      PROVE  OrderInv'
  <2>1. /\ \A other \in Syncs \ {s} : sync'[other] = sync[other]
        /\ sync'[s].local = {} /\ sync'[s].push = {}
        /\ UNCHANGED <<hot, cloud, before>>
    BY <1>5, AbortFacts, IdleFacts
  <2>2. QED
    BY <1>s, <1>h, <1>n, <2>1, OrderMoves
<1>6. ASSUME NEW s \in Syncs, PullEvents(s)
      PROVE  OrderInv'
  <2> DEFINE h == HostOf[s]
             new == PulledRows(h, sync[s].pull)
  <2>1. /\ \A other \in Syncs \ {s} : sync'[other] = sync[other]
        /\ sync'[s] = Idle
        /\ hot'[h] = hot[h] \cup new
        /\ \A g \in Hosts \ {h} : hot'[g] = hot[g]
        /\ \A n \in new : n \in Row /\ last[h] < n.seq /\ n.id \in IdsOf(cloud)
        /\ \A g \in Hosts : IdsOf(hot'[g]) \subseteq IdsOf(hot[g]) \cup IdsOf(cloud)
        /\ UNCHANGED <<cloud, before>>
    BY <1>6, PullFacts
  <2>2. /\ h \in Hosts /\ last[h] \in Nat /\ \A q \in hot[h] : q.seq \in Nat /\ q.seq <= last[h]
    BY TypeFacts
  <2> HIDE DEF h, new
  <2>3. ASSUME NEW q \in hot[h], NEW n \in new
        PROVE  q.seq < n.seq
    <3>1. n.seq \in Nat
      BY <2>1 DEF Row
    <3>2. QED
      BY <2>1, <2>2, <3>1
  <2>4. PushOrder(hot'[h])
    BY <1>h, <2>1, <2>2, <2>3 DEF PushOrder
  <2>5. \A g \in Hosts : PushOrder(hot'[g])
    BY <1>h, <2>1, <2>4
  <2>6. sync'[s].local = {} /\ sync'[s].push = {}
    BY <2>1, IdleFacts
  <2>7. QED
    BY <1>s, <1>n, <2>1, <2>5, <2>6, OrderMoves
<1>7. ASSUME NEW s \in Syncs, NEW r \in sync[s].push, PushEvent(s, r)
      PROVE  OrderInv'
  <2> DEFINE new == [seq |-> lastCloud + 1, id |-> r.id]
  <2>1. /\ \A other \in Syncs \ {s} : sync'[other] = sync[other]
        /\ sync[s].pc = "push"
        /\ sync'[s].local = sync[s].local /\ sync'[s].push = sync[s].push \ {r}
        /\ \/ r.id \in IdsOf(cloud) /\ cloud' = cloud
           \/ r.id \notin IdsOf(cloud) /\ cloud' = cloud \cup {new}
        /\ IdsOf(cloud') = IdsOf(cloud) \cup {r.id}
        /\ \A other \in sync[s].push : r.seq <= other.seq
        /\ UNCHANGED <<hot, before>>
    BY <1>7, PushFacts
  <2>2. /\ new.id = r.id /\ new.seq = lastCloud + 1 /\ lastCloud \in Nat
        /\ \A q \in cloud : q.seq \in Nat /\ q.seq <= lastCloud
    BY TypeFacts
  <2> HIDE DEF new
  <2>3. \A q \in cloud : q.seq < new.seq
    BY <2>2
  <2> DEFINE Ordered ==
        /\ CloudOrder'
        /\ \A pair \in before : pair[2] \in IdsOf(cloud') /\ pair[1] \notin IdsOf(cloud') =>
             /\ \A h \in Hosts : pair[1] \notin IdsOf(hot[h])
             /\ \A t \in Syncs : pair[1] \notin IdsOf(sync[t].local) \cup IdsOf(sync[t].push)
  <2>4. ASSUME r.id \notin IdsOf(cloud)
        PROVE  Ordered
    <3>1. /\ \A q \in cloud : <<r.id, q.id>> \notin before
          /\ \A a : <<a, r.id>> \in before /\ a \notin IdsOf(cloud) =>
               /\ \A h \in Hosts : a \notin IdsOf(hot[h])
               /\ \A t \in Syncs : a \notin IdsOf(sync[t].local) \cup IdsOf(sync[t].push)
      BY <2>1, <2>4, PushedInOrder
    <3>2. <<r.id, r.id>> \notin before
      BY DEF SyncInv, KnownInv
    <3>3. CloudOrder'
      <4> SUFFICES ASSUME NEW q \in cloud', NEW c \in cloud', <<q.id, c.id>> \in before
                   PROVE  q.seq < c.seq
        BY <2>1 DEF CloudOrder
      <4>1. CASE q \in cloud /\ c \in cloud
        BY <4>1 DEF OrderInv, CloudOrder
      <4>2. CASE q \in cloud /\ c = new
        BY <2>3, <4>2
      <4>3. CASE q = new
        BY <2>1, <2>2, <3>1, <3>2, <4>3
      <4>4. QED
        BY <2>1, <4>1, <4>2, <4>3
    <3>4. ASSUME NEW pair \in before, pair[2] \in IdsOf(cloud'), pair[1] \notin IdsOf(cloud')
          PROVE  /\ \A h \in Hosts : pair[1] \notin IdsOf(hot[h])
                 /\ \A t \in Syncs : pair[1] \notin IdsOf(sync[t].local) \cup IdsOf(sync[t].push)
      <4>1. CASE pair[2] \in IdsOf(cloud)
        BY <2>1, <3>4, <4>1 DEF OrderInv
      <4>2. CASE pair[2] = r.id
        <5>1. pair = <<pair[1], pair[2]>>
          BY DEF SyncInv, TypeOK
        <5>2. QED
          BY <2>1, <3>1, <3>4, <4>2, <5>1
      <4>3. QED
        BY <2>1, <3>4, <4>1, <4>2
    <3>5. QED
      BY <2>1, <3>3, <3>4
  <2>5. ASSUME r.id \in IdsOf(cloud)
        PROVE  Ordered
    BY <2>1, <2>5 DEF OrderInv, CloudOrder
  <2>6. Ordered
    BY <2>4, <2>5
  <2>7. ASSUME NEW rows, NEW h, PushOrder(rows), PushComplete(rows, h)
        PROVE  PushOrder(rows)' /\ PushComplete(rows, h)'
    BY <2>1, <2>7 DEF PushOrder, PushComplete
  <2>8. PushOrder(sync[s].push \ {r})'
    BY <1>s, <2>1 DEF PushOrder
  <2>9. ASSUME NEW pair \in before, pair[2] \in IdsOf(sync[s].push \ {r}),
               pair[1] \in IdsOf(hot[HostOf[s]]) \ IdsOf(cloud')
        PROVE  pair[1] \in IdsOf(sync[s].push \ {r})
    <3>1. pair[2] \in IdsOf(sync[s].push) /\ pair[1] \notin IdsOf(cloud) /\ pair[1] # r.id
      BY <2>1, <2>9 DEF IdsOf
    <3>2. pair[1] \in IdsOf(sync[s].push)
      BY <1>s, <2>9, <3>1 DEF PushComplete
    <3>3. QED
      BY <3>1, <3>2 DEF IdsOf
  <2>10. ASSUME NEW t \in Syncs
         PROVE  /\ PushOrder(sync[t].local)' /\ PushOrder(sync[t].push)'
                /\ PushComplete(sync[t].local, HostOf[t])' /\ PushComplete(sync[t].push, HostOf[t])'
    <3>1. CASE t = s
      <4>1. PushOrder(sync[t].push)' /\ PushComplete(sync[t].push, HostOf[t])'
        BY <2>1, <2>8, <2>9, <3>1 DEF PushOrder, PushComplete
      <4>2. PushOrder(sync[t].local)' /\ PushComplete(sync[t].local, HostOf[t])'
        BY <1>s, <2>1, <3>1 DEF PushOrder, PushComplete
      <4>3. QED
        BY <4>1, <4>2
    <3>2. CASE t # s
      BY <1>s, <2>1, <3>2 DEF PushOrder, PushComplete
    <3>3. QED
      BY <3>1, <3>2
  <2>11. \A h \in Hosts : PushOrder(hot[h])'
    BY <1>h, <2>1 DEF PushOrder
  <2>12. \A t \in Syncs : IdsOf(sync'[t].local) \cup IdsOf(sync'[t].push)
                            \subseteq IdsOf(sync[t].local) \cup IdsOf(sync[t].push)
    BY <2>1 DEF IdsOf
  <2>13. QED
    BY <2>1, <2>6, <2>10, <2>11, <2>12 DEF OrderInv
<1>8. QED
  BY <1>1, <1>2, <1>3, <1>4, <1>5, <1>6, <1>7 DEF Next, Step

(***************************************************************************)
(* The order of a host's own tables.                                       *)
(***************************************************************************)

\* What a step must keep that appends no event and inserts none in the cloud.
LEMMA ClosedMoves ==
    ASSUME ClosedInv, NEW s \in Syncs, \A t \in Syncs : HostOf[t] \in Hosts,
           UNCHANGED <<before, cloud>>,
           \A h \in Hosts \ {HostOf[s]} : Known(h)' = Known(h),
           Known(HostOf[s]) \subseteq Known(HostOf[s])',
           Known(HostOf[s])' \subseteq Known(HostOf[s]) \cup IdsOf(sync[s].pull),
           \/ Known(HostOf[s])' = Known(HostOf[s])
           \/ IdsOf(sync[s].pull) \subseteq Known(HostOf[s])',
           \A other \in Syncs \ {s} : sync'[other] = sync[other],
           \/ IdsOf(sync'[s].pull) = {}
           \/ IdsOf(cloud) \subseteq IdsOf(sync'[s].pull) \cup Known(HostOf[s])
    PROVE  ClosedInv'
<1>1. ASSUME NEW h \in Hosts, NEW pair \in before, pair[2] \in Known(h)', pair[1] \in IdsOf(cloud)
      PROVE  pair[1] \in Known(h)'
  <2>1. CASE h # HostOf[s] \/ pair[2] \in Known(h)
    BY <1>1, <2>1 DEF ClosedInv
  <2>2. CASE h = HostOf[s] /\ pair[2] \notin Known(h)
    <3>1. pair[2] \in IdsOf(sync[s].pull)
      BY <1>1, <2>2
    <3>2. pair[1] \in IdsOf(sync[s].pull) \cup Known(h)
      BY <1>1, <2>2, <3>1 DEF ClosedInv
    <3>3. QED
      BY <1>1, <2>2, <3>2
  <2>3. QED
    BY <2>1, <2>2
<1>2. ASSUME NEW t \in Syncs, NEW pair \in before, pair[2] \in IdsOf(sync'[t].pull),
             pair[1] \in IdsOf(cloud)
      PROVE  pair[1] \in IdsOf(sync'[t].pull) \cup Known(HostOf[t])'
  <2>1. Known(HostOf[t]) \subseteq Known(HostOf[t])'
    OBVIOUS
  <2>2. CASE t = s
    BY <1>2, <2>1, <2>2
  <2>3. CASE t # s
    BY <1>2, <2>1, <2>3 DEF ClosedInv
  <2>4. QED
    BY <2>2, <2>3
<1>3. QED
  BY <1>1, <1>2 DEF ClosedInv

LEMMA ClosedStep ==
    ASSUME OneSyncPerHost, SyncInv, OriginInv, OrderInv, ClosedInv, Next
    PROVE  ClosedInv'
<1>s. /\ \A s \in Syncs : HostOf[s] \in Hosts
      /\ \A s \in Syncs : IdsOf(sync[s].pull) \subseteq IdsOf(cloud)
      /\ IdsOf({}) = {}
  BY TypeFacts DEF SyncInv, KnownInv, IdsOf
<1>1. ASSUME NEW h \in Hosts, NEW id \in Ids, AppendEvent(h, id)
      PROVE  ClosedInv'
  <2>1. /\ before' = before \cup {<<a, id>> : a \in Known(h)} /\ UNCHANGED <<cloud, sync>>
        /\ id \notin Appended /\ Known(h)' = Known(h) \cup {id}
        /\ \A g \in Hosts \ {h} : Known(g)' = Known(g)
    BY <1>1, AppendFacts
  <2>2. /\ \A g \in Hosts : id \notin Known(g)
        /\ id \notin IdsOf(cloud) /\ \A s \in Syncs : id \notin IdsOf(sync[s].pull)
    BY <1>s, <2>1 DEF Appended, SyncInv, KnownInv
  <2>3. ASSUME NEW g \in Hosts, NEW pair \in before', pair[2] \in Known(g)', pair[1] \in IdsOf(cloud)
        PROVE  pair[1] \in Known(g)'
    <3>1. CASE pair \in before
      <4>1. pair[2] # id
        BY <2>1, <3>1 DEF SyncInv, KnownInv
      <4>2. QED
        BY <2>1, <2>3, <3>1, <4>1 DEF ClosedInv
    <3>2. CASE \E a \in Known(h) : pair = <<a, id>>
      BY <2>1, <2>2, <2>3, <3>2
    <3>3. QED
      BY <2>1, <3>1, <3>2
  <2>4. ASSUME NEW s \in Syncs, NEW pair \in before', pair[2] \in IdsOf(sync[s].pull),
               pair[1] \in IdsOf(cloud)
        PROVE  pair[1] \in IdsOf(sync[s].pull) \cup Known(HostOf[s])'
    <3>1. pair \in before
      BY <2>1, <2>2, <2>4
    <3>2. QED
      BY <1>s, <2>1, <2>4, <3>1 DEF ClosedInv
  <2>5. QED
    BY <2>1, <2>3, <2>4 DEF ClosedInv
<1>2. ASSUME NEW h \in Hosts, NEW cutoff, Archive(h, cutoff)
      PROVE  ClosedInv'
  BY <1>s, <1>2, ArchiveFacts DEF ClosedInv
<1>3. ASSUME NEW s \in Syncs, ReadLocal(s) \/ Abort(s)
      PROVE  ClosedInv'
  <2>1. /\ UNCHANGED <<hot, cold, cloud, before>> /\ sync'[s].pull = {}
        /\ \A other \in Syncs \ {s} : sync'[other] = sync[other]
    BY <1>3, ReadLocalFacts, AbortFacts, IdleFacts
  <2>2. \A h \in Hosts : Known(h)' = Known(h)
    BY <2>1 DEF Known
  <2>3. QED
    BY <1>s, <2>1, <2>2, ClosedMoves
<1>4. ASSUME NEW s \in Syncs, ReadCloud(s)
      PROVE  ClosedInv'
  <2>1. /\ UNCHANGED <<hot, cold, cloud, before>>
        /\ sync'[s].pull = {r \in cloud : r.id \notin IdsOf(sync[s].local)}
        /\ \A other \in Syncs \ {s} : sync'[other] = sync[other]
    BY <1>4, ReadCloudFacts
  <2>2. \A h \in Hosts : Known(h)' = Known(h)
    BY <2>1 DEF Known
  <2>3. IdsOf(sync[s].local) \subseteq Known(HostOf[s])
    BY DEF SyncInv, KnownInv
  <2>4. IdsOf(cloud) \subseteq IdsOf(sync'[s].pull) \cup Known(HostOf[s])
    BY <2>1, <2>3 DEF IdsOf
  <2>5. QED
    BY <1>s, <2>1, <2>2, <2>4, ClosedMoves
<1>5. ASSUME NEW s \in Syncs, PullEvents(s)
      PROVE  ClosedInv'
  <2> DEFINE h == HostOf[s]
             rows == sync[s].pull
  <2>1. /\ UNCHANGED <<cold, cloud, before>> /\ sync'[s] = Idle
        /\ \A other \in Syncs \ {s} : sync'[other] = sync[other]
        /\ \A g \in Hosts \ {h} : hot'[g] = hot[g]
        /\ hot'[h] = hot[h] \cup PulledRows(h, rows)
        /\ \A n \in PulledRows(h, rows) : \E r \in rows : r.id = n.id
        /\ \A r \in rows : r.id \in IdsOf(hot[h]) \/ 
                [seq |-> last[h] + PullPosition(rows, r), id |-> r.id] \in PulledRows(h, rows)
    BY <1>5, PullFacts
  <2>2. IdsOf(hot[h]) \subseteq IdsOf(hot'[h]) /\ IdsOf(hot'[h]) \subseteq IdsOf(hot[h]) \cup IdsOf(rows)
    BY <2>1 DEF IdsOf
  <2>3. IdsOf(rows) \subseteq IdsOf(hot'[h])
    <3> SUFFICES ASSUME NEW r \in rows
                 PROVE  r.id \in IdsOf(hot'[h])
      BY DEF IdsOf
    <3>1. CASE r.id \in IdsOf(hot[h])
      BY <2>2, <3>1
    <3>2. ASSUME NEW n \in hot'[h], n.id = r.id
          PROVE  r.id \in IdsOf(hot'[h])
      BY <3>2 DEF IdsOf
    <3>3. QED
      BY <2>1, <3>1, <3>2
  <2>4. \A g \in Hosts \ {h} : Known(g)' = Known(g)
    BY <2>1 DEF Known
  <2>5. /\ Known(h) \subseteq Known(h)' /\ Known(h)' \subseteq Known(h) \cup IdsOf(rows)
        /\ IdsOf(rows) \subseteq Known(h)'
    BY <2>1, <2>2, <2>3 DEF Known
  <2>6. sync'[s].pull = {}
    BY <2>1, IdleFacts
  <2> HIDE DEF h, rows
  <2>7. QED
    BY <1>s, <2>1, <2>4, <2>5, <2>6, ClosedMoves DEF h, rows
<1>6. ASSUME NEW s \in Syncs, NEW r \in sync[s].push, PushEvent(s, r)
      PROVE  ClosedInv'
  <2>1. /\ UNCHANGED <<hot, cold, before>> /\ IdsOf(cloud') = IdsOf(cloud) \cup {r.id}
        /\ \A t \in Syncs : sync'[t].pull = sync[t].pull
    BY <1>6, PushFacts
  <2>2. \A h \in Hosts : Known(h)' = Known(h)
    BY <2>1 DEF Known
  <2>3. r.id \in IdsOf(sync[s].push)
    BY DEF IdsOf
  \* An event of which the cloud has none yet is no cause of one that it has.
  <2>4. ASSUME r.id \notin IdsOf(cloud), NEW pair \in before, pair[1] = r.id
        PROVE  pair[2] \notin IdsOf(cloud)
    BY <2>3, <2>4 DEF OrderInv
  <2>5. ASSUME NEW h \in Hosts, NEW pair \in before, pair[2] \in Known(h),
               pair[1] \in IdsOf(cloud')
        PROVE  pair[1] \in Known(h)
    <3>1. CASE pair[1] \in IdsOf(cloud)
      BY <2>5, <3>1 DEF ClosedInv
    <3>2. CASE pair[1] \notin IdsOf(cloud)
      <4>1. pair[2] \in Known(h) \ IdsOf(cloud)
        BY <2>1, <2>4, <2>5, <3>2
      <4>2. QED
        BY <4>1 DEF OriginInv
    <3>3. QED
      BY <3>1, <3>2
  <2>6. ASSUME NEW t \in Syncs, NEW pair \in before, pair[2] \in IdsOf(sync[t].pull),
               pair[1] \in IdsOf(cloud')
        PROVE  pair[1] \in IdsOf(sync[t].pull) \cup Known(HostOf[t])
    <3>1. pair[2] \in IdsOf(cloud)
      BY <1>s, <2>6
    <3>2. pair[1] \in IdsOf(cloud)
      BY <2>1, <2>4, <2>6, <3>1
    <3>3. QED
      BY <2>6, <3>2 DEF ClosedInv
  <2>7. QED
    BY <1>s, <2>1, <2>2, <2>5, <2>6 DEF ClosedInv
<1>7. QED
  BY <1>1, <1>2, <1>3, <1>4, <1>5, <1>6 DEF Next, Step

LEMMA HostOrderStep ==
    ASSUME SyncInv, OrderInv, ClosedInv, HostOrder, Next
    PROVE  HostOrder'
<1>1. ASSUME NEW h \in Hosts, NEW id \in Ids, AppendEvent(h, id)
      PROVE  HostOrder'
  <2> DEFINE new == [seq |-> last[h] + 1, id |-> id]
  <2>1. /\ hot'[h] = hot[h] \cup {new}
        /\ \A g \in Hosts \ {h} : hot'[g] = hot[g]
        /\ before' = before \cup {<<a, id>> : a \in Known(h)} /\ UNCHANGED cold
        /\ id \notin Appended
    BY <1>1, AppendFacts
  <2>2. /\ new.id = id /\ new.seq = last[h] + 1 /\ last[h] \in Nat
        /\ \A q \in hot[h] : q.seq \in Nat /\ q.seq <= last[h]
    BY TypeFacts
  <2> HIDE DEF new
  <2>3. \A g \in Hosts : id \notin IdsOf(hot[g]) /\ id \notin cold[g]
    BY <2>1 DEF Appended, Known
  <2>4. \A a, b : <<a, b>> \in before' /\ b # id => <<a, b>> \in before
    BY <2>1
  <2>5. \A b : <<id, b>> \notin before'
    <3>1. \A b : <<id, b>> \notin before
      BY <2>1 DEF SyncInv, KnownInv
    <3>2. id \notin Known(h)
      BY <2>1 DEF Appended
    <3>3. QED
      BY <2>1, <3>1, <3>2
  <2>6. ASSUME NEW g \in Hosts, NEW q \in hot'[g], q.id \notin cold[g]
        PROVE  /\ \A r \in hot'[g] : <<q.id, r.id>> \in before' => q.seq < r.seq
               /\ \A c \in cold[g] : <<q.id, c>> \notin before'
    <3>1. CASE q.id = id
      BY <2>5, <3>1
    <3>2. CASE q.id # id
      <4>1. q \in hot[g]
        BY <2>1, <2>2, <3>2
      <4>2. ASSUME NEW r \in hot'[g], <<q.id, r.id>> \in before'
            PROVE  q.seq < r.seq
        <5>1. CASE r \in hot[g]
          <6>1. r.id # id
            BY <2>3, <5>1 DEF IdsOf
          <6>2. QED
            BY <2>4, <2>6, <4>1, <4>2, <5>1, <6>1 DEF HostOrder
        <5>2. CASE g = h /\ r = new
          BY <2>2, <4>1, <5>2
        <5>3. QED
          BY <2>1, <5>1, <5>2
      <4>3. ASSUME NEW c \in cold[g], <<q.id, c>> \in before'
            PROVE  FALSE
        BY <2>3, <2>4, <2>6, <4>1, <4>3 DEF HostOrder
      <4>4. QED
        BY <4>2, <4>3
    <3>3. QED
      BY <3>1, <3>2
  <2>7. QED
    BY <2>1, <2>6 DEF HostOrder
\* What stays hot has a sequence above the cutoff, and so above what is archived.
<1>2. ASSUME NEW h \in Hosts, NEW cutoff \in 1..last[h], Archive(h, cutoff)
      PROVE  HostOrder'
  <2> DEFINE rows == {r \in hot[h] : r.seq <= cutoff}
  <2>1. /\ hot'[h] = hot[h] \ rows /\ cold'[h] = cold[h] \cup IdsOf(rows)
        /\ \A g \in Hosts \ {h} : hot'[g] = hot[g] /\ cold'[g] = cold[g]
        /\ UNCHANGED before
    BY <1>2 DEF Archive, SyncInv, TypeOK
  <2>2. ASSUME NEW q \in hot'[h], q.id \notin cold'[h], NEW c \in IdsOf(rows),
               <<q.id, c>> \in before
        PROVE  FALSE
    <3>1. PICK r \in rows : r.id = c
      BY <2>2 DEF IdsOf
    <3>2. q.seq < r.seq
      BY <2>1, <2>2, <3>1 DEF HostOrder
    <3>3. /\ ~(q.seq <= cutoff) /\ r.seq <= cutoff
          /\ q.seq \in Nat /\ r.seq \in Nat /\ cutoff \in Int
      BY <2>1, <2>2, <3>1, TypeFacts
    <3>4. QED
      BY <3>2, <3>3
  <2> HIDE DEF rows
  <2>3. ASSUME NEW g \in Hosts, NEW q \in hot'[g], q.id \notin cold'[g]
        PROVE  /\ \A r \in hot'[g] : <<q.id, r.id>> \in before => q.seq < r.seq
               /\ \A c \in cold'[g] : <<q.id, c>> \notin before
    BY <2>1, <2>2, <2>3 DEF HostOrder
  <2>4. QED
    BY <2>1, <2>3 DEF HostOrder
<1>3. CASE UNCHANGED <<hot, cold, before>>
  BY <1>3 DEF HostOrder
\* What a pull brings that the host did not know is no cause of what it knew; and what it
\* brings is numbered in the order of the cloud.
<1>4. ASSUME NEW s \in Syncs, PullEvents(s)
      PROVE  HostOrder'
  <2> DEFINE h == HostOf[s]
             rows == sync[s].pull
             new == PulledRows(h, rows)
  <2>1. /\ hot'[h] = hot[h] \cup new
        /\ \A g \in Hosts \ {h} : hot'[g] = hot[g]
        /\ \A n \in new :
             /\ n \in Row /\ last[h] < n.seq
             /\ n.id \in IdsOf(cloud) /\ n.id \notin IdsOf(hot[h])
             /\ \E r \in rows : r.id = n.id /\ n.seq = last[h] + PullPosition(rows, r)
        /\ UNCHANGED <<cold, before>>
    BY <1>4, PullFacts
  <2>2. /\ h \in Hosts /\ last[h] \in Nat
        /\ \A q \in hot[h] : q.seq \in Nat /\ q.seq <= last[h]
    BY TypeFacts
  <2>3. /\ \A r \in rows : PullPosition(rows, r) \in Nat
        /\ \A q, r \in rows : q.seq < r.seq => PullPosition(rows, q) < PullPosition(rows, r)
        /\ rows \subseteq cloud
    <3>1. rows \subseteq cloud /\ IsFiniteSet(rows) /\ rows \subseteq Row
      BY TypeFacts, FS_Subset DEF SyncInv, KnownInv
    <3>2. QED
      BY <3>1, PullPositionFacts
  <2> HIDE DEF h, rows, new
  <2>4. ASSUME NEW n \in new, n.id \notin cold[h], NEW b \in Known(h), <<n.id, b>> \in before
        PROVE  FALSE
    <3>1. n.id \in Known(h)
      BY <2>1, <2>2, <2>4 DEF ClosedInv
    <3>2. QED
      BY <2>1, <2>4, <3>1 DEF Known
  <2>5. ASSUME NEW n \in new, NEW m \in new, <<n.id, m.id>> \in before
        PROVE  n.seq < m.seq
    <3>1. PICK q \in rows : q.id = n.id /\ n.seq = last[h] + PullPosition(rows, q)
      BY <2>1
    <3>2. PICK r \in rows : r.id = m.id /\ m.seq = last[h] + PullPosition(rows, r)
      BY <2>1
    <3>3. q.seq < r.seq
      BY <2>3, <2>5, <3>1, <3>2 DEF OrderInv, CloudOrder
    <3>4. QED
      BY <2>2, <2>3, <3>1, <3>2, <3>3
  <2>6. ASSUME NEW q \in hot'[h], q.id \notin cold[h]
        PROVE  /\ \A r \in hot'[h] : <<q.id, r.id>> \in before => q.seq < r.seq
               /\ \A c \in cold[h] : <<q.id, c>> \notin before
    <3>1. CASE q \in hot[h]
      <4>1. \A n \in new : q.seq < n.seq
        BY <2>1, <2>2, <3>1 DEF Row
      <4>2. QED
        BY <2>1, <2>2, <2>6, <3>1, <4>1 DEF HostOrder
    <3>2. CASE q \in new
      <4>1. \A r \in hot[h] : r.id \in Known(h)
        BY DEF Known, IdsOf
      <4>2. cold[h] \subseteq Known(h)
        BY DEF Known
      <4>3. QED
        BY <2>1, <2>4, <2>5, <2>6, <3>2, <4>1, <4>2
    <3>3. QED
      BY <2>1, <2>6, <3>1, <3>2
  <2>7. QED
    BY <2>1, <2>2, <2>6 DEF HostOrder
<1>5. ASSUME NEW s \in Syncs, Step(s) \/ Abort(s)
      PROVE  HostOrder'
  BY <1>3, <1>4, <1>5 DEF Step, ReadLocal, ReadCloud, PushEvent, Abort
<1>6. QED
  BY <1>1, <1>2, <1>5 DEF Next

(***************************************************************************)
(* The theorems.                                                           *)
(***************************************************************************)

LEMMA InitInv ==
    Init => SyncInv /\ CausalInv /\ OriginInv /\ OrderInv /\ ClosedInv /\ HostOrder
<1> SUFFICES ASSUME Init
             PROVE  SyncInv /\ CausalInv /\ OriginInv /\ OrderInv /\ ClosedInv /\ HostOrder
  OBVIOUS
<1>1. /\ \A h \in Hosts : hot[h] = {} /\ cold[h] = {} /\ Known(h) = {}
      /\ IdsOf({}) = {} /\ cloud = {} /\ before = {}
  BY DEF Init, Known, IdsOf
<1>2. \A s \in Syncs : sync[s].pc = "idle" /\ sync[s].local = {} /\ sync[s].push = {}
                       /\ sync[s].pull = {}
  BY IdleFacts DEF Init
<1>3. TypeOK
  BY IdleFacts, SyncAssumption DEF Init, TypeOK
<1>4. KnownInv
  BY <1>1, <1>2, FS_EmptySet DEF KnownInv
<1>5. CausalInv
  BY <1>1, <1>2 DEF CausalInv, CausalOrder, InCausalOrder, InOrderFor
<1>6. OriginInv
  BY <1>1 DEF OriginInv
<1>7. OrderInv
  BY <1>1, <1>2 DEF OrderInv, CloudOrder, PushOrder, PushComplete
<1>8. ClosedInv /\ HostOrder
  BY <1>1 DEF ClosedInv, HostOrder
<1>9. QED
  BY <1>3, <1>4, <1>5, <1>6, <1>7, <1>8 DEF SyncInv

LEMMA SyncInvariant == Spec => []SyncInv
<1>1. Init => SyncInv
  BY InitInv
<1>2. SyncInv /\ [Next]_vars => SyncInv'
  <2>1. SyncInv /\ UNCHANGED vars => SyncInv'
    BY DEF SyncInv, TypeOK, KnownInv, vars, Known, Appended
  <2>2. QED
    BY <2>1, SyncStep
<1>3. QED
  BY <1>1, <1>2, PTL DEF Spec

\* Every variable of runSync and of the stores keeps its type; in particular the rows a
\* pull inserts, numbered by their position among those it pulls, have positive sequences.
THEOREM SyncTypeCorrect == Spec => []TypeOK
<1>1. SyncInv => TypeOK
  BY DEF SyncInv
<1>2. QED
  BY <1>1, SyncInvariant, PTL

\* Where no host archives, every host's table and the cloud table hold each event after
\* all events known where it was appended, for any number of syncs per host, that overlap,
\* throw or die (the reads, pushes in sequence order and pulls in one transaction of
\* runSync).
THEOREM SyncCausalOrder == MaxSeq = 0 => (Spec => []CausalOrder)
<1> SUFFICES ASSUME MaxSeq = 0
             PROVE  Spec => []CausalOrder
  OBVIOUS
<1>1. Init => CausalInv
  BY InitInv
<1>2. SyncInv /\ CausalInv /\ [Next]_vars => CausalInv'
  <2>1. CausalInv /\ UNCHANGED vars => CausalInv'
    BY DEF CausalInv, CausalOrder, InCausalOrder, InOrderFor, vars
  <2>2. QED
    BY <2>1, CausalStep
<1>3. CausalInv => CausalOrder
  BY DEF CausalInv
<1>4. QED
  BY <1>1, <1>2, <1>3, SyncInvariant, PTL DEF Spec

LEMMA OrderInductive == OneSyncPerHost => (Spec => [](OriginInv /\ OrderInv))
<1> SUFFICES ASSUME OneSyncPerHost
             PROVE  Spec => [](OriginInv /\ OrderInv)
  OBVIOUS
<1>1. Init => OriginInv /\ OrderInv
  BY InitInv
<1>2. SyncInv /\ OriginInv /\ [Next]_vars => OriginInv'
  <2>1. OriginInv /\ UNCHANGED vars => OriginInv'
    BY DEF OriginInv, Known, vars
  <2>2. QED
    BY <2>1, OriginStep
<1>3. SyncInv /\ OriginInv /\ OrderInv /\ [Next]_vars => OrderInv'
  <2>1. OrderInv /\ UNCHANGED vars => OrderInv'
    BY DEF OrderInv, CloudOrder, PushOrder, PushComplete, vars
  <2>2. QED
    BY <2>1, OrderStep
<1>4. QED
  BY <1>1, <1>2, <1>3, SyncInvariant, PTL DEF Spec

\* Where no two syncs run on one host, the cloud table holds no event before one that its
\* author had seen, whatever the hosts archive, before a sync reads and while it pushes.
THEOREM SyncCloudOrder == OneSyncPerHost => (Spec => []CloudOrder)
<1> SUFFICES ASSUME OneSyncPerHost
             PROVE  Spec => []CloudOrder
  OBVIOUS
<1>1. OriginInv /\ OrderInv => CloudOrder
  BY DEF OrderInv
<1>2. QED
  BY <1>1, OrderInductive, PTL

\* Under the same condition a replay at any host, archived events before the hot rows,
\* meets no event before one that its author had seen and that has not been archived:
\* a pull numbers what it brings after all that follows from it, and an archive run
\* leaves no cause behind of what it takes away.
THEOREM SyncHostOrder == OneSyncPerHost => (Spec => []HostOrder)
<1> SUFFICES ASSUME OneSyncPerHost
             PROVE  Spec => []HostOrder
  OBVIOUS
<1>1. Init => ClosedInv /\ HostOrder
  BY InitInv
<1>2. SyncInv /\ OriginInv /\ OrderInv /\ ClosedInv /\ [Next]_vars => ClosedInv'
  <2>1. ClosedInv /\ UNCHANGED vars => ClosedInv'
    BY DEF ClosedInv, Known, vars
  <2>2. QED
    BY <2>1, ClosedStep
<1>3. SyncInv /\ OrderInv /\ ClosedInv /\ HostOrder /\ [Next]_vars => HostOrder'
  <2>1. HostOrder /\ UNCHANGED vars => HostOrder'
    BY DEF HostOrder, vars
  <2>2. QED
    BY <2>1, HostOrderStep
<1>4. QED
  BY <1>1, <1>2, <1>3, SyncInvariant, OrderInductive, PTL DEF Spec
=============================================================================

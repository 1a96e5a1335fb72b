--------------------------- MODULE AgentRunProofs ---------------------------
(***************************************************************************)
(* Proofs about AgentRun: its invariants hold for every number of          *)
(* processes, calls, paths and faults, however the calls of a process      *)
(* nest and overlap.                                                       *)
(***************************************************************************)
EXTENDS AgentRun, TLAPS, FiniteSetTheorems, SequenceTheorems

(***************************************************************************)
(* What a step does to the calls.                                          *)
(***************************************************************************)

Pcs == {"new", "handler", "file", "record", "fanout", "tick", "ended", "dead"}

Others(r) == \A s \in Runs \ {r} : run'[s] = run[s]

\* The call goes on: what it has found out by now is this.
Moves(r, pc, path, window, upto, faulty) ==
    /\ run' \in [Runs -> Call] /\ Others(r)
    /\ run'[r].pc = pc /\ run'[r].proc = run[r].proc /\ run'[r].parent = run[r].parent
    /\ run'[r].kind = run[r].kind /\ run'[r].outer = run[r].outer
    /\ run'[r].installed = run[r].installed /\ run'[r].before = run[r].before
    /\ run'[r].since = run[r].since /\ run'[r].path = path /\ run'[r].window = window
    /\ run'[r].upto = upto /\ run'[r].faulty = faulty

\* The call is over.
Leaves(r, pc, faulty) ==
    /\ run'[r].pc = pc /\ run'[r].proc = run[r].proc /\ run'[r].parent = NoRun
    /\ run'[r].since \in {0, run[r].since} /\ run'[r].upto \in {0, run[r].upto}
    /\ run[r].path # NoPath => run'[r].since = run[r].since /\ run'[r].upto = run[r].upto
    /\ run'[r].path = run[r].path /\ run'[r].faulty = faulty

Ends(r, faulty) == run' \in [Runs -> Call] /\ Others(r) /\ Leaves(r, "ended", faulty)

LEMMA NotBegunIsCall == NotBegun \in Call
BY DEF NotBegun, Call, Kinds

LEMMA OverFacts ==
    ASSUME run \in [Runs -> Call], NEW r \in Runs, NEW pc \in Pcs, NEW faulty \in BOOLEAN
    PROVE  /\ Over(r, pc, faulty) \in Call
           /\ Over(r, pc, faulty).pc = pc /\ Over(r, pc, faulty).proc = run[r].proc
           /\ Over(r, pc, faulty).parent = NoRun
           /\ Over(r, pc, faulty).since \in {0, run[r].since}
           /\ Over(r, pc, faulty).upto \in {0, run[r].upto}
           /\ run[r].path # NoPath => /\ Over(r, pc, faulty).since = run[r].since
                                     /\ Over(r, pc, faulty).upto = run[r].upto
           /\ Over(r, pc, faulty).path = run[r].path
           /\ Over(r, pc, faulty).faulty = faulty
BY DEF Over, NotBegun, Call, Pcs, Kinds

LEMMA Becomes ==
    ASSUME run \in [Runs -> Call], NEW r \in Runs, NEW next \in Call,
           run' = [run EXCEPT ![r] = next]
    PROVE  run' \in [Runs -> Call] /\ Others(r) /\ run'[r] = next
BY DEF Others

LEMMA GoesOver ==
    ASSUME run \in [Runs -> Call], NEW r \in Runs, NEW faulty \in BOOLEAN,
           run' = [run EXCEPT ![r] = Over(r, "ended", faulty)]
    PROVE  Ends(r, faulty)
<1>1. "ended" \in Pcs
  BY DEF Pcs
<1>2. run' \in [Runs -> Call] /\ Others(r) /\ run'[r] = Over(r, "ended", faulty)
  BY <1>1, OverFacts, Becomes
<1>3. Leaves(r, "ended", faulty)
  BY <1>1, <1>2, OverFacts DEF Leaves
<1>4. QED
  BY <1>2, <1>3 DEF Ends

LEMMA Goes ==
    ASSUME run \in [Runs -> Call], NEW r \in Runs, NEW pc \in Pcs,
           run' = [run EXCEPT ![r].pc = pc]
    PROVE  Moves(r, pc, run[r].path, run[r].window, run[r].upto, run[r].faulty)
BY DEF Moves, Others, Call, Pcs

\* The call with what it has found out.
Known(c, pc, path, window, upto, faulty) ==
    [c EXCEPT !.pc = pc, !.path = path, !.window = window, !.upto = upto, !.faulty = faulty]

LEMMA KnownFacts ==
    ASSUME NEW c \in Call, NEW pc \in Pcs, NEW path \in Paths \cup {NoPath},
           NEW window \in SUBSET Nat, NEW upto \in Nat, NEW faulty \in BOOLEAN,
           NEW next, next = Known(c, pc, path, window, upto, faulty)
    PROVE  /\ next \in Call
           /\ next.pc = pc /\ next.path = path /\ next.window = window
           /\ next.upto = upto /\ next.faulty = faulty
           /\ next.proc = c.proc /\ next.parent = c.parent /\ next.kind = c.kind
           /\ next.outer = c.outer /\ next.installed = c.installed
           /\ next.before = c.before /\ next.since = c.since
<1> DEFINE called == [c EXCEPT !.pc = pc, !.path = path]
           seen == [called EXCEPT !.window = window, !.upto = upto]
           final == [seen EXCEPT !.faulty = faulty]
<1>1. /\ called \in Call
      /\ called.pc = pc /\ called.path = path
      /\ called.proc = c.proc /\ called.parent = c.parent /\ called.kind = c.kind
      /\ called.outer = c.outer /\ called.installed = c.installed
      /\ called.before = c.before /\ called.since = c.since
  BY DEF Call, Pcs
<1> HIDE DEF called
<1>2. /\ seen \in Call
      /\ seen.pc = pc /\ seen.path = path /\ seen.window = window /\ seen.upto = upto
      /\ seen.proc = c.proc /\ seen.parent = c.parent /\ seen.kind = c.kind
      /\ seen.outer = c.outer /\ seen.installed = c.installed
      /\ seen.before = c.before /\ seen.since = c.since
  BY <1>1 DEF Call
<1> HIDE DEF seen
<1>3. /\ final \in Call
      /\ final.pc = pc /\ final.path = path /\ final.window = window /\ final.upto = upto
      /\ final.faulty = faulty
      /\ final.proc = c.proc /\ final.parent = c.parent /\ final.kind = c.kind
      /\ final.outer = c.outer /\ final.installed = c.installed
      /\ final.before = c.before /\ final.since = c.since
  BY <1>2 DEF Call
<1>4. final = next
  BY DEF seen, called, Known
<1>5. QED
  BY <1>3, <1>4

LEMMA GoesKnown ==
    ASSUME run \in [Runs -> Call], NEW r \in Runs, NEW pc \in Pcs, NEW faulty \in BOOLEAN,
           NEW path \in Paths \cup {NoPath}, NEW window \in SUBSET Nat, NEW upto \in Nat,
           run' = [run EXCEPT ![r] = Known(run[r], pc, path, window, upto, faulty)]
    PROVE  Moves(r, pc, path, window, upto, faulty)
<1> DEFINE next == Known(run[r], pc, path, window, upto, faulty)
<1>1. run[r] \in Call /\ next = Known(run[r], pc, path, window, upto, faulty)
  OBVIOUS
<1>2. run' = [run EXCEPT ![r] = next]
  OBVIOUS
<1> HIDE DEF next
<1>3. /\ next \in Call /\ next.pc = pc /\ next.proc = run[r].proc
      /\ next.parent = run[r].parent
      /\ next.kind = run[r].kind /\ next.outer = run[r].outer
      /\ next.installed = run[r].installed /\ next.before = run[r].before
      /\ next.since = run[r].since /\ next.path = path /\ next.window = window
      /\ next.upto = upto /\ next.faulty = faulty
  BY <1>1, KnownFacts
<1>4. run' \in [Runs -> Call] /\ Others(r) /\ run'[r] = next
  BY <1>3, <1>2, Becomes
<1>5. QED
  BY <1>3, <1>4 DEF Moves

LEMMA GoesReturned ==
    ASSUME run \in [Runs -> Call], NEW r \in Runs, NEW pc \in Pcs, NEW faulty \in BOOLEAN,
           NEW path \in Paths \cup {NoPath}, NEW window \in SUBSET Nat, NEW upto \in Nat,
           run' = [run EXCEPT ![r] = [@ EXCEPT !.pc = pc, !.path = path, !.window = window,
                                              !.upto = upto, !.faulty = faulty]]
    PROVE  Moves(r, pc, path, window, upto, faulty)
<1>1. run' = [run EXCEPT ![r] = Known(run[r], pc, path, window, upto, faulty)]
  BY DEF Known
<1>2. QED
  BY <1>1, GoesKnown

LEMMA GoesWindow ==
    ASSUME run \in [Runs -> Call], NEW r \in Runs, NEW pc \in Pcs,
           run' = [run EXCEPT ![r].pc = pc, ![r].window = {}]
    PROVE  Moves(r, pc, run[r].path, {}, run[r].upto, run[r].faulty)
<1>1. run' = [run EXCEPT ![r] = Known(run[r], pc, run[r].path, {}, run[r].upto,
                                     run[r].faulty)]
  BY DEF Known, Call
<1>2. /\ run[r].path \in Paths \cup {NoPath} /\ run[r].window \in SUBSET Nat
      /\ run[r].upto \in Nat /\ run[r].faulty \in BOOLEAN
  BY DEF Call
<1>3. QED
  BY <1>1, <1>2, GoesKnown

LEMMA GoesFaulty ==
    ASSUME run \in [Runs -> Call], NEW r \in Runs, NEW pc \in Pcs, NEW faulty \in BOOLEAN,
           run' = [run EXCEPT ![r].pc = pc, ![r].faulty = faulty]
    PROVE  Moves(r, pc, run[r].path, run[r].window, run[r].upto, faulty)
<1>1. run' = [run EXCEPT ![r] = Known(run[r], pc, run[r].path, run[r].window,
                                     run[r].upto, faulty)]
  BY DEF Known, Call
<1>2. /\ run[r].path \in Paths \cup {NoPath} /\ run[r].window \in SUBSET Nat
      /\ run[r].upto \in Nat /\ run[r].faulty \in BOOLEAN
  BY DEF Call
<1>3. QED
  BY <1>1, <1>2, GoesKnown

(***************************************************************************)
(* What each action does.                                                  *)
(***************************************************************************)

HostUnchanged == depth' = depth /\ wrapped' = wrapped /\ cwd' = cwd

Filed(doc) == records' = Append(records, doc) /\ archived' = archived

\* No record is filed; the archive may have grown.
Unfiled ==
    /\ records' = records
    /\ archived \subseteq archived' /\ archived' \subseteq 1..Len(records)

LEMMA BeginFacts ==
    ASSUME CallInv, NEW r \in Runs, NEW p \in Procs, NEW parent \in Runs \cup {NoRun},
           NEW kind \in Kinds, NEW emitted \in BOOLEAN, NEW installed \in BOOLEAN,
           Begin(r, p, parent, kind, emitted, installed)
    PROVE  /\ run[r].pc = "new" /\ MayBegin(p, parent, kind)
           /\ \A s \in ActiveIn(p) : run[s].pc \in {"handler", "tick"}
           /\ lifecycle' = [lifecycle EXCEPT ![r] = IF emitted THEN <<"started">> ELSE << >>]
           /\ depth' = [depth EXCEPT ![p] = IF depth[p] = 0 THEN 1 ELSE depth[p] + 1]
           /\ wrapped' = [wrapped EXCEPT ![p] = wrapped[p] \/ (depth[p] = 0 /\ installed)]
           /\ cwd' = [cwd EXCEPT ![p] = IF depth[p] = 0 /\ installed THEN "root" ELSE cwd[p]]
           /\ run' \in [Runs -> Call] /\ Others(r)
           /\ run'[r].pc = "handler" /\ run'[r].proc = p /\ run'[r].parent = parent
           /\ run'[r].outer = (depth[p] = 0)
           /\ run'[r].installed = (depth[p] = 0 /\ installed)
           /\ depth[p] = 0 => run'[r].before = cwd[p] /\ p \notin Relative
           /\ run'[r].since = Len(records)
           /\ run'[r].upto = 0 /\ run'[r].path = NoPath /\ run'[r].faulty = (~ emitted)
           /\ Unfiled /\ leaked' = leaked
<1> DEFINE outer == depth[p] = 0
           inst == outer /\ installed
           faulty == ~ emitted
           before == IF outer THEN cwd[p] ELSE "host"
           next == [NotBegun EXCEPT !.pc = "handler", !.proc = p, !.parent = parent,
                                    !.kind = kind, !.outer = outer, !.installed = inst,
                                    !.before = before, !.since = Len(records),
                                    !.faulty = faulty]
<1>1. run \in [Runs -> Call] /\ cwd[p] \in {"host", "root"} /\ Len(records) \in Nat
  BY DEF CallInv
<1>2. run' = [run EXCEPT ![r] = next]
  BY DEF Begin
<1>3. /\ outer \in BOOLEAN /\ inst \in BOOLEAN /\ faulty \in BOOLEAN
      /\ before \in {"host", "root"}
  BY <1>1
<1>4. /\ outer = (depth[p] = 0) /\ inst = (depth[p] = 0 /\ installed) /\ faulty = (~ emitted)
      /\ depth[p] = 0 => before = cwd[p]
  OBVIOUS
<1> HIDE DEF outer, inst, faulty, before
<1>5. /\ next \in Call
      /\ next.pc = "handler" /\ next.proc = p /\ next.parent = parent
      /\ next.outer = outer /\ next.installed = inst
      /\ next.before = before /\ next.since = Len(records) /\ next.upto = 0
      /\ next.path = NoPath /\ next.faulty = faulty
  BY <1>1, <1>3 DEF NotBegun, Call, Kinds
<1> HIDE DEF next
<1>6. run' \in [Runs -> Call] /\ Others(r) /\ run'[r] = next
  BY <1>1, <1>2, <1>5, Becomes
<1>7. /\ run[r].pc = "new" /\ MayBegin(p, parent, kind)
      /\ \A s \in ActiveIn(p) : run[s].pc \in {"handler", "tick"}
      /\ lifecycle' = [lifecycle EXCEPT ![r] = IF emitted THEN <<"started">> ELSE << >>]
      /\ depth' = [depth EXCEPT ![p] = IF depth[p] = 0 THEN 1 ELSE depth[p] + 1]
      /\ wrapped' = [wrapped EXCEPT ![p] = wrapped[p] \/ (depth[p] = 0 /\ installed)]
      /\ cwd' = [cwd EXCEPT ![p] = IF depth[p] = 0 /\ installed THEN "root" ELSE cwd[p]]
      /\ Unfiled /\ leaked' = leaked
      /\ depth[p] = 0 => p \notin Relative
  BY DEF Begin, Unfiled, CallInv
<1>8. QED
  BY <1>4, <1>5, <1>6, <1>7

LEMMA RefusedFacts ==
    ASSUME CallInv, NEW r \in Runs, NEW p \in Procs, NEW kind \in Kinds,
           NEW emitted \in BOOLEAN, Refused(r, p, kind, emitted)
    PROVE  /\ run[r].pc = "new" /\ p \in Relative
           /\ lifecycle' = [lifecycle EXCEPT ![r] = IF emitted THEN <<"started">> ELSE << >>]
           /\ HostUnchanged /\ Unfiled /\ leaked' = leaked
           /\ run' \in [Runs -> Call] /\ Others(r)
           /\ run'[r].pc = "ended" /\ run'[r].proc = p
           /\ run'[r].since = 0 /\ run'[r].upto = 0 /\ run'[r].path = NoPath
           /\ run'[r].faulty = (~ emitted)
<1> DEFINE faulty == ~ emitted
           next == [NotBegun EXCEPT !.pc = "ended", !.proc = p, !.faulty = faulty]
<1>1. run \in [Runs -> Call] /\ faulty \in BOOLEAN
  BY DEF CallInv
<1>2. run' = [run EXCEPT ![r] = next]
  BY DEF Refused
<1>3. faulty = (~ emitted)
  OBVIOUS
<1> HIDE DEF faulty
<1>4. /\ next \in Call /\ next.pc = "ended" /\ next.proc = p /\ next.since = 0
      /\ next.upto = 0 /\ next.path = NoPath /\ next.faulty = faulty
  BY <1>1 DEF NotBegun, Call, Kinds
<1> HIDE DEF next
<1>5. run' \in [Runs -> Call] /\ Others(r) /\ run'[r] = next
  BY <1>1, <1>2, <1>4, Becomes
<1>6. /\ run[r].pc = "new" /\ p \in Relative
      /\ lifecycle' = [lifecycle EXCEPT ![r] = IF emitted THEN <<"started">> ELSE << >>]
      /\ HostUnchanged /\ Unfiled /\ leaked' = leaked
  BY DEF Refused, HostUnchanged, Unfiled, CallInv
<1>7. QED
  BY <1>3, <1>4, <1>5, <1>6

LEMMA ArchiveFacts ==
    ASSUME CallInv, NEW n \in 1..Len(records), Archive(n)
    PROVE  /\ Unfiled /\ run' = run /\ lifecycle' = lifecycle /\ leaked' = leaked
           /\ HostUnchanged
BY DEF Archive, Hot, Unfiled, CallInv, Host, HostUnchanged

LEMMA SelfFileFacts ==
    ASSUME NEW r \in Runs, NEW register \in Registers, NEW path \in Paths,
           SelfFile(r, register, path)
    PROVE  /\ run[r].pc = "handler" /\ Scheduled(r)
           /\ Filed(Document("own", r, register, path))
           /\ run' = run /\ lifecycle' = lifecycle /\ leaked' = leaked /\ HostUnchanged
BY DEF SelfFile, Filed, Host, HostUnchanged

LEMMA ThrowsFacts ==
    ASSUME CallInv, NEW r \in Runs, NEW ok \in BOOLEAN, Throws(r, ok)
    PROVE  /\ run[r].pc = "handler" /\ RestoreWorker(r) /\ leaked' = leaked
           /\ Unfiled
           /\ lifecycle' = IF ok THEN [lifecycle EXCEPT ![r] = Append(@, "failed")]
                           ELSE lifecycle
           /\ Ends(r, run[r].faulty \/ ~ ok)
<1> DEFINE faulty == run[r].faulty \/ ~ ok
<1>1. run \in [Runs -> Call] /\ faulty \in BOOLEAN
  BY DEF CallInv
<1>2. run' = [run EXCEPT ![r] = Over(r, "ended", faulty)]
  BY DEF Throws
<1> HIDE DEF faulty
<1>3. Ends(r, faulty)
  BY <1>1, <1>2, GoesOver
<1>4. QED
  BY <1>3 DEF Throws, Emit, faulty, Unfiled, CallInv

LEMMA StoreThrowsFacts ==
    ASSUME CallInv, NEW r \in Runs, StoreThrows(r)
    PROVE  /\ run[r].pc \in {"handler", "fanout"} /\ leaked' = leaked \cup {run[r].proc}
           /\ Unfiled /\ lifecycle' = lifecycle /\ HostUnchanged
           /\ Ends(r, TRUE)
<1>1. run \in [Runs -> Call]
  BY DEF CallInv
<1>2. run' = [run EXCEPT ![r] = Over(r, "ended", TRUE)]
  BY DEF StoreThrows
<1>3. Ends(r, TRUE)
  BY <1>1, <1>2, GoesOver
<1>4. QED
  BY <1>3 DEF StoreThrows, Host, HostUnchanged, Unfiled, CallInv

LEMMA EndFacts ==
    ASSUME CallInv, NEW r \in Runs, End(r)
    PROVE  /\ run[r].pc = "tick" /\ RestoreWorker(r) /\ leaked' = leaked
           /\ Children(r) = {}
           /\ Unfiled /\ lifecycle' = lifecycle
           /\ Ends(r, run[r].faulty)
<1>1. run \in [Runs -> Call] /\ run[r].faulty \in BOOLEAN
  BY DEF CallInv, Call
<1>2. run' = [run EXCEPT ![r] = Over(r, "ended", run[r].faulty)]
  BY DEF End
<1>3. Ends(r, run[r].faulty)
  BY <1>1, <1>2, GoesOver
<1>4. QED
  BY <1>3 DEF End, Unfiled, CallInv

LEMMA ReturnsFacts ==
    ASSUME CallInv, NEW r \in Runs, NEW path \in Paths \cup {NoPath}, NEW ok \in BOOLEAN,
           Returns(r, path, ok)
    PROVE  /\ run[r].pc = "handler" /\ Scheduled(r) /\ HostUnchanged /\ leaked' = leaked
           /\ Unfiled
           /\ lifecycle' = IF ok THEN [lifecycle EXCEPT ![r] = Append(@, "completed")]
                           ELSE lifecycle
           /\ Moves(r, IF path = NoPath THEN "fanout" ELSE "file", path, RunWindow(r),
                    Len(records), run[r].faulty \/ ~ ok)
<1> DEFINE faulty == run[r].faulty \/ ~ ok
           pc == IF path = NoPath THEN "fanout" ELSE "file"
           window == RunWindow(r)
<1>1. /\ run \in [Runs -> Call] /\ faulty \in BOOLEAN /\ pc \in Pcs
      /\ Len(records) \in Nat /\ run[r].since \in Nat
  BY DEF CallInv, Call, Pcs
<1>2. window \in SUBSET Nat
  BY <1>1 DEF RunWindow, Hot
<1>3. run' = [run EXCEPT ![r] = [@ EXCEPT !.pc = pc, !.path = path, !.window = window,
                                         !.upto = Len(records), !.faulty = faulty]]
  BY DEF Returns
<1> HIDE DEF faulty, pc, window
<1>4. Moves(r, pc, path, window, Len(records), faulty)
  BY <1>1, <1>2, <1>3, GoesReturned
<1>5. QED
  BY <1>4 DEF Returns, Emit, Host, HostUnchanged, faulty, pc, window, Unfiled, CallInv

\* What record-deliverable.ts sees of earlier records.
LooksFiled(r) ==
    (\E n \in run[r].window : SelfFiled(n, run[r].path)) \/ run[r].path \in PriorPaths

LEMMA FileFacts ==
    ASSUME CallInv, NEW r \in Runs, File(r)
    PROVE  /\ run[r].pc = "file" /\ HostUnchanged /\ leaked' = leaked
           /\ Unfiled /\ lifecycle' = lifecycle
           /\ Moves(r, IF LooksFiled(r) THEN "fanout" ELSE "record",
                    run[r].path, {}, run[r].upto, run[r].faulty)
<1> DEFINE pc == IF LooksFiled(r) THEN "fanout" ELSE "record"
<1>1. run \in [Runs -> Call] /\ pc \in Pcs
  BY DEF CallInv, Pcs
<1>2. run' = [run EXCEPT ![r].pc = pc, ![r].window = {}]
  BY DEF File, LooksFiled
<1> HIDE DEF pc
<1>3. Moves(r, pc, run[r].path, {}, run[r].upto, run[r].faulty)
  BY <1>1, <1>2, GoesWindow
<1>4. QED
  BY <1>3 DEF File, Host, HostUnchanged, pc, Unfiled, CallInv

LEMMA RecordFacts ==
    ASSUME CallInv, NEW r \in Runs, NEW ok \in BOOLEAN, Record(r, ok)
    PROVE  /\ run[r].pc = "record" /\ HostUnchanged /\ leaked' = leaked
           /\ lifecycle' = lifecycle
           /\ IF ok THEN Filed(Document("central", r, "documents", run[r].path)) ELSE Unfiled
           /\ Moves(r, "fanout", run[r].path, run[r].window, run[r].upto,
                    run[r].faulty \/ ~ ok)
<1> DEFINE faulty == run[r].faulty \/ ~ ok
<1>1. run \in [Runs -> Call] /\ faulty \in BOOLEAN /\ "fanout" \in Pcs
  BY DEF CallInv, Pcs
<1>2. run' = [run EXCEPT ![r].pc = "fanout", ![r].faulty = faulty]
  BY DEF Record
<1> HIDE DEF faulty
<1>3. Moves(r, "fanout", run[r].path, run[r].window, run[r].upto, faulty)
  BY <1>1, <1>2, GoesFaulty
<1>4. QED
  BY <1>3 DEF Record, Filed, Host, HostUnchanged, faulty, Unfiled, CallInv

LEMMA FanoutFacts ==
    ASSUME CallInv, NEW r \in Runs, Fanout(r)
    PROVE  /\ run[r].pc = "fanout" /\ HostUnchanged /\ leaked' = leaked
           /\ Unfiled /\ lifecycle' = lifecycle
           /\ Moves(r, "tick", run[r].path, run[r].window, run[r].upto, run[r].faulty)
<1>1. run \in [Runs -> Call] /\ "tick" \in Pcs
  BY DEF CallInv, Pcs
<1>2. Moves(r, "tick", run[r].path, run[r].window, run[r].upto, run[r].faulty)
  BY <1>1, Goes DEF Fanout
<1>3. QED
  BY <1>2 DEF Fanout, Host, HostUnchanged, Unfiled, CallInv

LEMMA CrashFacts ==
    ASSUME CallInv, NEW p \in Procs, Crash(p)
    PROVE  /\ run' \in [Runs -> Call]
           /\ \A r \in Runs : IF r \in ActiveIn(p) THEN Leaves(r, "dead", TRUE)
                              ELSE run'[r] = run[r]
           /\ depth' = [depth EXCEPT ![p] = 0] /\ wrapped' = [wrapped EXCEPT ![p] = FALSE]
           /\ cwd' = [cwd EXCEPT ![p] = "host"] /\ leaked' = leaked \ {p}
           /\ Unfiled /\ lifecycle' = lifecycle
<1> DEFINE faulty == TRUE
<1>1. run \in [Runs -> Call] /\ "dead" \in Pcs /\ faulty \in BOOLEAN
  BY DEF CallInv, Pcs
<1>2. run' = [r \in Runs |-> IF r \in ActiveIn(p) THEN Over(r, "dead", faulty) ELSE run[r]]
  BY DEF Crash
<1> HIDE DEF faulty
<1>3. \A r \in Runs : Over(r, "dead", faulty) \in Call
  BY <1>1, OverFacts
<1>4. run' \in [Runs -> Call]
  BY <1>1, <1>2, <1>3
<1>5. ASSUME NEW r \in Runs
      PROVE  IF r \in ActiveIn(p) THEN Leaves(r, "dead", faulty) ELSE run'[r] = run[r]
  <2>1. CASE r \in ActiveIn(p)
    <3>1. run'[r] = Over(r, "dead", faulty)
      BY <1>2, <2>1
    <3>2. Leaves(r, "dead", faulty)
      BY <1>1, <3>1, OverFacts DEF Leaves
    <3>3. QED
      BY <2>1, <3>2
  <2>2. CASE r \notin ActiveIn(p)
    BY <1>2, <2>2
  <2>3. QED
    BY <2>1, <2>2
<1>6. QED
  BY <1>4, <1>5 DEF Crash, faulty, Unfiled, CallInv

(***************************************************************************)
(* The active calls and the host process: five kinds of steps.             *)
(***************************************************************************)

Same(s) ==
    /\ Active(s)' <=> Active(s)
    /\ Active(s) => /\ run'[s].proc = run[s].proc /\ run'[s].outer = run[s].outer
                    /\ run'[s].installed = run[s].installed
                    /\ run'[s].before = run[s].before

\* Calls go on.
Stays == (\A s \in Runs : Same(s)) /\ HostUnchanged /\ leaked' = leaked

\* A call begins.
Enters(r, p, installed) ==
    /\ ~ Active(r) /\ Active(r)' /\ run'[r].proc = p
    /\ \A s \in Runs \ {r} : Same(s)
    /\ depth' = [depth EXCEPT ![p] = IF depth[p] = 0 THEN 1 ELSE depth[p] + 1]
    /\ wrapped' = [wrapped EXCEPT ![p] = wrapped[p] \/ (depth[p] = 0 /\ installed)]
    /\ cwd' = [cwd EXCEPT ![p] = IF depth[p] = 0 /\ installed THEN "root" ELSE cwd[p]]
    /\ run'[r].outer = (depth[p] = 0)
    /\ run'[r].installed = (depth[p] = 0 /\ installed)
    /\ depth[p] = 0 => run'[r].before = cwd[p] /\ p \notin Relative
    /\ leaked' = leaked

Out(r) == Active(r) /\ ~ Active(r)' /\ \A s \in Runs \ {r} : Same(s)

\* A call ends or throws and restores the worker; or throws past that.
Exits(r) == Out(r) /\ RestoreWorker(r) /\ leaked' = leaked

Slips(r) == Out(r) /\ HostUnchanged /\ leaked' = leaked \cup {run[r].proc}

\* A process dies.
Dies(p) ==
    /\ \A s \in Runs : IF s \in ActiveIn(p) THEN ~ Active(s)' ELSE Same(s)
    /\ depth' = [depth EXCEPT ![p] = 0] /\ wrapped' = [wrapped EXCEPT ![p] = FALSE]
    /\ cwd' = [cwd EXCEPT ![p] = "host"] /\ leaked' = leaked \ {p}

LEMMA StaysSame ==
    ASSUME run' = run
    PROVE  \A s \in Runs : Same(s)
BY DEF Same, Active

LEMMA MovesSame ==
    ASSUME NEW r \in Runs, NEW pc, NEW path, NEW window, NEW upto, NEW faulty,
           Moves(r, pc, path, window, upto, faulty), Active(r),
           pc \in {"file", "record", "fanout", "tick"}
    PROVE  \A s \in Runs : Same(s)
BY DEF Moves, Others, Same, Active

LEMMA EndsOut ==
    ASSUME NEW r \in Runs, NEW faulty, Ends(r, faulty), Active(r)
    PROVE  Out(r)
BY DEF Ends, Leaves, Others, Same, Active, Out

LEMMA Shapes ==
    ASSUME CallInv, Next
    PROVE  \/ Stays
           \/ \E r \in Runs, p \in Procs, installed \in BOOLEAN : Enters(r, p, installed)
           \/ \E r \in Runs : Exits(r) \/ Slips(r)
           \/ \E p \in Procs : Dies(p)
<1>1. ASSUME NEW r \in Runs, NEW p \in Procs, NEW parent \in Runs \cup {NoRun},
             NEW kind \in Kinds, NEW emitted \in BOOLEAN, NEW installed \in BOOLEAN,
             Begin(r, p, parent, kind, emitted, installed)
      PROVE  Enters(r, p, installed)
  <2>1. ~ Active(r) /\ Active(r)' /\ \A s \in Runs \ {r} : Same(s)
    BY <1>1, BeginFacts DEF Active, Others, Same
  <2>2. QED
    BY <1>1, <2>1, BeginFacts DEF Enters
<1>2. ASSUME NEW r \in Runs, NEW register \in Registers, NEW path \in Paths,
             SelfFile(r, register, path)
      PROVE  Stays
  BY <1>2, SelfFileFacts, StaysSame DEF Stays
<1>3. ASSUME NEW r \in Runs, NEW ok \in BOOLEAN, Throws(r, ok)
      PROVE  Exits(r)
  BY <1>3, ThrowsFacts, EndsOut DEF Exits, Active
<1>4. ASSUME NEW r \in Runs, StoreThrows(r)
      PROVE  Slips(r)
  BY <1>4, StoreThrowsFacts, EndsOut DEF Slips, Active
<1>5. ASSUME NEW r \in Runs, End(r)
      PROVE  Exits(r)
  BY <1>5, EndFacts, EndsOut DEF Exits, Active
<1>6. ASSUME NEW r \in Runs, NEW path \in Paths \cup {NoPath}, NEW ok \in BOOLEAN,
             Returns(r, path, ok)
      PROVE  Stays
  BY <1>6, ReturnsFacts, MovesSame DEF Stays, Active
<1>7. ASSUME NEW r \in Runs, File(r)
      PROVE  Stays
  BY <1>7, FileFacts, MovesSame DEF Stays, Active
<1>8. ASSUME NEW r \in Runs, NEW ok \in BOOLEAN, Record(r, ok)
      PROVE  Stays
  BY <1>8, RecordFacts, MovesSame DEF Stays, Active
<1>9. ASSUME NEW r \in Runs, Fanout(r)
      PROVE  Stays
  BY <1>9, FanoutFacts, MovesSame DEF Stays, Active
<1>10. ASSUME NEW p \in Procs, Crash(p)
       PROVE  Dies(p)
  <2>1. \A s \in Runs : IF s \in ActiveIn(p) THEN ~ Active(s)' ELSE Same(s)
    BY <1>10, CrashFacts DEF Leaves, Active, Same
  <2>2. QED
    BY <1>10, <2>1, CrashFacts DEF Dies
<1>11. ASSUME NEW r \in Runs, Step(r)
       PROVE  Stays \/ Exits(r) \/ Slips(r)
  BY <1>2, <1>3, <1>4, <1>5, <1>6, <1>7, <1>8, <1>9, <1>11 DEF Step
<1>12. ASSUME NEW r \in Runs, NEW p \in Procs, NEW kind \in Kinds,
              NEW emitted \in BOOLEAN, Refused(r, p, kind, emitted)
       PROVE  Stays
  <2>1. \A s \in Runs : Same(s)
    BY <1>12, RefusedFacts DEF Same, Active, Others
  <2>2. QED
    BY <1>12, <2>1, RefusedFacts DEF Stays
<1>13. ASSUME NEW n \in 1..Len(records), Archive(n)
       PROVE  Stays
  BY <1>13, ArchiveFacts, StaysSame DEF Stays
<1>14. QED
  BY <1>1, <1>10, <1>11, <1>12, <1>13 DEF Next

AllActive == {r \in Runs : Active(r)}

LEMMA StaysActive ==
    ASSUME \A s \in Runs : Same(s)
    PROVE  AllActive' = AllActive /\ \A q \in Procs : ActiveIn(q)' = ActiveIn(q)
BY DEF Same, AllActive, ActiveIn

LEMMA EntersActive ==
    ASSUME NEW r \in Runs, NEW p \in Procs, ~ Active(r), Active(r)', run'[r].proc = p,
           \A s \in Runs \ {r} : Same(s)
    PROVE  /\ AllActive' = AllActive \cup {r}
           /\ r \notin ActiveIn(p) /\ ActiveIn(p)' = ActiveIn(p) \cup {r}
           /\ \A q \in Procs \ {p} : ActiveIn(q)' = ActiveIn(q)
BY DEF Same, AllActive, ActiveIn

LEMMA OutActive ==
    ASSUME NEW r \in Runs, NEW p, p = run[r].proc, Out(r)
    PROVE  /\ AllActive' = AllActive \ {r}
           /\ r \in ActiveIn(p) /\ ActiveIn(p)' = ActiveIn(p) \ {r}
           /\ \A q \in Procs \ {p} : ActiveIn(q)' = ActiveIn(q)
BY DEF Out, Same, AllActive, ActiveIn

LEMMA DiesActive ==
    ASSUME NEW p \in Procs, Dies(p)
    PROVE  /\ AllActive' \subseteq AllActive /\ ActiveIn(p)' = {}
           /\ \A q \in Procs \ {p} : ActiveIn(q)' = ActiveIn(q)
<1>1. \A s \in Runs : IF s \in ActiveIn(p) THEN ~ Active(s)' ELSE Same(s)
  BY DEF Dies
<1>2. QED
  BY <1>1 DEF Same, AllActive, ActiveIn

LEMMA ActiveFinite ==
    ASSUME CallInv, NEW p
    PROVE  /\ IsFiniteSet(AllActive) /\ IsFiniteSet(ActiveIn(p))
           /\ Cardinality(ActiveIn(p)) \in Nat
           /\ Cardinality(ActiveIn(p)) = 0 => ActiveIn(p) = {}
<1>1. IsFiniteSet(AllActive)
  BY DEF CallInv, AllActive
<1>2. ActiveIn(p) \in SUBSET AllActive
  BY DEF ActiveIn, AllActive
<1>3. IsFiniteSet(ActiveIn(p))
  BY <1>1, <1>2, FS_Subset
<1>4. QED
  BY <1>1, <1>3, FS_CardinalityType, FS_EmptySet

LEMMA FiniteStep ==
    ASSUME CallInv, Next
    PROVE  IsFiniteSet(AllActive')
<1>1. IsFiniteSet(AllActive)
  BY DEF CallInv, AllActive
<1>2. CASE Stays
  BY <1>1, <1>2, StaysActive DEF Stays
<1>3. ASSUME NEW r \in Runs, NEW p \in Procs, NEW installed \in BOOLEAN,
             Enters(r, p, installed)
      PROVE  IsFiniteSet(AllActive')
  <2>1. AllActive' = AllActive \cup {r}
    BY <1>3, EntersActive DEF Enters
  <2>2. QED
    BY <1>1, <2>1, FS_AddElement
<1>4. ASSUME NEW r \in Runs, Out(r)
      PROVE  IsFiniteSet(AllActive')
  <2>1. AllActive' = AllActive \ {r}
    BY <1>4, OutActive
  <2>2. QED
    BY <1>1, <2>1, FS_RemoveElement
<1>5. ASSUME NEW p \in Procs, Dies(p)
      PROVE  IsFiniteSet(AllActive')
  <2>1. AllActive' \in SUBSET AllActive
    BY <1>5, DiesActive
  <2>2. QED
    BY <1>1, <2>1, FS_Subset
<1>6. QED
  BY <1>2, <1>3, <1>4, <1>5, Shapes DEF Exits, Slips

\* runnerWorkerDepth.
LEMMA RestoreDepth ==
    ASSUME CallInv, NEW r \in Runs, NEW p \in Procs, p = run[r].proc, RestoreWorker(r),
           depth[p] > 0
    PROVE  /\ depth'[p] = depth[p] - 1
           /\ \A q \in Procs \ {p} : depth'[q] = depth[q]
BY DEF CallInv, RestoreWorker, RestoredDepth

LEMMA DepthStep ==
    ASSUME CallInv, DepthInv, Next
    PROVE  DepthInv'
<1> DEFINE Counts(q) == IF q \in leaked THEN Cardinality(ActiveIn(q)) < depth[q]
                        ELSE depth[q] = Cardinality(ActiveIn(q))
<1>1. DepthInv = \A q \in Procs : Counts(q)
  BY DEF DepthInv
<1>2. \A q \in Procs : Counts(q) /\ depth[q] \in Nat
  BY <1>1 DEF CallInv
<1>3. CASE Stays
  <2>1. depth' = depth /\ leaked' = leaked /\ \A q \in Procs : ActiveIn(q)' = ActiveIn(q)
    BY <1>3, StaysActive DEF Stays, HostUnchanged
  <2>2. QED
    BY <2>1 DEF DepthInv
<1>4. ASSUME NEW r \in Runs, NEW p \in Procs, NEW installed \in BOOLEAN,
             Enters(r, p, installed)
      PROVE  DepthInv'
  <2>1. /\ r \notin ActiveIn(p) /\ ActiveIn(p)' = ActiveIn(p) \cup {r}
        /\ \A q \in Procs \ {p} : ActiveIn(q)' = ActiveIn(q)
    BY <1>4, EntersActive DEF Enters
  <2>2. /\ leaked' = leaked /\ depth'[p] = depth[p] + 1
        /\ \A q \in Procs \ {p} : depth'[q] = depth[q]
    BY <1>4 DEF Enters, CallInv
  <2>3. /\ Cardinality(ActiveIn(p)) \in Nat
        /\ Cardinality(ActiveIn(p)') = Cardinality(ActiveIn(p)) + 1
    BY <2>1, ActiveFinite, FS_AddElement
  <2>4. Counts(p)'
    BY <1>2, <2>2, <2>3
  <2>5. \A q \in Procs \ {p} : Counts(q)'
    BY <1>2, <2>1, <2>2
  <2>6. QED
    BY <1>1, <2>4, <2>5 DEF DepthInv
<1>5. ASSUME NEW r \in Runs, NEW p \in Procs, p = run[r].proc, Out(r)
      PROVE  /\ \A q \in Procs \ {p} : ActiveIn(q)' = ActiveIn(q)
             /\ Cardinality(ActiveIn(p)) \in Nat
             /\ Cardinality(ActiveIn(p)) > 0
             /\ Cardinality(ActiveIn(p)') = Cardinality(ActiveIn(p)) - 1
  <2>1. /\ r \in ActiveIn(p) /\ ActiveIn(p)' = ActiveIn(p) \ {r}
        /\ \A q \in Procs \ {p} : ActiveIn(q)' = ActiveIn(q)
    BY <1>5, OutActive
  <2>2. /\ Cardinality(ActiveIn(p)) \in Nat
        /\ Cardinality(ActiveIn(p)') = Cardinality(ActiveIn(p)) - 1
    BY <2>1, ActiveFinite, FS_RemoveElement
  <2>3. Cardinality(ActiveIn(p)) # 0
    BY <2>1, ActiveFinite
  <2>4. QED
    BY <2>1, <2>2, <2>3
<1>6. ASSUME NEW r \in Runs, Out(r)
      PROVE  run[r].proc \in Procs
  BY <1>6 DEF Out, Active, CallInv
<1>7. ASSUME NEW r \in Runs, Exits(r)
      PROVE  DepthInv'
  <2>1. PICK p \in Procs : p = run[r].proc
    BY <1>6, <1>7 DEF Exits
  <2>2. /\ \A q \in Procs \ {p} : ActiveIn(q)' = ActiveIn(q)
        /\ Cardinality(ActiveIn(p)) \in Nat
        /\ Cardinality(ActiveIn(p)) > 0
        /\ Cardinality(ActiveIn(p)') = Cardinality(ActiveIn(p)) - 1
    BY <1>5, <1>7, <2>1 DEF Exits
  <2>3. depth[p] > 0
    BY <1>2, <2>2
  <2>4. /\ leaked' = leaked /\ depth'[p] = depth[p] - 1
        /\ \A q \in Procs \ {p} : depth'[q] = depth[q]
    BY <1>7, <2>1, <2>3, RestoreDepth DEF Exits
  <2>5. Counts(p)'
    BY <1>2, <2>2, <2>4
  <2>6. \A q \in Procs \ {p} : Counts(q)'
    BY <1>2, <2>2, <2>4
  <2>7. QED
    BY <2>5, <2>6 DEF DepthInv
<1>8. ASSUME NEW r \in Runs, Slips(r)
      PROVE  DepthInv'
  <2>1. PICK p \in Procs : p = run[r].proc
    BY <1>6, <1>8 DEF Slips
  <2>2. /\ \A q \in Procs \ {p} : ActiveIn(q)' = ActiveIn(q)
        /\ Cardinality(ActiveIn(p)) \in Nat
        /\ Cardinality(ActiveIn(p)') = Cardinality(ActiveIn(p)) - 1
    BY <1>5, <1>8, <2>1 DEF Slips
  <2>3. leaked' = leaked \cup {p} /\ depth' = depth
    BY <1>8, <2>1 DEF Slips, HostUnchanged
  <2>4. Counts(p)'
    BY <1>2, <2>2, <2>3
  <2>5. \A q \in Procs \ {p} : Counts(q)'
    BY <1>2, <2>2, <2>3
  <2>6. QED
    BY <2>4, <2>5 DEF DepthInv
<1>9. ASSUME NEW p \in Procs, Dies(p)
      PROVE  DepthInv'
  <2>1. ActiveIn(p)' = {} /\ \A q \in Procs \ {p} : ActiveIn(q)' = ActiveIn(q)
    BY <1>9, DiesActive
  <2>2. /\ leaked' = leaked \ {p} /\ depth'[p] = 0
        /\ \A q \in Procs \ {p} : depth'[q] = depth[q]
    BY <1>9 DEF Dies, CallInv
  <2>3. Counts(p)'
    BY <2>1, <2>2, FS_EmptySet
  <2>4. \A q \in Procs \ {p} : Counts(q)'
    BY <1>2, <2>1, <2>2
  <2>5. QED
    BY <2>3, <2>4 DEF DepthInv
<1>10. QED
  BY <1>3, <1>4, <1>7, <1>8, <1>9, Shapes

\* An outermost call finds the process as it was before any call.
LEMMA OutermostAlone ==
    ASSUME CallInv, DepthInv, NEW p \in Procs, depth[p] = 0
    PROVE  p \notin leaked /\ ActiveIn(p) = {}
<1>1. Cardinality(ActiveIn(p)) \in Nat
  BY ActiveFinite
<1>2. p \notin leaked /\ Cardinality(ActiveIn(p)) = 0
  BY <1>1 DEF DepthInv
<1>3. QED
  BY <1>2, ActiveFinite

\* Where the root is not absolute no call becomes active.
LEMMA ActiveAbsolute ==
    ASSUME RelativeInv, NEW r \in Runs, Active(r)
    PROVE  run[r].proc \notin Relative
BY DEF RelativeInv, ActiveIn

LEMMA RelativeStep ==
    ASSUME CallInv, RelativeInv, Next
    PROVE  RelativeInv'
<1>1. Relative \subseteq Procs
  BY RunAssumption
<1>2. CASE Stays
  <2>1. depth' = depth /\ leaked' = leaked /\ \A q \in Procs : ActiveIn(q)' = ActiveIn(q)
    BY <1>2, StaysActive DEF Stays, HostUnchanged
  <2>2. QED
    BY <1>1, <2>1 DEF RelativeInv
<1>3. ASSUME NEW r \in Runs, NEW p \in Procs, NEW installed \in BOOLEAN,
             Enters(r, p, installed)
      PROVE  RelativeInv'
  <2>1. p \notin Relative
    BY <1>3 DEF Enters, RelativeInv
  <2>2. \A q \in Procs \ {p} : ActiveIn(q)' = ActiveIn(q)
    BY <1>3, EntersActive DEF Enters
  <2>3. leaked' = leaked /\ \A q \in Procs \ {p} : depth'[q] = depth[q]
    BY <1>3 DEF Enters, CallInv
  <2>4. QED
    BY <1>1, <2>1, <2>2, <2>3 DEF RelativeInv
<1>4. ASSUME NEW r \in Runs, Exits(r) \/ Slips(r)
      PROVE  RelativeInv'
  <2>1. Out(r) /\ Active(r)
    BY <1>4 DEF Exits, Slips, Out
  <2>2. PICK p \in Procs : p = run[r].proc
    BY <2>1 DEF Active, CallInv
  <2>3. p \notin Relative
    BY <2>1, <2>2, ActiveAbsolute
  <2>4. \A q \in Procs \ {p} : ActiveIn(q)' = ActiveIn(q)
    BY <2>1, <2>2, OutActive
  <2>5. leaked' \subseteq leaked \cup {p} /\ \A q \in Procs \ {p} : depth'[q] = depth[q]
    BY <1>4, <2>2 DEF Exits, Slips, RestoreWorker, HostUnchanged, CallInv
  <2>6. QED
    BY <1>1, <2>3, <2>4, <2>5 DEF RelativeInv
<1>5. ASSUME NEW p \in Procs, Dies(p)
      PROVE  RelativeInv'
  <2>1. ActiveIn(p)' = {} /\ \A q \in Procs \ {p} : ActiveIn(q)' = ActiveIn(q)
    BY <1>5, DiesActive
  <2>2. /\ leaked' \subseteq leaked /\ depth'[p] = 0
        /\ \A q \in Procs \ {p} : depth'[q] = depth[q]
    BY <1>5 DEF Dies, CallInv
  <2>3. QED
    BY <1>1, <2>1, <2>2 DEF RelativeInv
<1>6. QED
  BY <1>2, <1>3, <1>4, <1>5, Shapes

\* The parts of BoundaryInv.
OneOuter ==
    \A r, s \in Runs : Active(r) /\ run[r].outer /\ Active(s) /\ run[s].outer
                         /\ run[r].proc = run[s].proc => r = s

InstalledOuter == \A r \in Runs : Active(r) /\ run[r].installed => run[r].outer

OuterBefore == \A r \in Runs : Active(r) /\ run[r].outer => run[r].before = "host"

PutThere ==
    \A p \in Procs \ leaked : wrapped[p] \/ cwd[p] = "root" =>
      \E r \in ActiveIn(p) : run[r].installed

LEMMA BoundaryParts ==
    BoundaryInv <=> OneOuter /\ InstalledOuter /\ OuterBefore /\ BoundaryHeld /\ PutThere
BY DEF BoundaryInv, OneOuter, InstalledOuter, OuterBefore, PutThere

\* Calls that neither begin nor end leave the parts about calls alone.
LEMMA SameParts ==
    ASSUME OneOuter, InstalledOuter, OuterBefore,
           \A s \in Runs : Same(s) \/ ~ Active(s)'
    PROVE  OneOuter' /\ InstalledOuter' /\ OuterBefore'
BY DEF OneOuter, InstalledOuter, OuterBefore, Same, Active

LEMMA BoundaryStays ==
    ASSUME CallInv, BoundaryInv, Stays
    PROVE  BoundaryInv'
<1>1. OneOuter' /\ InstalledOuter' /\ OuterBefore'
  BY BoundaryParts, SameParts DEF Stays
<1>2. BoundaryHeld'
  BY BoundaryParts DEF Stays, Same, HostUnchanged, BoundaryHeld
<1>3. PutThere'
  BY BoundaryParts DEF Stays, Same, HostUnchanged, PutThere, ActiveIn
<1>4. QED
  BY <1>1, <1>2, <1>3 DEF BoundaryInv, OneOuter, InstalledOuter, OuterBefore, PutThere

LEMMA BoundaryEnters ==
    ASSUME CallInv, DepthInv, BoundaryInv, NEW r \in Runs, NEW p \in Procs,
           NEW installed \in BOOLEAN, Enters(r, p, installed)
    PROVE  BoundaryInv'
<1>1. /\ Active(r)' /\ run'[r].proc = p /\ \A s \in Runs \ {r} : Same(s)
      /\ run'[r].outer = (depth[p] = 0) /\ (depth[p] = 0 => run'[r].before = cwd[p])
      /\ run'[r].installed = (depth[p] = 0 /\ installed) /\ leaked' = leaked
  BY DEF Enters
<1>2. /\ wrapped'[p] = (wrapped[p] \/ (depth[p] = 0 /\ installed))
      /\ cwd'[p] = IF depth[p] = 0 /\ installed THEN "root" ELSE cwd[p]
      /\ \A q \in Procs \ {p} : wrapped'[q] = wrapped[q] /\ cwd'[q] = cwd[q]
      /\ cwd[p] \in {"host", "root"}
  BY DEF Enters, CallInv
<1>3. /\ OneOuter /\ InstalledOuter /\ OuterBefore /\ BoundaryHeld /\ PutThere
  BY BoundaryParts
<1>4. ASSUME depth[p] = 0
      PROVE  p \notin leaked /\ \A s \in Runs : Active(s) => run[s].proc # p
  <2>1. p \notin leaked /\ ActiveIn(p) = {}
    BY <1>4, OutermostAlone
  <2>2. QED
    BY <2>1 DEF ActiveIn
<1>5. OneOuter'
  <2> SUFFICES ASSUME NEW s \in Runs, NEW t \in Runs, Active(s)', run'[s].outer,
                      Active(t)', run'[t].outer, run'[s].proc = run'[t].proc
               PROVE  s = t
    BY DEF OneOuter
  <2>1. \A u \in Runs \ {r} : Active(u)' =>
          Active(u) /\ run'[u].outer = run[u].outer /\ run'[u].proc = run[u].proc
    BY <1>1 DEF Same
  <2>2. CASE s # r /\ t # r
    BY <1>3, <2>1, <2>2 DEF OneOuter
  <2>3. CASE s = r /\ t # r
    BY <1>1, <1>4, <2>1, <2>3
  <2>4. CASE s # r /\ t = r
    BY <1>1, <1>4, <2>1, <2>4
  <2>5. QED
    BY <2>2, <2>3, <2>4
<1>6. InstalledOuter'
  BY <1>1, <1>3 DEF InstalledOuter, Same
<1>7. depth[p] = 0 => cwd[p] = "host"
  BY <1>2, <1>3, <1>4 DEF PutThere, ActiveIn
<1>8. OuterBefore'
  BY <1>1, <1>3, <1>7 DEF OuterBefore, Same
<1>9. \A s \in Runs : Active(s) => run[s].proc \in Procs
  BY DEF CallInv, Active
<1>10. BoundaryHeld'
  <2> SUFFICES ASSUME NEW s \in Runs, Active(s)', run'[s].installed
               PROVE  wrapped'[run'[s].proc] /\ cwd'[run'[s].proc] = "root"
    BY DEF BoundaryHeld
  <2>1. CASE s = r
    BY <1>1, <1>2, <2>1
  <2>2. CASE s # r
    <3>1. Active(s) /\ run[s].installed /\ run'[s].proc = run[s].proc
      BY <1>1, <2>2 DEF Same
    <3>2. wrapped[run[s].proc] /\ cwd[run[s].proc] = "root" /\ run[s].proc \in Procs
      BY <1>3, <1>9, <3>1 DEF BoundaryHeld
    <3>3. QED
      BY <1>2, <3>1, <3>2
  <2>3. QED
    BY <2>1, <2>2
<1>11. PutThere'
  <2> SUFFICES ASSUME NEW q \in Procs \ leaked, wrapped'[q] \/ cwd'[q] = "root"
               PROVE  \E s \in Runs : Active(s)' /\ run'[s].proc = q /\ run'[s].installed
    BY <1>1 DEF PutThere, ActiveIn
  <2>1. CASE q = p /\ depth[p] = 0 /\ installed
    BY <1>1, <2>1
  <2>2. CASE ~ (q = p /\ depth[p] = 0 /\ installed)
    <3>1. wrapped[q] \/ cwd[q] = "root"
      BY <1>2, <2>2
    <3>2. PICK s \in Runs : Active(s) /\ run[s].proc = q /\ run[s].installed
      BY <1>3, <3>1 DEF PutThere, ActiveIn
    <3>3. s # r
      BY <3>2 DEF Enters
    <3>4. QED
      BY <1>1, <3>2, <3>3 DEF Same
  <2>3. QED
    BY <2>1, <2>2
<1>12. QED
  BY <1>5, <1>6, <1>8, <1>10, <1>11
     DEF BoundaryInv, OneOuter, InstalledOuter, OuterBefore, PutThere

LEMMA BoundaryExits ==
    ASSUME CallInv, BoundaryInv, NEW r \in Runs, Exits(r)
    PROVE  BoundaryInv'
<1>1. /\ Active(r) /\ ~ Active(r)' /\ leaked' = leaked
      /\ \A s \in Runs \ {r} : Same(s)
  BY DEF Exits, Out
<1>2. PICK p \in Procs : p = run[r].proc
  BY <1>1 DEF CallInv, Active
<1>3. /\ wrapped'[p] = (wrapped[p] /\ ~ run[r].installed)
      /\ cwd'[p] = IF run[r].outer THEN run[r].before ELSE cwd[p]
      /\ \A q \in Procs \ {p} : wrapped'[q] = wrapped[q] /\ cwd'[q] = cwd[q]
  BY <1>2 DEF Exits, RestoreWorker, CallInv
<1>4. /\ OneOuter /\ InstalledOuter /\ OuterBefore /\ BoundaryHeld /\ PutThere
  BY BoundaryParts
<1>5. OneOuter' /\ InstalledOuter' /\ OuterBefore'
  BY <1>1, <1>4, SameParts
<1>6. \A s \in Runs : Active(s) => run[s].proc \in Procs
  BY DEF CallInv, Active
<1>7. BoundaryHeld'
  <2> SUFFICES ASSUME NEW s \in Runs, Active(s)', run'[s].installed
               PROVE  wrapped'[run'[s].proc] /\ cwd'[run'[s].proc] = "root"
    BY DEF BoundaryHeld
  <2>1. s # r /\ Active(s) /\ run[s].installed /\ run'[s].proc = run[s].proc
    BY <1>1 DEF Same
  <2>2. wrapped[run[s].proc] /\ cwd[run[s].proc] = "root" /\ run[s].proc \in Procs
    BY <1>4, <1>6, <2>1 DEF BoundaryHeld
  <2>3. run[s].proc = p => ~ run[r].outer
    BY <1>1, <1>2, <1>4, <2>1 DEF OneOuter, InstalledOuter
  <2>4. run[s].proc = p => ~ run[r].installed
    BY <1>1, <1>4, <2>3 DEF InstalledOuter
  <2>5. QED
    BY <1>3, <2>1, <2>2, <2>3, <2>4
<1>8. PutThere'
  <2> SUFFICES ASSUME NEW q \in Procs, q \notin leaked', wrapped'[q] \/ cwd'[q] = "root"
               PROVE  \E s \in Runs : Active(s)' /\ run'[s].proc = q /\ run'[s].installed
    BY DEF PutThere, ActiveIn
  <2>1. wrapped[q] \/ cwd[q] = "root"
    <3>1. CASE q = p
      <4>1. run[r].outer => run[r].before = "host"
        BY <1>1, <1>4 DEF OuterBefore
      <4>2. wrapped'[p] => wrapped[p]
        BY <1>3
      <4>3. cwd'[p] = "root" => cwd[p] = "root"
        BY <1>3, <4>1
      <4>4. QED
        BY <3>1, <4>2, <4>3
    <3>2. CASE q # p
      BY <1>3, <3>2
    <3>3. QED
      BY <3>1, <3>2
  <2>2. PICK s \in Runs : Active(s) /\ run[s].proc = q /\ run[s].installed
    BY <1>1, <1>4, <2>1 DEF PutThere, ActiveIn
  <2>3. ASSUME s = r
        PROVE  FALSE
    <3>1. q = p /\ run[r].installed
      BY <1>2, <2>2, <2>3
    <3>2. run[r].outer /\ run[r].before = "host"
      BY <1>1, <1>4, <3>1 DEF InstalledOuter, OuterBefore
    <3>3. ~ wrapped'[q] /\ cwd'[q] = "host"
      BY <1>3, <3>1, <3>2
    <3>4. QED
      BY <3>3
  <2>4. QED
    BY <1>1, <2>2, <2>3 DEF Same
<1>9. QED
  BY <1>5, <1>7, <1>8 DEF BoundaryInv, OneOuter, InstalledOuter, OuterBefore, PutThere

LEMMA BoundarySlips ==
    ASSUME CallInv, BoundaryInv, NEW r \in Runs, Slips(r)
    PROVE  BoundaryInv'
<1>1. /\ ~ Active(r)' /\ leaked' = leaked \cup {run[r].proc}
      /\ wrapped' = wrapped /\ cwd' = cwd
      /\ \A s \in Runs \ {r} : Same(s)
  BY DEF Slips, Out, HostUnchanged
<1>2. /\ OneOuter /\ InstalledOuter /\ OuterBefore /\ BoundaryHeld /\ PutThere
  BY BoundaryParts
<1>3. OneOuter' /\ InstalledOuter' /\ OuterBefore'
  BY <1>1, <1>2, SameParts
<1>4. BoundaryHeld'
  BY <1>1, <1>2 DEF BoundaryHeld, Same
<1>5. PutThere'
  <2> SUFFICES ASSUME NEW q \in Procs, q \notin leaked', wrapped'[q] \/ cwd'[q] = "root"
               PROVE  \E s \in Runs : Active(s)' /\ run'[s].proc = q /\ run'[s].installed
    BY DEF PutThere, ActiveIn
  <2>1. q \notin leaked /\ q # run[r].proc
    BY <1>1
  <2>2. wrapped[q] \/ cwd[q] = "root"
    BY <1>1
  <2>3. PICK s \in Runs : Active(s) /\ run[s].proc = q /\ run[s].installed
    BY <1>2, <2>1, <2>2 DEF PutThere, ActiveIn
  <2>4. s # r
    BY <2>1, <2>3
  <2>5. QED
    BY <1>1, <2>3, <2>4 DEF Same
<1>6. QED
  BY <1>3, <1>4, <1>5 DEF BoundaryInv, OneOuter, InstalledOuter, OuterBefore, PutThere

LEMMA BoundaryDies ==
    ASSUME CallInv, BoundaryInv, NEW p \in Procs, Dies(p)
    PROVE  BoundaryInv'
<1>1. /\ \A s \in Runs : IF s \in ActiveIn(p) THEN ~ Active(s)' ELSE Same(s)
      /\ leaked' = leaked \ {p} /\ wrapped'[p] = FALSE /\ cwd'[p] = "host"
      /\ \A q \in Procs \ {p} : wrapped'[q] = wrapped[q] /\ cwd'[q] = cwd[q]
  BY DEF Dies, CallInv
<1>2. /\ OneOuter /\ InstalledOuter /\ OuterBefore /\ BoundaryHeld /\ PutThere
  BY BoundaryParts
<1>3. OneOuter' /\ InstalledOuter' /\ OuterBefore'
  BY <1>1, <1>2, SameParts
<1>4. \A s \in Runs : Active(s) => run[s].proc \in Procs
  BY DEF CallInv, Active
<1>5. BoundaryHeld'
  <2> SUFFICES ASSUME NEW s \in Runs, Active(s)', run'[s].installed
               PROVE  wrapped'[run'[s].proc] /\ cwd'[run'[s].proc] = "root"
    BY DEF BoundaryHeld
  <2>1. Same(s) /\ s \notin ActiveIn(p)
    BY <1>1
  <2>2. Active(s) /\ run[s].installed /\ run'[s].proc = run[s].proc /\ run[s].proc # p
    BY <2>1 DEF Same, ActiveIn
  <2>3. QED
    BY <1>1, <1>2, <1>4, <2>2 DEF BoundaryHeld
<1>6. PutThere'
  <2> SUFFICES ASSUME NEW q \in Procs, q \notin leaked \ {p}, wrapped'[q] \/ cwd'[q] = "root"
               PROVE  \E s \in Runs : Active(s)' /\ run'[s].proc = q /\ run'[s].installed
    BY <1>1 DEF PutThere, ActiveIn
  <2>1. q # p
    BY <1>1
  <2>2. q \notin leaked /\ (wrapped[q] \/ cwd[q] = "root")
    BY <1>1, <2>1
  <2>3. PICK s \in Runs : Active(s) /\ run[s].proc = q /\ run[s].installed
    BY <1>2, <2>2 DEF PutThere, ActiveIn
  <2>4. Same(s)
    BY <1>1, <2>1, <2>3 DEF ActiveIn
  <2>5. QED
    BY <2>3, <2>4 DEF Same
<1>7. QED
  BY <1>3, <1>5, <1>6 DEF BoundaryInv, OneOuter, InstalledOuter, OuterBefore, PutThere

LEMMA BoundaryStep ==
    ASSUME CallInv, DepthInv, BoundaryInv, Next
    PROVE  BoundaryInv'
BY BoundaryStays, BoundaryEnters, BoundaryExits, BoundarySlips, BoundaryDies, Shapes

(***************************************************************************)
(* Types.                                                                  *)
(***************************************************************************)

Doc == [by : {"own", "central"}, run : Runs, register : Registers, path : Paths]

Events == {"started", "completed", "failed"}

\* The parts of CallInv.
Typed ==
    /\ records \in Seq(Doc) /\ archived \subseteq 1..Len(records)
    /\ lifecycle \in [Runs -> Seq(Events)]
    /\ depth \in [Procs -> Nat] /\ wrapped \in [Procs -> BOOLEAN]
    /\ cwd \in [Procs -> {"host", "root"}] /\ run \in [Runs -> Call]

Placed(r) ==
    /\ run[r].since <= Len(records) /\ run[r].upto <= Len(records)
    /\ run[r].pc # "new" => run[r].proc \in Procs
    /\ run[r].pc \in {"file", "record"} => run[r].path \in Paths
    /\ run[r].pc \in {"new", "handler"} => run[r].path = NoPath

LEMMA CallParts == CallInv <=> Typed /\ IsFiniteSet(AllActive) /\ \A r \in Runs : Placed(r)
BY DEF CallInv, Typed, Doc, Events, AllActive, Placed

\* The records only grow, and so do those archived.
Grows ==
    /\ records' \in Seq(Doc) /\ Len(records) <= Len(records')
    /\ \A n \in 1..Len(records) : records'[n] = records[n]
    /\ archived \subseteq archived' /\ archived' \subseteq 1..Len(records')

LEMMA FiledGrows ==
    ASSUME Typed, NEW doc \in Doc, Filed(doc)
    PROVE  /\ Grows /\ Len(records') = Len(records) + 1
           /\ records'[Len(records) + 1] = doc
BY DEF Filed, Grows, Typed

LEMMA SameGrows ==
    ASSUME Typed, Unfiled
    PROVE  Grows
BY DEF Grows, Unfiled, Typed

LEMMA DocumentIsDoc ==
    ASSUME NEW by \in {"own", "central"}, NEW r \in Runs,
           NEW register \in Registers, NEW path \in Paths
    PROVE  /\ Document(by, r, register, path) \in Doc
           /\ Document(by, r, register, path).by = by
           /\ Document(by, r, register, path).run = r
           /\ Document(by, r, register, path).register = register
           /\ Document(by, r, register, path).path = path
BY DEF Document, Doc

LEMMA EmitTyped ==
    ASSUME lifecycle \in [Runs -> Seq(Events)], NEW r \in Runs, NEW type \in Events,
           NEW ok \in BOOLEAN,
           lifecycle' = IF ok THEN [lifecycle EXCEPT ![r] = Append(@, type)] ELSE lifecycle
    PROVE  /\ lifecycle' \in [Runs -> Seq(Events)]
           /\ \A s \in Runs \ {r} : lifecycle'[s] = lifecycle[s]
           /\ ok => lifecycle'[r] = Append(lifecycle[r], type)
<1>1. CASE ok
  BY <1>1
<1>2. CASE ~ ok
  BY <1>2
<1>3. QED
  BY <1>1, <1>2

LEMMA OneStarted ==
    ASSUME NEW emitted \in BOOLEAN
    PROVE  (IF emitted THEN <<"started">> ELSE << >>) \in Seq(Events)
<1>1. "started" \in Events
  BY DEF Events
<1>2. <<"started">> \in Seq(Events) /\ << >> \in Seq(Events)
  BY <1>1
<1>3. QED
  BY <1>2

LEMMA RestoreTyped ==
    ASSUME Typed, NEW r \in Runs, run[r].proc \in Procs, RestoreWorker(r)
    PROVE  /\ depth' \in [Procs -> Nat] /\ wrapped' \in [Procs -> BOOLEAN]
           /\ cwd' \in [Procs -> {"host", "root"}]
<1> DEFINE p == run[r].proc
<1>1. depth[p] \in Nat /\ wrapped[p] \in BOOLEAN /\ cwd[p] \in {"host", "root"}
  BY DEF Typed
<1>2. /\ run[r].before \in {"host", "root"} /\ run[r].installed \in BOOLEAN
      /\ run[r].outer \in BOOLEAN
  BY DEF Typed, Call
<1>3. RestoredDepth(p) \in Nat
  BY <1>1 DEF RestoredDepth
<1>4. (wrapped[p] /\ ~ run[r].installed) \in BOOLEAN
  OBVIOUS
<1>5. (IF run[r].outer THEN run[r].before ELSE cwd[p]) \in {"host", "root"}
  BY <1>1, <1>2
<1>6. QED
  BY <1>3, <1>4, <1>5 DEF RestoreWorker, Typed

\* What the steps do to the types and to the records.
Becoming == Typed' /\ Grows

LEMMA TypedStep ==
    ASSUME CallInv, Next
    PROVE  Becoming
<1> USE DEF Becoming
<1>0. Typed /\ (\A r \in Runs : Placed(r)) /\ CallInv
  BY CallParts
<1>1. ASSUME NEW r \in Runs, NEW p \in Procs, NEW parent \in Runs \cup {NoRun},
             NEW kind \in Kinds, NEW emitted \in BOOLEAN, NEW installed \in BOOLEAN,
             Begin(r, p, parent, kind, emitted, installed)
      PROVE  Becoming
  <2>1. /\ lifecycle' = [lifecycle EXCEPT ![r] = IF emitted THEN <<"started">> ELSE << >>]
        /\ depth' = [depth EXCEPT ![p] = IF depth[p] = 0 THEN 1 ELSE depth[p] + 1]
        /\ wrapped' = [wrapped EXCEPT ![p] = wrapped[p] \/ (depth[p] = 0 /\ installed)]
        /\ cwd' = [cwd EXCEPT ![p] = IF depth[p] = 0 /\ installed THEN "root" ELSE cwd[p]]
        /\ run' \in [Runs -> Call] /\ Unfiled
    BY <1>1, BeginFacts
  <2>2. (IF emitted THEN <<"started">> ELSE << >>) \in Seq(Events)
    BY OneStarted
  <2>3. lifecycle' \in [Runs -> Seq(Events)]
    BY <1>0, <2>1, <2>2 DEF Typed
  <2>4. depth' \in [Procs -> Nat]
    BY <1>0, <2>1 DEF Typed
  <2>5. wrapped' \in [Procs -> BOOLEAN]
    BY <1>0, <2>1 DEF Typed
  <2>6. cwd' \in [Procs -> {"host", "root"}]
    BY <1>0, <2>1 DEF Typed
  <2>7. QED
    BY <1>0, <2>1, <2>3, <2>4, <2>5, <2>6, SameGrows DEF Typed, Grows
<1>2. ASSUME NEW r \in Runs, NEW register \in Registers, NEW path \in Paths,
             SelfFile(r, register, path)
      PROVE  Becoming
  <2>1. Grows
    BY <1>0, <1>2, SelfFileFacts, DocumentIsDoc, FiledGrows DEF Typed
  <2>2. QED
    BY <1>0, <1>2, <2>1, SelfFileFacts DEF Typed, Grows, HostUnchanged
<1>3. ASSUME NEW r \in Runs, NEW ok \in BOOLEAN, Throws(r, ok)
      PROVE  Becoming
  <2>1. /\ run[r].pc = "handler" /\ RestoreWorker(r) /\ Unfiled
        /\ lifecycle' = IF ok THEN [lifecycle EXCEPT ![r] = Append(@, "failed")] ELSE lifecycle
        /\ run' \in [Runs -> Call]
    BY <1>0, <1>3, ThrowsFacts DEF Ends
  <2>2. lifecycle' \in [Runs -> Seq(Events)]
    BY <1>0, <2>1, EmitTyped DEF Typed, Events
  <2>3. run[r].proc \in Procs
    BY <1>0, <2>1 DEF Placed
  <2>4. QED
    BY <1>0, <2>1, <2>2, <2>3, RestoreTyped, SameGrows DEF Typed, Grows
<1>4. ASSUME NEW r \in Runs, StoreThrows(r)
      PROVE  Becoming
  BY <1>0, <1>4, StoreThrowsFacts, SameGrows DEF Typed, Grows, Ends, HostUnchanged
<1>5. ASSUME NEW r \in Runs, End(r)
      PROVE  Becoming
  <2>1. /\ run[r].pc = "tick" /\ RestoreWorker(r) /\ Unfiled
        /\ lifecycle' = lifecycle /\ run' \in [Runs -> Call]
    BY <1>0, <1>5, EndFacts DEF Ends
  <2>2. run[r].proc \in Procs
    BY <1>0, <2>1 DEF Placed
  <2>3. QED
    BY <1>0, <2>1, <2>2, RestoreTyped, SameGrows DEF Typed, Grows
<1>6. ASSUME NEW r \in Runs, NEW path \in Paths \cup {NoPath}, NEW ok \in BOOLEAN,
             Returns(r, path, ok)
      PROVE  Becoming
  <2>1. /\ Unfiled /\ HostUnchanged /\ run' \in [Runs -> Call]
        /\ lifecycle' = IF ok THEN [lifecycle EXCEPT ![r] = Append(@, "completed")]
                        ELSE lifecycle
    BY <1>0, <1>6, ReturnsFacts DEF Moves
  <2>2. lifecycle' \in [Runs -> Seq(Events)]
    BY <1>0, <2>1, EmitTyped DEF Typed, Events
  <2>3. QED
    BY <1>0, <2>1, <2>2, SameGrows DEF Typed, Grows, HostUnchanged
<1>7. ASSUME NEW r \in Runs, File(r)
      PROVE  Becoming
  BY <1>0, <1>7, FileFacts, SameGrows DEF Typed, Grows, Moves, HostUnchanged
<1>8. ASSUME NEW r \in Runs, NEW ok \in BOOLEAN, Record(r, ok)
      PROVE  Becoming
  <2>1. /\ run[r].pc = "record" /\ HostUnchanged /\ lifecycle' = lifecycle
        /\ IF ok THEN Filed(Document("central", r, "documents", run[r].path)) ELSE Unfiled
        /\ run' \in [Runs -> Call]
    BY <1>0, <1>8, RecordFacts DEF Moves
  <2>2. run[r].path \in Paths
    BY <1>0, <2>1 DEF Placed
  <2>3. Grows
    BY <1>0, <2>1, <2>2, DocumentIsDoc, FiledGrows, SameGrows DEF Registers
  <2>4. QED
    BY <1>0, <2>1, <2>3 DEF Typed, Grows, HostUnchanged
<1>9. ASSUME NEW r \in Runs, Fanout(r)
      PROVE  Becoming
  BY <1>0, <1>9, FanoutFacts, SameGrows DEF Typed, Grows, Moves, HostUnchanged
<1>10. ASSUME NEW p \in Procs, Crash(p)
       PROVE  Becoming
  <2>1. /\ run' \in [Runs -> Call] /\ Unfiled /\ lifecycle' = lifecycle
        /\ depth' = [depth EXCEPT ![p] = 0] /\ wrapped' = [wrapped EXCEPT ![p] = FALSE]
        /\ cwd' = [cwd EXCEPT ![p] = "host"]
    BY <1>0, <1>10, CrashFacts
  <2>2. wrapped' \in [Procs -> BOOLEAN]
    BY <1>0, <2>1 DEF Typed
  <2>3. QED
    BY <1>0, <2>1, <2>2, SameGrows DEF Typed, Grows
<1>11. ASSUME NEW r \in Runs, Step(r)
       PROVE  Becoming
  BY <1>2, <1>3, <1>4, <1>5, <1>6, <1>7, <1>8, <1>9, <1>11 DEF Step
<1>12. ASSUME NEW r \in Runs, NEW p \in Procs, NEW kind \in Kinds,
              NEW emitted \in BOOLEAN, Refused(r, p, kind, emitted)
       PROVE  Becoming
  <2>1. /\ lifecycle' = [lifecycle EXCEPT ![r] = IF emitted THEN <<"started">> ELSE << >>]
        /\ run' \in [Runs -> Call] /\ Unfiled /\ HostUnchanged
    BY <1>0, <1>12, RefusedFacts
  <2>2. (IF emitted THEN <<"started">> ELSE << >>) \in Seq(Events)
    BY OneStarted
  <2>3. lifecycle' \in [Runs -> Seq(Events)]
    BY <1>0, <2>1, <2>2 DEF Typed
  <2>4. Grows
    BY <1>0, <2>1, SameGrows
  <2>5. QED
    BY <1>0, <2>1, <2>3, <2>4 DEF Typed, Grows, HostUnchanged
<1>13. ASSUME NEW n \in 1..Len(records), Archive(n)
       PROVE  Becoming
  <2>1. Grows
    BY <1>0, <1>13, ArchiveFacts, SameGrows
  <2>2. QED
    BY <1>0, <1>13, <2>1, ArchiveFacts DEF Typed, Grows, HostUnchanged
<1>14. QED
  BY <1>1, <1>10, <1>11, <1>12, <1>13 DEF Next

(***************************************************************************)
(* What is known of one call: its events, and its deliverable.             *)
(***************************************************************************)

LifeOf(r) ==
    ~ run[r].faulty =>
      /\ run[r].pc # "dead"
      /\ run[r].pc = "handler" => lifecycle[r] = <<"started">>
      /\ run[r].pc \in {"file", "record", "fanout", "tick"} =>
           lifecycle[r] = <<"started", "completed">>
      /\ run[r].pc = "ended" =>
           IF run[r].proc \in Relative THEN lifecycle[r] = <<"started">>
           ELSE lifecycle[r] \in {<<"started", "completed">>, <<"started", "failed">>}

\* The deliverable of a call has its record, or another one passes for it.
Settled(r) ==
    \/ run[r].path \in DocumentPaths
    \/ \E n \in run[r].since + 1..run[r].upto : SelfFiled(n, run[r].path)

FiledOf(r) ==
    /\ run[r].pc = "file" => run[r].window \subseteq run[r].since + 1..run[r].upto
    /\ run[r].pc \in {"fanout", "tick", "ended"} /\ run[r].path # NoPath /\ ~ run[r].faulty =>
         Settled(r)

Local(r) == Placed(r) /\ LifeOf(r) /\ FiledOf(r)

LEMMA DocumentsKept ==
    ASSUME Grows, records \in Seq(Doc), NEW n \in 1..Len(records)
    PROVE  n \in 1..Len(records') /\ records'[n] = records[n]
<1>1. Len(records) \in Nat /\ Len(records') \in Nat /\ Len(records) <= Len(records')
  BY DEF Grows
<1>2. QED
  BY <1>1 DEF Grows

LEMMA SettledKept ==
    ASSUME Typed, Grows, NEW r \in Runs, Placed(r), Settled(r),
           run'[r].path = run[r].path, run'[r].since = run[r].since,
           run'[r].upto = run[r].upto
    PROVE  Settled(r)'
<1>1. /\ run[r].since \in Nat /\ run[r].upto \in Nat /\ run[r].upto <= Len(records)
      /\ records \in Seq(Doc) /\ Len(records) \in Nat
  BY DEF Typed, Call, Placed
<1>2. ASSUME NEW n \in 1..Len(records), records[n].register = "documents",
             records[n].path = run[r].path
      PROVE  Settled(r)'
  BY <1>1, <1>2, DocumentsKept DEF Settled, DocumentPaths
<1>3. ASSUME NEW n \in run[r].since + 1..run[r].upto, SelfFiled(n, run[r].path)
      PROVE  Settled(r)'
  <2>1. n \in 1..Len(records)
    BY <1>1
  <2>2. SelfFiled(n, run[r].path)'
    BY <1>1, <1>3, <2>1, DocumentsKept DEF SelfFiled
  <2>3. QED
    BY <2>2 DEF Settled, SelfFiled
<1>4. QED
  BY <1>2, <1>3 DEF Settled, DocumentPaths

LEMMA KeptCall ==
    ASSUME Typed, Grows, NEW s \in Runs, run'[s] = run[s], lifecycle'[s] = lifecycle[s],
           Local(s)
    PROVE  Local(s)'
<1>1. run[s].since \in Nat /\ run[s].upto \in Nat
  BY DEF Typed, Call
<1>2. Len(records) \in Nat /\ Len(records') \in Nat /\ Len(records) <= Len(records')
  BY DEF Typed, Grows
<1>3. Placed(s)'
  BY <1>1, <1>2 DEF Placed, Local
<1>4. LifeOf(s)'
  BY DEF LifeOf, Local
<1>5. Settled(s) => Settled(s)'
  BY SettledKept DEF Local
<1>6. FiledOf(s)'
  BY <1>5 DEF FiledOf, Local
<1>7. QED
  BY <1>3, <1>4, <1>6 DEF Local

LEMMA LocalBegin ==
    ASSUME CallInv, Typed', Grows, NEW r \in Runs, NEW p \in Procs,
           NEW parent \in Runs \cup {NoRun}, NEW kind \in Kinds,
           NEW emitted \in BOOLEAN, NEW installed \in BOOLEAN,
           Begin(r, p, parent, kind, emitted, installed)
    PROVE  Local(r)' /\ \A s \in Runs \ {r} : lifecycle'[s] = lifecycle[s]
<1>1. /\ run'[r].pc = "handler" /\ run'[r].proc = p /\ run'[r].since = Len(records)
      /\ run'[r].upto = 0 /\ run'[r].path = NoPath /\ run'[r].faulty = (~ emitted)
      /\ records' = records
      /\ lifecycle' = [lifecycle EXCEPT ![r] = IF emitted THEN <<"started">> ELSE << >>]
  BY BeginFacts DEF Unfiled
<1>2. lifecycle \in [Runs -> Seq(Events)] /\ Len(records) \in Nat
  BY CallParts DEF Typed
<1>3. /\ emitted => lifecycle'[r] = <<"started">>
      /\ \A s \in Runs \ {r} : lifecycle'[s] = lifecycle[s]
  BY <1>1, <1>2
<1>4. Placed(r)'
  BY <1>1, <1>2 DEF Placed
<1>5. LifeOf(r)'
  BY <1>1, <1>3 DEF LifeOf
<1>6. FiledOf(r)'
  BY <1>1 DEF FiledOf
<1>7. QED
  BY <1>3, <1>4, <1>5, <1>6 DEF Local

\* A call that is refused has its one event.
LEMMA LocalRefused ==
    ASSUME CallInv, Grows, NEW r \in Runs, NEW p \in Procs, NEW kind \in Kinds,
           NEW emitted \in BOOLEAN, Refused(r, p, kind, emitted)
    PROVE  Local(r)' /\ \A s \in Runs \ {r} : lifecycle'[s] = lifecycle[s]
<1>1. /\ run'[r].pc = "ended" /\ run'[r].proc = p /\ run'[r].since = 0
      /\ run'[r].upto = 0 /\ run'[r].path = NoPath /\ run'[r].faulty = (~ emitted)
      /\ p \in Relative
      /\ lifecycle' = [lifecycle EXCEPT ![r] = IF emitted THEN <<"started">> ELSE << >>]
  BY RefusedFacts
<1>2. lifecycle \in [Runs -> Seq(Events)] /\ Len(records') \in Nat
  BY CallParts DEF Typed, Grows
<1>3. /\ emitted => lifecycle'[r] = <<"started">>
      /\ \A s \in Runs \ {r} : lifecycle'[s] = lifecycle[s]
  BY <1>1, <1>2
<1>4. Placed(r)'
  BY <1>1, <1>2 DEF Placed
<1>5. LifeOf(r)'
  BY <1>1, <1>3 DEF LifeOf
<1>6. FiledOf(r)'
  BY <1>1 DEF FiledOf
<1>7. QED
  BY <1>3, <1>4, <1>5, <1>6 DEF Local

\* A call that ends keeps what is known of it.
LEMMA LocalEnds ==
    ASSUME CallInv, Grows, NEW r \in Runs, NEW faulty \in BOOLEAN,
           Ends(r, faulty), Placed(r), run[r].pc # "new", run[r].proc \notin Relative,
           ~ faulty => lifecycle'[r] \in {<<"started", "completed">>, <<"started", "failed">>},
           run[r].path # NoPath /\ ~ faulty => Settled(r)
    PROVE  Local(r)'
<1>1. /\ run'[r].pc = "ended" /\ run'[r].proc = run[r].proc
      /\ run'[r].since \in {0, run[r].since} /\ run'[r].upto \in {0, run[r].upto}
      /\ run[r].path # NoPath => run'[r].since = run[r].since /\ run'[r].upto = run[r].upto
      /\ run'[r].path = run[r].path /\ run'[r].faulty = faulty
  BY DEF Ends, Leaves
<1>2. /\ Len(records) \in Nat /\ Len(records') \in Nat /\ Len(records) <= Len(records')
      /\ run[r].since \in Nat /\ run[r].upto \in Nat /\ Typed
  BY CallParts DEF Typed, Grows, Call
<1>3. Placed(r)'
  BY <1>1, <1>2 DEF Placed
<1>4. LifeOf(r)'
  BY <1>1 DEF LifeOf
<1>5. run[r].path # NoPath /\ ~ faulty => Settled(r)'
  BY <1>1, <1>2, SettledKept
<1>6. FiledOf(r)'
  BY <1>1, <1>5 DEF FiledOf
<1>7. QED
  BY <1>3, <1>4, <1>6 DEF Local

\* What Append does, as the library has it.
LEMMA AppendFacts ==
    ASSUME NEW S, NEW one \in Seq(S), NEW e \in S
    PROVE  /\ Append(one, e) \in Seq(S)
           /\ Len(Append(one, e)) = Len(one) + 1
           /\ \A n \in 1..Len(one) : Append(one, e)[n] = one[n]
           /\ Append(one, e)[Len(one) + 1] = e
BY AppendProperties

LEMMA TwoEvents ==
    ASSUME NEW type \in Events
    PROVE  Append(<<"started">>, type) = <<"started", type>>
<1>1. ASSUME NEW one \in Seq(Events), NEW two \in Seq(Events), NEW more,
             more = Append(one, type), Len(one) = 1, Len(two) = 2,
             two[1] = one[1], two[2] = type
      PROVE  more = two
  <2>1. /\ more \in Seq(Events) /\ Len(more) = Len(one) + 1
        /\ \A n \in 1..Len(one) : more[n] = one[n]
        /\ more[Len(one) + 1] = type
    <3>1. /\ Append(one, type) \in Seq(Events)
          /\ Len(Append(one, type)) = Len(one) + 1
          /\ \A n \in 1..Len(one) : Append(one, type)[n] = one[n]
          /\ Append(one, type)[Len(one) + 1] = type
      BY AppendFacts
    <3>2. QED
      BY <1>1, <3>1
  <2>2. Len(more) = 2 /\ more[1] = one[1] /\ more[2] = type
    BY <1>1, <2>1
  <2>3. more \in [1..2 -> Events] /\ two \in [1..2 -> Events]
    BY <1>1, <2>1, <2>2, LenProperties
  <2>4. \A n \in 1..2 : more[n] = two[n]
    BY <1>1, <2>2
  <2>5. QED
    BY <2>3, <2>4
<1> DEFINE one == <<"started">>
           two == <<"started", type>>
           more == Append(one, type)
<1>2. /\ one \in Seq(Events) /\ Len(one) = 1 /\ two[1] = one[1]
      /\ two \in Seq(Events) /\ Len(two) = 2 /\ two[2] = type
  BY DEF Events
<1>3. more = Append(one, type)
  OBVIOUS
<1> HIDE DEF one, two, more
<1>4. more = two
  BY <1>1, <1>2, <1>3
<1>5. QED
  BY <1>4 DEF one, two, more

LEMMA LocalThrows ==
    ASSUME CallInv, RelativeInv, Grows, NEW r \in Runs, NEW ok \in BOOLEAN, Throws(r, ok), Local(r)
    PROVE  Local(r)' /\ \A s \in Runs \ {r} : lifecycle'[s] = lifecycle[s]
<1> DEFINE faulty == run[r].faulty \/ ~ ok
<1>1. run[r].pc = "handler" /\ Ends(r, faulty)
  BY ThrowsFacts
<1>2. /\ ok => lifecycle'[r] = Append(lifecycle[r], "failed")
      /\ \A s \in Runs \ {r} : lifecycle'[s] = lifecycle[s]
  BY ThrowsFacts, EmitTyped, CallParts DEF Typed, Events
<1>3. ~ faulty => ~ run[r].faulty /\ ok
  OBVIOUS
<1>4. faulty \in BOOLEAN
  OBVIOUS
<1> HIDE DEF faulty
<1>5. ~ faulty => lifecycle[r] = <<"started">>
  BY <1>1, <1>3 DEF Local, LifeOf
<1>6. ~ faulty => lifecycle'[r] = <<"started", "failed">>
  BY <1>2, <1>3, <1>5, TwoEvents DEF Events
<1>7. run[r].path = NoPath /\ Placed(r) /\ run[r].proc \notin Relative
  BY <1>1, ActiveAbsolute DEF Local, Placed, Active
<1>8. Local(r)'
  BY <1>1, <1>4, <1>6, <1>7, LocalEnds
<1>9. QED
  BY <1>2, <1>8

LEMMA LocalStoreThrows ==
    ASSUME CallInv, RelativeInv, Grows, NEW r \in Runs, StoreThrows(r), Local(r)
    PROVE  Local(r)'
<1> DEFINE faulty == TRUE
<1>1. /\ run[r].pc # "new" /\ Ends(r, faulty) /\ Placed(r)
      /\ run[r].proc \notin Relative
  BY StoreThrowsFacts, ActiveAbsolute DEF Local, Active
<1>2. faulty \in BOOLEAN /\ faulty
  OBVIOUS
<1> HIDE DEF faulty
<1>3. QED
  BY <1>1, <1>2, LocalEnds

LEMMA LocalEnd ==
    ASSUME CallInv, RelativeInv, Grows, NEW r \in Runs, End(r), Local(r)
    PROVE  Local(r)'
<1> DEFINE faulty == run[r].faulty
<1>1. /\ run[r].pc = "tick" /\ Ends(r, faulty) /\ Placed(r) /\ lifecycle' = lifecycle
      /\ faulty \in BOOLEAN /\ run[r].proc \notin Relative
  BY EndFacts, ActiveAbsolute DEF Local, CallInv, Call, Active
<1>2. ~ faulty => lifecycle[r] = <<"started", "completed">>
  BY <1>1 DEF Local, LifeOf
<1>3. run[r].path # NoPath /\ ~ faulty => Settled(r)
  BY <1>1 DEF Local, FiledOf
<1> HIDE DEF faulty
<1>4. QED
  BY <1>1, <1>2, <1>3, LocalEnds

LEMMA LocalReturns ==
    ASSUME CallInv, Grows, NEW r \in Runs, NEW path \in Paths \cup {NoPath},
           NEW ok \in BOOLEAN, Returns(r, path, ok), Local(r)
    PROVE  Local(r)' /\ \A s \in Runs \ {r} : lifecycle'[s] = lifecycle[s]
<1> DEFINE faulty == run[r].faulty \/ ~ ok
           pc == IF path = NoPath THEN "fanout" ELSE "file"
<1>1. /\ run[r].pc = "handler" /\ records' = records
      /\ Moves(r, pc, path, RunWindow(r), Len(records), faulty)
  BY ReturnsFacts DEF Unfiled
<1>2. /\ ok => lifecycle'[r] = Append(lifecycle[r], "completed")
      /\ \A s \in Runs \ {r} : lifecycle'[s] = lifecycle[s]
  <2>1. lifecycle' = IF ok THEN [lifecycle EXCEPT ![r] = Append(@, "completed")]
                     ELSE lifecycle
    BY ReturnsFacts
  <2>2. lifecycle \in [Runs -> Seq(Events)] /\ "completed" \in Events
    BY CallParts DEF Typed, Events
  <2>3. QED
    BY <2>1, <2>2, EmitTyped
<1>3. ~ faulty => ~ run[r].faulty /\ ok
  OBVIOUS
<1>4. /\ path = NoPath => pc = "fanout"
      /\ path # NoPath => pc = "file" /\ path \in Paths
  OBVIOUS
<1> HIDE DEF faulty, pc
<1>5. ~ faulty => lifecycle[r] = <<"started">>
  BY <1>1, <1>3 DEF Local, LifeOf
<1>6. ~ faulty => lifecycle'[r] = <<"started", "completed">>
  BY <1>2, <1>3, <1>5, TwoEvents DEF Events
<1>7. /\ run'[r].pc = pc /\ run'[r].proc = run[r].proc /\ run'[r].since = run[r].since
      /\ run'[r].path = path /\ run'[r].window = RunWindow(r)
      /\ run'[r].upto = Len(records) /\ run'[r].faulty = faulty
  BY <1>1 DEF Moves
<1>8. /\ run[r].proc \in Procs /\ run[r].since <= Len(records) /\ Len(records) \in Nat
      /\ run[r].since \in Nat
  BY <1>1, CallParts DEF Local, Placed, Typed, Call
<1>9. Placed(r)'
  BY <1>1, <1>4, <1>7, <1>8 DEF Placed
<1>10. LifeOf(r)'
  BY <1>4, <1>6, <1>7 DEF LifeOf
<1>11. RunWindow(r) \subseteq run[r].since + 1..Len(records)
  BY <1>8 DEF RunWindow, Hot
<1>12. FiledOf(r)'
  BY <1>4, <1>7, <1>11 DEF FiledOf
<1>13. QED
  BY <1>2, <1>9, <1>10, <1>12 DEF Local

\* A call that goes on after its return.
LEMMA LocalMoves ==
    ASSUME CallInv, Grows, NEW r \in Runs, NEW pc \in {"record", "fanout", "tick"},
           NEW window, NEW faulty \in BOOLEAN,
           Moves(r, pc, run[r].path, window, run[r].upto, faulty),
           run[r].pc \in {"file", "record", "fanout"}, Local(r), lifecycle' = lifecycle,
           ~ faulty => ~ run[r].faulty,
           pc = "record" => run[r].path \in Paths,
           pc \in {"fanout", "tick"} /\ run[r].path # NoPath /\ ~ faulty =>
             Settled(r) \/ run[r].path \in DocumentPaths'
    PROVE  Local(r)'
<1>1. /\ run'[r].pc = pc /\ run'[r].proc = run[r].proc /\ run'[r].since = run[r].since
      /\ run'[r].path = run[r].path /\ run'[r].upto = run[r].upto
      /\ run'[r].faulty = faulty
  BY DEF Moves
<1>2. /\ Len(records) \in Nat /\ Len(records') \in Nat /\ Len(records) <= Len(records')
      /\ run[r].since \in Nat /\ run[r].upto \in Nat /\ Typed
  BY CallParts DEF Typed, Grows, Call
<1>3. Placed(r)'
  BY <1>1, <1>2 DEF Placed, Local
<1>4. ~ faulty => lifecycle[r] = <<"started", "completed">>
  BY DEF Local, LifeOf
<1>5. LifeOf(r)'
  BY <1>1, <1>4 DEF LifeOf
<1>6. Settled(r) \/ run[r].path \in DocumentPaths' => Settled(r)'
  BY <1>1, <1>2, SettledKept DEF Settled, Local
<1>7. FiledOf(r)'
  BY <1>1, <1>6 DEF FiledOf
<1>8. QED
  BY <1>3, <1>5, <1>7 DEF Local

\* A call files no record only if there is one, or one that passes for it.
LEMMA LocalFile ==
    ASSUME CallInv, Grows, NEW r \in Runs, File(r), Local(r)
    PROVE  Local(r)'
<1> DEFINE faulty == run[r].faulty
           pc == IF LooksFiled(r) THEN "fanout" ELSE "record"
<1>1. /\ run[r].pc = "file" /\ lifecycle' = lifecycle
      /\ Moves(r, pc, run[r].path, {}, run[r].upto, faulty)
      /\ faulty \in BOOLEAN
  BY FileFacts DEF CallInv, Call
<1>2. run[r].path \in Paths /\ run[r].window \subseteq run[r].since + 1..run[r].upto
  BY <1>1 DEF Local, Placed, FiledOf
<1>3. PriorPaths \subseteq DocumentPaths
  BY DEF PriorPaths, DocumentPaths, Hot
<1>4. LooksFiled(r) => Settled(r)
  BY <1>2, <1>3 DEF LooksFiled, Settled
<1>5. pc \in {"record", "fanout"} /\ (pc = "fanout" => Settled(r))
  BY <1>4
<1> HIDE DEF faulty, pc
<1>6. ~ faulty => ~ run[r].faulty
  BY DEF faulty
<1>7. QED
  BY <1>1, <1>2, <1>5, <1>6, LocalMoves

LEMMA LocalRecord ==
    ASSUME CallInv, Grows, NEW r \in Runs, NEW ok \in BOOLEAN, Record(r, ok), Local(r)
    PROVE  Local(r)'
<1> DEFINE faulty == run[r].faulty \/ ~ ok
           pc == "fanout"
<1>1. /\ run[r].pc = "record" /\ lifecycle' = lifecycle
      /\ IF ok THEN Filed(Document("central", r, "documents", run[r].path)) ELSE Unfiled
      /\ Moves(r, pc, run[r].path, run[r].window, run[r].upto, faulty)
  BY RecordFacts
<1>2. ~ faulty => ~ run[r].faulty /\ ok
  OBVIOUS
<1>3. faulty \in BOOLEAN /\ pc = "fanout"
  OBVIOUS
<1> HIDE DEF faulty, pc
<1>4. run[r].path \in Paths /\ records \in Seq(Doc) /\ Typed /\ "documents" \in Registers
  BY <1>1, CallParts DEF Local, Placed, Typed, Registers
<1>5. ASSUME ok
      PROVE  run[r].path \in DocumentPaths'
  <2>1. /\ Len(records') = Len(records) + 1
        /\ records'[Len(records) + 1] = Document("central", r, "documents", run[r].path)
    BY <1>1, <1>4, <1>5, DocumentIsDoc, FiledGrows
  <2>2. /\ Len(records') \in 1..Len(records') /\ records'[Len(records')].path = run[r].path
        /\ records'[Len(records')].register = "documents"
    BY <1>4, <2>1, DocumentIsDoc
  <2>3. QED
    BY <2>2 DEF DocumentPaths
<1>6. QED
  BY <1>1, <1>2, <1>3, <1>4, <1>5, LocalMoves

LEMMA LocalFanout ==
    ASSUME CallInv, Grows, NEW r \in Runs, Fanout(r), Local(r)
    PROVE  Local(r)'
<1> DEFINE faulty == run[r].faulty
           pc == "tick"
<1>1. /\ run[r].pc = "fanout" /\ lifecycle' = lifecycle
      /\ Moves(r, pc, run[r].path, run[r].window, run[r].upto, faulty)
      /\ faulty \in BOOLEAN
  BY FanoutFacts DEF CallInv, Call
<1>2. run[r].path # NoPath /\ ~ faulty => Settled(r)
  BY <1>1 DEF Local, FiledOf
<1>3. ~ faulty => ~ run[r].faulty
  OBVIOUS
<1>4. pc = "tick"
  OBVIOUS
<1> HIDE DEF faulty, pc
<1>5. QED
  BY <1>1, <1>2, <1>3, <1>4, LocalMoves

\* A call whose process dies, and one of another process.
LEMMA LocalCrash ==
    ASSUME CallInv, Grows, NEW p \in Procs, Crash(p), NEW r \in Runs, Local(r)
    PROVE  Local(r)'
<1>1. IF r \in ActiveIn(p) THEN Leaves(r, "dead", TRUE) ELSE run'[r] = run[r]
  BY CrashFacts
<1>2. lifecycle' = lifecycle
  BY CrashFacts
<1>3. CASE r \notin ActiveIn(p)
  BY <1>1, <1>2, <1>3, KeptCall, CallParts
<1>4. CASE r \in ActiveIn(p)
  <2>1. /\ run'[r].pc = "dead" /\ run'[r].proc = run[r].proc
        /\ run'[r].since \in {0, run[r].since} /\ run'[r].upto \in {0, run[r].upto}
        /\ run'[r].faulty
    BY <1>1, <1>4 DEF Leaves
  <2>2. /\ Len(records) \in Nat /\ Len(records') \in Nat /\ Len(records) <= Len(records')
        /\ run[r].since \in Nat /\ run[r].upto \in Nat /\ run[r].pc # "new"
    BY <1>4, CallParts DEF Typed, Grows, Call, ActiveIn, Active
  <2>3. Placed(r)'
    BY <2>1, <2>2 DEF Placed, Local
  <2>4. LifeOf(r)' /\ FiledOf(r)'
    BY <2>1 DEF LifeOf, FiledOf
  <2>5. QED
    BY <2>3, <2>4 DEF Local
<1>5. QED
  BY <1>3, <1>4

LEMMA LocalStep ==
    ASSUME CallInv, RelativeInv, Next, \A r \in Runs : Local(r)
    PROVE  \A r \in Runs : Local(r)'
<1>1. Typed /\ Typed' /\ Grows
  BY TypedStep, CallParts DEF Becoming
<1>2. ASSUME NEW r \in Runs, Others(r), Local(r)',
             \A s \in Runs \ {r} : lifecycle'[s] = lifecycle[s]
      PROVE  \A s \in Runs : Local(s)'
  <2> SUFFICES ASSUME NEW s \in Runs \ {r}
               PROVE  Local(s)'
    BY <1>2
  <2>1. run'[s] = run[s] /\ lifecycle'[s] = lifecycle[s]
    BY <1>2 DEF Others
  <2>2. QED
    BY <1>1, <2>1, KeptCall
<1>3. ASSUME NEW r \in Runs, NEW p \in Procs, NEW parent \in Runs \cup {NoRun},
             NEW kind \in Kinds, NEW emitted \in BOOLEAN, NEW installed \in BOOLEAN,
             Begin(r, p, parent, kind, emitted, installed)
      PROVE  \A s \in Runs : Local(s)'
  <2>1. Others(r)
    BY <1>3, BeginFacts
  <2>2. Local(r)' /\ \A s \in Runs \ {r} : lifecycle'[s] = lifecycle[s]
    BY <1>1, <1>3, LocalBegin
  <2>3. QED
    BY <1>2, <2>1, <2>2
<1>4. ASSUME NEW r \in Runs, NEW register \in Registers, NEW path \in Paths,
             SelfFile(r, register, path)
      PROVE  \A s \in Runs : Local(s)'
  <2>1. run' = run /\ lifecycle' = lifecycle
    BY <1>4, SelfFileFacts
  <2>2. QED
    BY <1>1, <2>1, KeptCall
<1>5. ASSUME NEW r \in Runs, NEW ok \in BOOLEAN, Throws(r, ok)
      PROVE  \A s \in Runs : Local(s)'
  <2>1. Others(r)
    BY <1>5, ThrowsFacts DEF Ends
  <2>2. QED
    BY <1>1, <1>2, <1>5, <2>1, LocalThrows
<1>6. ASSUME NEW r \in Runs, StoreThrows(r)
      PROVE  \A s \in Runs : Local(s)'
  <2>1. Others(r) /\ lifecycle' = lifecycle
    BY <1>6, StoreThrowsFacts DEF Ends
  <2>2. QED
    BY <1>1, <1>2, <1>6, <2>1, LocalStoreThrows
<1>7. ASSUME NEW r \in Runs, End(r)
      PROVE  \A s \in Runs : Local(s)'
  <2>1. Others(r) /\ lifecycle' = lifecycle
    BY <1>7, EndFacts DEF Ends
  <2>2. QED
    BY <1>1, <1>2, <1>7, <2>1, LocalEnd
<1>8. ASSUME NEW r \in Runs, NEW path \in Paths \cup {NoPath}, NEW ok \in BOOLEAN,
             Returns(r, path, ok)
      PROVE  \A s \in Runs : Local(s)'
  <2>1. Others(r)
    BY <1>8, ReturnsFacts DEF Moves
  <2>2. QED
    BY <1>1, <1>2, <1>8, <2>1, LocalReturns
<1>9. ASSUME NEW r \in Runs, File(r)
      PROVE  \A s \in Runs : Local(s)'
  <2>1. Others(r) /\ lifecycle' = lifecycle
    BY <1>9, FileFacts DEF Moves
  <2>2. QED
    BY <1>1, <1>2, <1>9, <2>1, LocalFile
<1>10. ASSUME NEW r \in Runs, NEW ok \in BOOLEAN, Record(r, ok)
       PROVE  \A s \in Runs : Local(s)'
  <2>1. Others(r) /\ lifecycle' = lifecycle
    BY <1>10, RecordFacts DEF Moves
  <2>2. QED
    BY <1>1, <1>2, <1>10, <2>1, LocalRecord
<1>11. ASSUME NEW r \in Runs, Fanout(r)
       PROVE  \A s \in Runs : Local(s)'
  <2>1. Others(r) /\ lifecycle' = lifecycle
    BY <1>11, FanoutFacts DEF Moves
  <2>2. QED
    BY <1>1, <1>2, <1>11, <2>1, LocalFanout
<1>12. ASSUME NEW p \in Procs, Crash(p)
       PROVE  \A s \in Runs : Local(s)'
  BY <1>1, <1>12, LocalCrash
<1>13. ASSUME NEW r \in Runs, Step(r)
       PROVE  \A s \in Runs : Local(s)'
  BY <1>4, <1>5, <1>6, <1>7, <1>8, <1>9, <1>10, <1>11, <1>13 DEF Step
<1>14. ASSUME NEW r \in Runs, NEW p \in Procs, NEW kind \in Kinds,
              NEW emitted \in BOOLEAN, Refused(r, p, kind, emitted)
       PROVE  \A s \in Runs : Local(s)'
  <2>1. Others(r)
    BY <1>14, RefusedFacts
  <2>2. QED
    BY <1>1, <1>2, <1>14, <2>1, LocalRefused
<1>15. ASSUME NEW n \in 1..Len(records), Archive(n)
       PROVE  \A s \in Runs : Local(s)'
  <2>1. run' = run /\ lifecycle' = lifecycle
    BY <1>15, ArchiveFacts
  <2>2. QED
    BY <1>1, <2>1, KeptCall
<1>16. QED
  BY <1>3, <1>12, <1>13, <1>14, <1>15 DEF Next

(***************************************************************************)
(* What is known of two calls: one waits for the other, or files before it.*)
(***************************************************************************)

Waits ==
    \A r, s \in Runs : Active(s) /\ run[s].parent = r =>
      run[r].pc = "tick" /\ run[r].proc = run[s].proc

OneBusy ==
    \A r, s \in Runs : Busy(r) /\ Busy(s) /\ run[r].proc = run[s].proc => r = s

AheadOf(r) ==
    run[r].pc = "record" =>
      \A n \in Hot : records[n].register = "documents" /\ records[n].path = run[r].path =>
        run[records[n].run].proc # run[r].proc

RecordsBegun == \A n \in 1..Len(records) : run[records[n].run].pc # "new"

LEMMA RunParts ==
    RunInv <=> /\ CallInv /\ RelativeInv /\ DepthInv /\ BoundaryInv
               /\ \A r \in Runs : LifeOf(r) /\ FiledOf(r) /\ AheadOf(r)
               /\ Waits /\ OneBusy /\ RecordsBegun /\ FiledOnce
BY DEF RunInv, LifeInv, FilingInv, LifeOf, FiledOf, Settled, AheadOf, Waits, OneBusy,
       RecordsBegun

\* A step of a call that has begun, as the other calls see it.
Works(r) ==
    /\ Others(r) /\ Active(r) /\ run'[r].pc # "new" /\ run'[r].proc = run[r].proc
    /\ run[r].pc = "tick" => Children(r) = {}
    /\ Active(r)' => run'[r].parent = run[r].parent
    /\ Busy(r)' => Busy(r) \/ Scheduled(r)

LEMMA MovesWorks ==
    ASSUME NEW r \in Runs, NEW pc, NEW path, NEW window, NEW upto, NEW faulty,
           Moves(r, pc, path, window, upto, faulty), pc # "new",
           (run[r].pc = "handler" /\ Scheduled(r)) \/ Busy(r)
    PROVE  Works(r)
BY DEF Moves, Works, Active, Busy

LEMMA EndsWorks ==
    ASSUME NEW r \in Runs, NEW faulty, Ends(r, faulty), Active(r),
           run[r].pc = "tick" => Children(r) = {}
    PROVE  Works(r)
BY DEF Ends, Leaves, Works, Active, Busy

LEMMA StepWorks ==
    ASSUME CallInv, NEW r \in Runs, Step(r)
    PROVE  Works(r) \/ run' = run
<1>1. ASSUME NEW register \in Registers, NEW path \in Paths, SelfFile(r, register, path)
      PROVE  run' = run
  BY <1>1, SelfFileFacts
<1>2. ASSUME NEW ok \in BOOLEAN, Throws(r, ok)
      PROVE  Works(r)
  BY <1>2, ThrowsFacts, EndsWorks DEF Active
<1>3. ASSUME StoreThrows(r)
      PROVE  Works(r)
  BY <1>3, StoreThrowsFacts, EndsWorks DEF Active
<1>4. ASSUME End(r)
      PROVE  Works(r)
  BY <1>4, EndFacts, EndsWorks DEF Active
<1>5. ASSUME NEW path \in Paths \cup {NoPath}, NEW ok \in BOOLEAN, Returns(r, path, ok)
      PROVE  Works(r)
  BY <1>5, ReturnsFacts, MovesWorks
<1>6. ASSUME File(r)
      PROVE  Works(r)
  BY <1>6, FileFacts, MovesWorks DEF Busy
<1>7. ASSUME NEW ok \in BOOLEAN, Record(r, ok)
      PROVE  Works(r)
  BY <1>7, RecordFacts, MovesWorks DEF Busy
<1>8. ASSUME Fanout(r)
      PROVE  Works(r)
  BY <1>8, FanoutFacts, MovesWorks DEF Busy
<1>9. QED
  BY <1>1, <1>2, <1>3, <1>4, <1>5, <1>6, <1>7, <1>8 DEF Step

\* A call keeps its process.
ProcsKept ==
    \A s \in Runs : run[s].pc # "new" => run'[s].pc # "new" /\ run'[s].proc = run[s].proc

LEMMA PairsStep ==
    ASSUME CallInv, Waits, OneBusy, Next
    PROVE  Waits' /\ OneBusy' /\ ProcsKept
<1>1. ASSUME NEW r \in Runs, NEW p \in Procs, NEW parent \in Runs \cup {NoRun},
             NEW kind \in Kinds, NEW emitted \in BOOLEAN, NEW installed \in BOOLEAN,
             Begin(r, p, parent, kind, emitted, installed)
      PROVE  Waits' /\ OneBusy' /\ ProcsKept
  <2>1. /\ run[r].pc = "new" /\ \A s \in Runs \ {r} : run'[s] = run[s]
        /\ run'[r].pc = "handler" /\ run'[r].proc = p /\ run'[r].parent = parent
    BY <1>1, BeginFacts DEF Others
  <2>2. ASSUME parent \in Runs
        PROVE  Active(parent) /\ run[parent].proc = p /\ run[parent].pc = "tick"
    <3>1. MayBegin(p, parent, kind)
      BY <1>1, BeginFacts
    <3>2. QED
      BY <2>2, <3>1, RunAssumption DEF MayBegin, ActiveIn
  <2>3. Waits'
    <3> SUFFICES ASSUME NEW t \in Runs, NEW s \in Runs, Active(s)', run'[s].parent = t
                 PROVE  run'[t].pc = "tick" /\ run'[t].proc = run'[s].proc
      BY DEF Waits
    <3>1. CASE s = r
      BY <2>1, <2>2, <3>1
    <3>2. CASE s # r
      <4>1. Active(s) /\ run[s].parent = t
        BY <2>1, <3>2 DEF Active
      <4>2. run[t].pc = "tick" /\ run[t].proc = run[s].proc
        BY <4>1 DEF Waits
      <4>3. QED
        BY <2>1, <3>2, <4>2
    <3>3. QED
      BY <3>1, <3>2
  <2>4. OneBusy'
    BY <2>1 DEF OneBusy, Busy
  <2>5. QED
    BY <2>1, <2>3, <2>4 DEF ProcsKept
<1>2. ASSUME NEW r \in Runs, Works(r)
      PROVE  Waits' /\ OneBusy' /\ ProcsKept
  <2>1. /\ \A s \in Runs \ {r} : run'[s] = run[s]
        /\ Active(r) /\ run'[r].pc # "new" /\ run'[r].proc = run[r].proc
        /\ run[r].pc = "tick" => Children(r) = {}
        /\ Active(r)' => run'[r].parent = run[r].parent
        /\ Busy(r)' => Busy(r) \/ Scheduled(r)
    BY <1>2 DEF Works, Others
  <2>2. Waits'
    <3> SUFFICES ASSUME NEW t \in Runs, NEW s \in Runs, Active(s)', run'[s].parent = t
                 PROVE  run'[t].pc = "tick" /\ run'[t].proc = run'[s].proc
      BY DEF Waits
    <3>1. Active(s) /\ run[s].parent = t /\ run'[s].proc = run[s].proc
      BY <2>1 DEF Active
    <3>2. run[t].pc = "tick" /\ run[t].proc = run[s].proc /\ s \in Children(t)
      BY <3>1 DEF Waits, Children
    <3>3. t # r
      BY <2>1, <3>2
    <3>4. QED
      BY <2>1, <3>1, <3>2, <3>3
  <2>3. ASSUME NEW s \in Runs \ {r}, Busy(s), run[s].proc = run[r].proc
        PROVE  ~ Scheduled(r)
    BY <2>3 DEF Scheduled, ActiveIn, Active, Busy
  <2>4. ASSUME NEW s \in Runs \ {r}, Busy(s)', Busy(r)', run'[s].proc = run'[r].proc
        PROVE  FALSE
    <3>1. Busy(s) /\ run[s].proc = run[r].proc
      BY <2>1, <2>4 DEF Busy
    <3>2. Busy(r)
      BY <2>1, <2>3, <2>4, <3>1
    <3>3. QED
      BY <3>1, <3>2 DEF OneBusy
  <2>5. OneBusy'
    <3> SUFFICES ASSUME NEW t \in Runs, NEW s \in Runs, Busy(t)', Busy(s)',
                        run'[t].proc = run'[s].proc
                 PROVE  t = s
      BY DEF OneBusy
    <3>1. CASE t # r /\ s # r
      BY <2>1, <3>1 DEF OneBusy, Busy
    <3>2. CASE t = r \/ s = r
      BY <2>4, <3>2
    <3>3. QED
      BY <3>1, <3>2
  <2>6. QED
    BY <2>1, <2>2, <2>5 DEF ProcsKept
<1>3. ASSUME run' = run
      PROVE  Waits' /\ OneBusy' /\ ProcsKept
  BY <1>3 DEF Waits, OneBusy, ProcsKept, Active, Busy
<1>4. ASSUME NEW p \in Procs, Crash(p)
      PROVE  Waits' /\ OneBusy' /\ ProcsKept
  <2>1. ASSUME NEW s \in Runs
        PROVE  \/ /\ Active(s) /\ run[s].proc = p /\ run'[s].pc = "dead"
                  /\ run'[s].proc = run[s].proc
               \/ (Active(s) => run[s].proc # p) /\ run'[s] = run[s]
    BY <1>4, CrashFacts DEF Leaves, ActiveIn
  <2>2. Waits'
    <3> SUFFICES ASSUME NEW t \in Runs, NEW s \in Runs, Active(s)', run'[s].parent = t
                 PROVE  run'[t].pc = "tick" /\ run'[t].proc = run'[s].proc
      BY DEF Waits
    <3>1. run'[s] = run[s] /\ Active(s) /\ run[s].proc # p
      BY <2>1 DEF Active
    <3>2. run[t].pc = "tick" /\ run[t].proc = run[s].proc
      BY <3>1 DEF Waits
    <3>3. run'[t] = run[t]
      BY <2>1, <3>1, <3>2
    <3>4. QED
      BY <3>1, <3>2, <3>3
  <2>3. OneBusy'
    BY <2>1 DEF OneBusy, Busy
  <2>4. ProcsKept
    BY <2>1 DEF ProcsKept, Active
  <2>5. QED
    BY <2>2, <2>3, <2>4
<1>5. ASSUME NEW r \in Runs, NEW p \in Procs, NEW kind \in Kinds,
             NEW emitted \in BOOLEAN, Refused(r, p, kind, emitted)
      PROVE  Waits' /\ OneBusy' /\ ProcsKept
  <2>1. /\ run[r].pc = "new" /\ run'[r].pc = "ended"
        /\ \A s \in Runs \ {r} : run'[s] = run[s]
    BY <1>5, RefusedFacts DEF Others
  <2>2. Waits'
    <3> SUFFICES ASSUME NEW t \in Runs, NEW s \in Runs, Active(s)', run'[s].parent = t
                 PROVE  run'[t].pc = "tick" /\ run'[t].proc = run'[s].proc
      BY DEF Waits
    <3>1. run'[s] = run[s] /\ Active(s)
      BY <2>1 DEF Active
    <3>2. run[t].pc = "tick" /\ run[t].proc = run[s].proc
      BY <3>1 DEF Waits
    <3>3. QED
      BY <2>1, <3>1, <3>2
  <2>3. OneBusy'
    BY <2>1 DEF OneBusy, Busy
  <2>4. QED
    BY <2>1, <2>2, <2>3 DEF ProcsKept
<1>6. ASSUME NEW n \in 1..Len(records), Archive(n)
      PROVE  run' = run
  BY <1>6, ArchiveFacts
<1>7. QED
  BY <1>1, <1>2, <1>3, <1>4, <1>5, <1>6, StepWorks DEF Next

\* Records of other processes do not stand in the way.
LEMMA AheadKept ==
    ASSUME Typed, Grows, ProcsKept, RecordsBegun, NEW s \in Runs, AheadOf(s),
           run[s].pc = "record", run'[s].path = run[s].path, run'[s].proc = run[s].proc,
           \A n \in 1..Len(records') : n \notin 1..Len(records) =>
             run'[records'[n].run].proc # run[s].proc
    PROVE  AheadOf(s)'
<1> SUFFICES ASSUME NEW n \in 1..Len(records'), n \notin archived',
                    records'[n].register = "documents", records'[n].path = run'[s].path
             PROVE  run'[records'[n].run].proc # run'[s].proc
  BY DEF AheadOf, Hot
<1>1. CASE n \in 1..Len(records)
  <2>1. records'[n] = records[n] /\ run[records[n].run].proc # run[s].proc
    BY <1>1 DEF Grows, AheadOf, Hot
  <2>2. records[n].run \in Runs /\ run[records[n].run].pc # "new"
    <3>1. records[n] \in Doc
      BY <1>1, ElementOfSeq DEF Typed
    <3>2. QED
      BY <1>1, <3>1 DEF Doc, RecordsBegun
  <2>3. run'[records[n].run].proc = run[records[n].run].proc
    BY <2>2 DEF ProcsKept
  <2>4. QED
    BY <2>1, <2>3
<1>2. CASE n \notin 1..Len(records)
  BY <1>2
<1>3. QED
  BY <1>1, <1>2

\* What a call has filed, none of its process is about to file.
LEMMA FilesApart ==
    ASSUME Typed, Grows, ProcsKept, RecordsBegun, NEW r \in Runs, NEW doc \in Doc,
           Filed(doc), doc.run = r, run[r].pc # "new",
           NEW s \in Runs, AheadOf(s), run[s].pc = "record",
           run'[s].path = run[s].path, run'[s].proc = run[s].proc,
           run[r].proc # run[s].proc
    PROVE  AheadOf(s)'
<1>1. Len(records') = Len(records) + 1 /\ records'[Len(records) + 1] = doc
  BY FiledGrows
<1>2. Len(records) \in Nat
  BY DEF Typed
<1>3. ASSUME NEW n \in 1..Len(records'), n \notin 1..Len(records)
      PROVE  run'[records'[n].run].proc # run[s].proc
  <2>1. n = Len(records) + 1
    BY <1>1, <1>2, <1>3
  <2>2. records'[n].run = r
    BY <1>1, <2>1
  <2>3. run'[r].proc = run[r].proc
    BY DEF ProcsKept
  <2>4. QED
    BY <2>2, <2>3
<1>4. QED
  BY <1>3, AheadKept

LEMMA NothingFiled ==
    ASSUME Typed, Unfiled, ProcsKept, RecordsBegun, NEW s \in Runs, AheadOf(s),
           run[s].pc = "record", run'[s].path = run[s].path, run'[s].proc = run[s].proc
    PROVE  AheadOf(s)'
<1>1. Grows /\ records' = records
  BY SameGrows DEF Unfiled
<1>2. QED
  BY <1>1, AheadKept

\* Two calls of a process are not both between the look-up and the record, and an
\* outside one is at an await.
LEMMA NotBoth ==
    ASSUME OneBusy, NEW r \in Runs, NEW s \in Runs, s # r, run[s].pc = "record",
           Scheduled(r) \/ Busy(r)
    PROVE  run[r].proc # run[s].proc
BY DEF OneBusy, Busy, Scheduled, ActiveIn, Active

LEMMA AheadStep ==
    ASSUME CallInv, Waits, OneBusy, RecordsBegun, \A r \in Runs : AheadOf(r), Next
    PROVE  \A r \in Runs : AheadOf(r)'
<1>1. Typed /\ Grows /\ (\A r \in Runs : Placed(r)) /\ Typed'
  BY TypedStep, CallParts DEF Becoming
<1>2. ProcsKept
  BY PairsStep
<1>3. ASSUME NEW r \in Runs, Others(r), Unfiled, run'[r].pc # "record"
      PROVE  \A s \in Runs : AheadOf(s)'
  <2> SUFFICES ASSUME NEW s \in Runs, run'[s].pc = "record"
               PROVE  AheadOf(s)'
    BY DEF AheadOf
  <2>1. run'[s] = run[s]
    BY <1>3 DEF Others
  <2>2. QED
    BY <1>1, <1>2, <1>3, <2>1, NothingFiled
<1>4. ASSUME NEW r \in Runs, NEW p \in Procs, NEW parent \in Runs \cup {NoRun},
             NEW kind \in Kinds, NEW emitted \in BOOLEAN, NEW installed \in BOOLEAN,
             Begin(r, p, parent, kind, emitted, installed)
      PROVE  \A s \in Runs : AheadOf(s)'
  BY <1>3, <1>4, BeginFacts
<1>5. ASSUME NEW r \in Runs, NEW register \in Registers, NEW path \in Paths,
             SelfFile(r, register, path)
      PROVE  \A s \in Runs : AheadOf(s)'
  <2>1. /\ run[r].pc = "handler" /\ Scheduled(r) /\ run' = run
        /\ Filed(Document("own", r, register, path))
    BY <1>5, SelfFileFacts
  <2>2. Document("own", r, register, path) \in Doc /\ Document("own", r, register, path).run = r
    BY DocumentIsDoc
  <2> SUFFICES ASSUME NEW s \in Runs, run'[s].pc = "record"
               PROVE  AheadOf(s)'
    BY DEF AheadOf
  <2>3. run[s].pc = "record" /\ s # r
    BY <2>1
  <2>4. run[r].proc # run[s].proc
    BY <2>1, <2>3, NotBoth
  <2>5. QED
    BY <1>1, <1>2, <2>1, <2>2, <2>3, <2>4, FilesApart
<1>6. ASSUME NEW r \in Runs, NEW ok \in BOOLEAN, Throws(r, ok)
      PROVE  \A s \in Runs : AheadOf(s)'
  BY <1>3, <1>6, ThrowsFacts DEF Ends, Leaves
<1>7. ASSUME NEW r \in Runs, StoreThrows(r)
      PROVE  \A s \in Runs : AheadOf(s)'
  BY <1>3, <1>7, StoreThrowsFacts DEF Ends, Leaves
<1>8. ASSUME NEW r \in Runs, End(r)
      PROVE  \A s \in Runs : AheadOf(s)'
  BY <1>3, <1>8, EndFacts DEF Ends, Leaves
<1>9. ASSUME NEW r \in Runs, NEW path \in Paths \cup {NoPath}, NEW ok \in BOOLEAN,
             Returns(r, path, ok)
      PROVE  \A s \in Runs : AheadOf(s)'
  BY <1>3, <1>9, ReturnsFacts DEF Moves
<1>10. ASSUME NEW r \in Runs, File(r)
       PROVE  \A s \in Runs : AheadOf(s)'
  <2>1. /\ Unfiled /\ Others(r)
        /\ run'[r].pc = "record" => run[r].path \notin PriorPaths /\ run'[r].path = run[r].path
    BY <1>10, FileFacts DEF Moves, LooksFiled
  <2>2. AheadOf(r)'
    BY <2>1 DEF AheadOf, PriorPaths, Hot, Unfiled
  <2>3. ASSUME NEW s \in Runs, s # r, run'[s].pc = "record"
        PROVE  AheadOf(s)'
    <3>1. run'[s] = run[s]
      BY <2>1, <2>3 DEF Others
    <3>2. QED
      BY <1>1, <1>2, <2>1, <2>3, <3>1, NothingFiled
  <2>4. QED
    BY <2>2, <2>3 DEF AheadOf
<1>11. ASSUME NEW r \in Runs, NEW ok \in BOOLEAN, Record(r, ok)
       PROVE  \A s \in Runs : AheadOf(s)'
  <2>1. /\ run[r].pc = "record" /\ Others(r) /\ run'[r].pc # "record"
        /\ IF ok THEN Filed(Document("central", r, "documents", run[r].path)) ELSE Unfiled
    BY <1>11, RecordFacts DEF Moves
  <2>2. CASE ~ ok
    BY <1>3, <2>1, <2>2
  <2>3. CASE ok
    <3> SUFFICES ASSUME NEW s \in Runs, run'[s].pc = "record"
                 PROVE  AheadOf(s)'
      BY DEF AheadOf
    <3>1. run[r].path \in Paths
      BY <1>1, <2>1 DEF Placed
    <3>2. /\ Document("central", r, "documents", run[r].path) \in Doc
          /\ Document("central", r, "documents", run[r].path).run = r
      BY <3>1, DocumentIsDoc DEF Registers
    <3>3. s # r /\ run'[s] = run[s]
      BY <2>1 DEF Others
    <3>4. run[r].proc # run[s].proc
      BY <2>1, <3>3, NotBoth DEF Busy
    <3>5. QED
      BY <1>1, <1>2, <2>1, <2>3, <3>2, <3>3, <3>4, FilesApart
  <2>4. QED
    BY <2>2, <2>3
<1>12. ASSUME NEW r \in Runs, Fanout(r)
       PROVE  \A s \in Runs : AheadOf(s)'
  BY <1>3, <1>12, FanoutFacts DEF Moves
<1>13. ASSUME NEW p \in Procs, Crash(p)
       PROVE  \A s \in Runs : AheadOf(s)'
  <2> SUFFICES ASSUME NEW s \in Runs, run'[s].pc = "record"
               PROVE  AheadOf(s)'
    BY DEF AheadOf
  <2>1. run'[s] = run[s] /\ Unfiled
    BY <1>13, CrashFacts DEF Leaves
  <2>2. QED
    BY <1>1, <1>2, <2>1, NothingFiled
<1>14. ASSUME NEW r \in Runs, Step(r)
       PROVE  \A s \in Runs : AheadOf(s)'
  BY <1>5, <1>6, <1>7, <1>8, <1>9, <1>10, <1>11, <1>12, <1>14 DEF Step
<1>15. ASSUME NEW r \in Runs, NEW p \in Procs, NEW kind \in Kinds,
              NEW emitted \in BOOLEAN, Refused(r, p, kind, emitted)
       PROVE  \A s \in Runs : AheadOf(s)'
  BY <1>3, <1>15, RefusedFacts
<1>16. ASSUME NEW n \in 1..Len(records), Archive(n)
       PROVE  \A s \in Runs : AheadOf(s)'
  <2>1. run' = run /\ Unfiled
    BY <1>16, ArchiveFacts
  <2> SUFFICES ASSUME NEW s \in Runs, run'[s].pc = "record"
               PROVE  AheadOf(s)'
    BY DEF AheadOf
  <2>2. QED
    BY <1>1, <1>2, <2>1, NothingFiled
<1>17. QED
  BY <1>4, <1>13, <1>14, <1>15, <1>16 DEF Next

\* The records of a step: none; a handler's own; or a central one, of a call that has
\* looked.
LEMMA NewRecords ==
    ASSUME CallInv, Next
    PROVE  \/ Unfiled
           \/ \E r \in Runs, doc \in Doc :
                /\ Filed(doc) /\ doc.run = r /\ run[r].pc # "new"
                /\ doc.by = "own" \/ (run[r].pc = "record" /\ doc.path = run[r].path)
<1>1. \A r \in Runs : Placed(r)
  BY CallParts
<1>2. ASSUME NEW r \in Runs, NEW p \in Procs, NEW parent \in Runs \cup {NoRun},
             NEW kind \in Kinds, NEW emitted \in BOOLEAN, NEW installed \in BOOLEAN,
             Begin(r, p, parent, kind, emitted, installed)
      PROVE  Unfiled
  BY <1>2, BeginFacts
<1>3. ASSUME NEW r \in Runs, NEW register \in Registers, NEW path \in Paths,
             SelfFile(r, register, path)
      PROVE  \E doc \in Doc : /\ Filed(doc) /\ doc.run = r /\ run[r].pc # "new"
                             /\ doc.by = "own"
  <2>1. run[r].pc = "handler" /\ Filed(Document("own", r, register, path))
    BY <1>3, SelfFileFacts
  <2>2. /\ Document("own", r, register, path) \in Doc /\ Document("own", r, register, path).run = r
        /\ Document("own", r, register, path).by = "own"
    BY DocumentIsDoc
  <2>3. QED
    BY <2>1, <2>2
<1>4. ASSUME NEW r \in Runs, NEW ok \in BOOLEAN, Record(r, ok)
      PROVE  \/ Unfiled
             \/ \E doc \in Doc : /\ Filed(doc) /\ doc.run = r
                                  /\ run[r].pc = "record" /\ doc.path = run[r].path
  <2>1. /\ run[r].pc = "record"
        /\ IF ok THEN Filed(Document("central", r, "documents", run[r].path)) ELSE Unfiled
    BY <1>4, RecordFacts
  <2>2. run[r].path \in Paths
    BY <1>1, <2>1 DEF Placed
  <2>3. /\ Document("central", r, "documents", run[r].path) \in Doc
        /\ Document("central", r, "documents", run[r].path).run = r
        /\ Document("central", r, "documents", run[r].path).path = run[r].path
    BY <2>2, DocumentIsDoc DEF Registers
  <2>4. QED
    BY <2>1, <2>3
<1>5. ASSUME NEW r \in Runs, NEW ok \in BOOLEAN, Throws(r, ok)
      PROVE  Unfiled
  BY <1>5, ThrowsFacts
<1>6. ASSUME NEW r \in Runs, StoreThrows(r)
      PROVE  Unfiled
  BY <1>6, StoreThrowsFacts
<1>7. ASSUME NEW r \in Runs, End(r)
      PROVE  Unfiled
  BY <1>7, EndFacts
<1>8. ASSUME NEW r \in Runs, NEW path \in Paths \cup {NoPath}, NEW ok \in BOOLEAN,
             Returns(r, path, ok)
      PROVE  Unfiled
  BY <1>8, ReturnsFacts
<1>9. ASSUME NEW r \in Runs, File(r)
      PROVE  Unfiled
  BY <1>9, FileFacts
<1>10. ASSUME NEW r \in Runs, Fanout(r)
       PROVE  Unfiled
  BY <1>10, FanoutFacts
<1>11. ASSUME NEW p \in Procs, Crash(p)
       PROVE  Unfiled
  BY <1>11, CrashFacts
<1> DEFINE Files(r) == \E doc \in Doc :
             /\ Filed(doc) /\ doc.run = r /\ run[r].pc # "new"
             /\ doc.by = "own" \/ (run[r].pc = "record" /\ doc.path = run[r].path)
<1>12. ASSUME NEW r \in Runs, Step(r)
       PROVE  Unfiled \/ Files(r)
  BY <1>3, <1>4, <1>5, <1>6, <1>7, <1>8, <1>9, <1>10, <1>12 DEF Step
<1>13. (\E r \in Runs : Files(r)) =>
         \E r \in Runs, doc \in Doc :
            /\ Filed(doc) /\ doc.run = r /\ run[r].pc # "new"
            /\ doc.by = "own" \/ (run[r].pc = "record" /\ doc.path = run[r].path)
  OBVIOUS
<1> HIDE DEF Files
<1>14. ASSUME NEW r \in Runs, NEW p \in Procs, NEW kind \in Kinds,
              NEW emitted \in BOOLEAN, Refused(r, p, kind, emitted)
       PROVE  Unfiled
  BY <1>14, RefusedFacts
<1>15. ASSUME NEW n \in 1..Len(records), Archive(n)
       PROVE  Unfiled
  BY <1>15, ArchiveFacts
<1>16. Unfiled \/ \E r \in Runs : Files(r)
  BY <1>2, <1>11, <1>12, <1>14, <1>15 DEF Next
<1>17. QED
  BY <1>13, <1>16

LEMMA RecordsStep ==
    ASSUME CallInv, Waits, OneBusy, RecordsBegun, FiledOnce, \A r \in Runs : AheadOf(r),
           Next
    PROVE  RecordsBegun' /\ FiledOnce'
<1>1. Typed /\ Grows /\ ProcsKept
  BY TypedStep, PairsStep, CallParts DEF Becoming
<1>2. Len(records) \in Nat
  BY <1>1 DEF Typed
<1>3. ASSUME NEW n \in 1..Len(records)
      PROVE  /\ records'[n] = records[n] /\ run'[records[n].run].pc # "new"
             /\ run'[records[n].run].proc = run[records[n].run].proc
  <2>1. records[n] \in Doc
    BY <1>1, ElementOfSeq DEF Typed
  <2>2. records[n].run \in Runs /\ run[records[n].run].pc # "new"
    BY <2>1 DEF Doc, RecordsBegun
  <2>3. QED
    BY <1>1, <2>2 DEF Grows, ProcsKept
<1>4. CASE Unfiled
  BY <1>3, <1>4 DEF RecordsBegun, FiledOnce, Unfiled
<1>5. ASSUME NEW r \in Runs, NEW doc \in Doc, Filed(doc), doc.run = r, run[r].pc # "new",
             doc.by = "own" \/ (run[r].pc = "record" /\ doc.path = run[r].path)
      PROVE  RecordsBegun' /\ FiledOnce'
  <2>1. Len(records') = Len(records) + 1 /\ records'[Len(records) + 1] = doc
    BY <1>1, <1>5, FiledGrows
  <2>2. run'[r].pc # "new" /\ run'[r].proc = run[r].proc
    BY <1>1, <1>5 DEF ProcsKept
  <2>3. \A n \in 1..Len(records') : n \in 1..Len(records) \/ n = Len(records) + 1
    BY <1>2, <2>1
  <2>4. RecordsBegun'
    <3> SUFFICES ASSUME NEW n \in 1..Len(records')
                 PROVE  run'[records'[n].run].pc # "new"
      BY DEF RecordsBegun
    <3>1. CASE n \in 1..Len(records)
      BY <1>3, <3>1
    <3>2. CASE n = Len(records) + 1
      BY <1>5, <2>1, <2>2, <3>2
    <3>3. QED
      BY <2>3, <3>1, <3>2
  <2>5. FiledOnce'
    <3> SUFFICES ASSUME NEW n \in 1..Len(records'), records'[n].by = "central",
                        NEW m \in 1..n - 1, m \notin archived',
                        records'[m].register = "documents",
                        records'[m].path = records'[n].path
                 PROVE  run'[records'[m].run].proc # run'[records'[n].run].proc
      BY DEF FiledOnce
    <3>1. m \in 1..Len(records) /\ m \notin archived
      BY <1>1, <1>2, <2>1 DEF Grows
    <3>2. CASE n \in 1..Len(records)
      BY <1>3, <3>1, <3>2 DEF FiledOnce
    <3>3. CASE n = Len(records) + 1
      <4>1. /\ run[r].pc = "record" /\ records[m].path = run[r].path
            /\ records[m].register = "documents"
        BY <1>3, <1>5, <2>1, <3>1, <3>3
      <4>2. run[records[m].run].proc # run[r].proc
        BY <3>1, <4>1 DEF AheadOf, Hot
      <4>3. QED
        BY <1>3, <1>5, <2>1, <2>2, <3>1, <3>3, <4>2
    <3>4. QED
      BY <2>3, <3>2, <3>3
  <2>6. QED
    BY <2>4, <2>5
<1>6. QED
  BY <1>4, <1>5, NewRecords

(***************************************************************************)
(* The invariant.                                                          *)
(***************************************************************************)

LEMMA RunStep ==
    ASSUME RunInv, Next
    PROVE  RunInv'
<1>1. /\ CallInv /\ RelativeInv /\ DepthInv /\ BoundaryInv /\ Waits /\ OneBusy
      /\ RecordsBegun /\ FiledOnce
      /\ \A r \in Runs : LifeOf(r) /\ FiledOf(r) /\ AheadOf(r)
  BY RunParts
<1>2. \A r \in Runs : Local(r)
  BY <1>1, CallParts DEF Local
<1>3. \A r \in Runs : Local(r)'
  BY <1>1, <1>2, LocalStep
<1>4. Typed' /\ IsFiniteSet(AllActive')
  BY <1>1, TypedStep, FiniteStep DEF Becoming
<1>5. CallInv'
  BY <1>3, <1>4 DEF CallInv, Local, Typed, Doc, Events, AllActive, Placed
<1>6. RelativeInv' /\ DepthInv' /\ BoundaryInv'
  BY <1>1, RelativeStep, DepthStep, BoundaryStep
<1>7. Waits' /\ OneBusy'
  BY <1>1, PairsStep
<1>8. \A r \in Runs : AheadOf(r)'
  BY <1>1, AheadStep
<1>9. RecordsBegun' /\ FiledOnce'
  BY <1>1, RecordsStep
<1>10. LifeInv'
  BY <1>3, <1>7 DEF LifeInv, Local, LifeOf, Waits
<1>11. FilingInv'
  BY <1>3, <1>7, <1>8, <1>9 DEF FilingInv, Local, FiledOf, Settled, OneBusy, AheadOf, RecordsBegun
<1>12. QED
  BY <1>5, <1>6, <1>10, <1>11 DEF RunInv

LEMMA RunInit ==
    ASSUME Init
    PROVE  RunInv
<1>1. /\ records = << >> /\ archived = {} /\ lifecycle = [r \in Runs |-> << >>]
      /\ depth = [p \in Procs |-> 0] /\ wrapped = [p \in Procs |-> FALSE]
      /\ cwd = [p \in Procs |-> "host"] /\ run = [r \in Runs |-> NotBegun] /\ leaked = {}
  BY DEF Init
<1>2. \A r \in Runs : /\ run[r] = NotBegun /\ run[r].pc = "new" /\ run[r].since = 0
                      /\ run[r].upto = 0 /\ run[r].path = NoPath
  BY <1>1 DEF NotBegun
<1>3. \A r \in Runs : ~ Active(r) /\ ~ Busy(r)
  BY <1>2 DEF Active, Busy
<1>4. AllActive = {} /\ \A p \in Procs : ActiveIn(p) = {}
  BY <1>3 DEF AllActive, ActiveIn
<1>5. Len(records) = 0 /\ 1..Len(records) = {}
  BY <1>1
<1>6. Typed
  <2>1. run \in [Runs -> Call]
    BY <1>1, NotBegunIsCall
  <2>2. records \in Seq(Doc)
    BY <1>1
  <2>3. lifecycle \in [Runs -> Seq(Events)]
    <3>1. << >> \in Seq(Events)
      OBVIOUS
    <3>2. QED
      BY <1>1, <3>1
  <2>4. wrapped \in [Procs -> BOOLEAN]
    BY <1>1
  <2>5. depth \in [Procs -> Nat] /\ cwd \in [Procs -> {"host", "root"}]
    BY <1>1
  <2>6. QED
    BY <1>1, <2>1, <2>2, <2>3, <2>4, <2>5 DEF Typed
<1>7. CallInv
  BY <1>2, <1>4, <1>5, <1>6, FS_EmptySet, CallParts DEF Placed
<1>8. DepthInv /\ RelativeInv
  BY <1>1, <1>4, FS_EmptySet, RunAssumption DEF DepthInv, RelativeInv
<1>9. BoundaryInv
  <2>1. \A p \in Procs : ~ wrapped[p] /\ cwd[p] # "root"
    BY <1>1
  <2>2. QED
    BY <1>3, <2>1 DEF BoundaryInv, BoundaryHeld
<1>10. \A r \in Runs : LifeOf(r) /\ FiledOf(r) /\ AheadOf(r)
  BY <1>2 DEF LifeOf, FiledOf, AheadOf
<1>11. Waits /\ OneBusy
  BY <1>3 DEF Waits, OneBusy
<1>12. RecordsBegun /\ FiledOnce
  BY <1>5 DEF RecordsBegun, FiledOnce
<1>13. QED
  BY <1>7, <1>8, <1>9, <1>10, <1>11, <1>12, RunParts

LEMMA RunInvariant == Spec => []RunInv
<1>1. RunInv /\ UNCHANGED vars => RunInv'
  <2> SUFFICES ASSUME RunInv, UNCHANGED vars
               PROVE  RunInv'
    OBVIOUS
  <2>1. /\ records' = records /\ lifecycle' = lifecycle /\ depth' = depth
        /\ wrapped' = wrapped /\ cwd' = cwd /\ run' = run /\ leaked' = leaked
        /\ archived' = archived
    BY DEF vars
  <2>2. CallInv' /\ RelativeInv' /\ DepthInv'
    BY <2>1 DEF RunInv, CallInv, RelativeInv, DepthInv, ActiveIn, Active
  <2>3. BoundaryInv'
    BY <2>1 DEF RunInv, BoundaryInv, BoundaryHeld, ActiveIn, Active
  <2>4. LifeInv'
    BY <2>1 DEF RunInv, LifeInv, Active
  <2>5. FilingInv'
    BY <2>1 DEF RunInv, FilingInv, FiledOnce, DocumentPaths, SelfFiled, Hot, Busy
  <2>6. QED
    BY <2>2, <2>3, <2>4, <2>5 DEF RunInv
<1>2. RunInv /\ [Next]_vars => RunInv'
  BY <1>1, RunStep
<1>3. Init => RunInv
  BY RunInit
<1>4. QED
  BY <1>2, <1>3, PTL DEF Spec

\* runnerWorkerDepth counts the active calls of its process, whatever handlers throw;
\* types hold.
THEOREM RunTypeCorrect == Spec => []TypeOK
<1>1. RunInv => TypeOK
  <2> SUFFICES ASSUME RunInv
               PROVE  TypeOK
    OBVIOUS
  <2>1. Typed /\ (\A r \in Runs : Placed(r)) /\ DepthInv
    BY CallParts DEF RunInv
  <2>2. ASSUME NEW r \in Runs
        PROVE  {run[r].since, run[r].upto} \subseteq 0..Len(records)
    <3>1. run[r].since \in Nat /\ run[r].upto \in Nat /\ Len(records) \in Nat
      BY <2>1 DEF Typed, Call
    <3>2. QED
      BY <2>1, <3>1 DEF Placed
  <2>3. \A p \in Procs : p \notin leaked => depth[p] = Cardinality(ActiveIn(p))
    BY <2>1 DEF DepthInv
  <2>4. \A p \in Procs : depth[p] \in Nat /\ wrapped[p] \in BOOLEAN /\ cwd[p] \in {"host", "root"}
    BY <2>1 DEF Typed
  <2>5. QED
    BY <2>2, <2>3, <2>4 DEF TypeOK
<1>2. QED
  BY <1>1, RunInvariant, PTL

\* restoreWorker leaves the host process as it found it, for any number of nested and
\* overlapping calls that return or throw.
THEOREM RunHostRestored == Spec => []HostRestored
<1>1. RunInv => HostRestored
  <2> SUFFICES ASSUME RunInv, NEW p \in Procs \ leaked, ActiveIn(p) = {}
               PROVE  depth[p] = 0 /\ ~ wrapped[p] /\ cwd[p] = "host"
    BY DEF HostRestored
  <2>1. depth[p] = 0
    BY FS_EmptySet DEF RunInv, DepthInv
  <2>2. ~ (wrapped[p] \/ cwd[p] = "root")
    BY BoundaryParts DEF RunInv, PutThere
  <2>3. cwd[p] \in {"host", "root"}
    BY DEF RunInv, CallInv
  <2>4. QED
    BY <2>1, <2>2, <2>3
<1>2. QED
  BY <1>1, RunInvariant, PTL

\* No call that begins, ends or throws takes the boundary away from the one that
\* installed it.
THEOREM RunBoundaryHeld == Spec => []BoundaryHeld
<1>1. RunInv => BoundaryHeld
  BY DEF RunInv, BoundaryInv
<1>2. QED
  BY <1>1, RunInvariant, PTL

\* Every call has its two life-cycle events in order, or Started alone where the root is
\* not absolute; a call that the bus tick makes comes after those of the call that ticked.
THEOREM RunPaired == Spec => []Paired
<1>1. RunInv => Paired
  <2> SUFFICES ASSUME RunInv, NEW r \in Runs, ~ run[r].faulty
               PROVE  /\ run[r].pc = "ended" =>
                           IF run[r].proc \in Relative THEN lifecycle[r] = <<"started">>
                           ELSE lifecycle[r] \in {<<"started", "completed">>,
                                                  <<"started", "failed">>}
                      /\ Children(r) # {} => lifecycle[r] = <<"started", "completed">>
    BY DEF Paired
  <2>1. LifeOf(r) /\ Waits
    BY RunParts
  <2>2. Children(r) # {} => run[r].pc = "tick"
    BY <2>1 DEF Waits, Children
  <2>3. QED
    BY <2>1, <2>2 DEF LifeOf
<1>2. QED
  BY <1>1, RunInvariant, PTL

\* record-deliverable.ts loses no deliverable, wherever earlier records are, except to
\* what handlerSelfFiled takes for the handler's own record of it.
THEOREM RunDeliverableFiled == Spec => []DeliverableFiled
<1>1. RunInv => DeliverableFiled
  <2> SUFFICES ASSUME RunInv, NEW r \in Runs, run[r].pc = "ended", run[r].path # NoPath,
                      ~ run[r].faulty
               PROVE  \/ \E n \in 1..Len(records) : /\ records[n].register = "documents"
                                                    /\ records[n].path = run[r].path
                      \/ \E n \in run[r].since + 1..run[r].upto : SelfFiled(n, run[r].path)
    BY DEF DeliverableFiled
  <2>1. FiledOf(r)
    BY RunParts
  <2>2. QED
    BY <2>1 DEF FiledOf, Settled, DocumentPaths
<1>2. QED
  BY <1>1, RunInvariant, PTL

\* Within a process the look-up of record-deliverable.ts is good until its own record,
\* as far as the hot table goes.
THEOREM RunFiledOnce == Spec => []FiledOnce
<1>1. RunInv => FiledOnce
  BY RunParts
<1>2. QED
  BY <1>1, RunInvariant, PTL
=============================================================================

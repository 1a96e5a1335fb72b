--------------------------- MODULE AppendOnlyLog ---------------------------
(***************************************************************************)
(* What the event store promises its readers: a log of events that only    *)
(* grows.  An entry is a pair <<sequence, event id>>; an append takes a    *)
(* sequence number above every number in use and an id that is not in use. *)
(* Nothing else ever changes the log: archiving, extraction, retagging,    *)
(* failed calls and crashes are invisible at this level.                   *)
(***************************************************************************)
EXTENDS Naturals

CONSTANT Ids        \* the event ids

VARIABLE log        \* the set of entries a full replay yields

Init == log = {}

Entry == (Nat \ {0}) \X Ids

Append(e) ==
    /\ e \in Entry
    /\ \A f \in log : f[1] < e[1] /\ f[2] # e[2]
    /\ log' = log \cup {e}

Next == \E e \in log' \ log : Append(e)

Spec == Init /\ [][Next]_log
=============================================================================

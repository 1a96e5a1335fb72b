-------------------------- MODULE MCEventTriggerBus --------------------------
(* Model-checking instances of EventTriggerBus.                              *)
EXTENDS EventTriggerBus

\* Every handler subscribes to every event.
AllSubscribed == [e \in Events |-> Handlers]
=============================================================================

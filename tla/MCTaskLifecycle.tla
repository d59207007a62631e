-------------------------- MODULE MCTaskLifecycle --------------------------
(* Small instances of TaskLifecycle for TLC. *)
EXTENDS TaskLifecycle

\* A task settled below its pre-charge, one settled above it, and one that keeps it.
MCPre == [t \in Tasks |-> 2]
MCBelow == [t \in Tasks |-> 1]
MCAbove == [t \in Tasks |-> 3]
MCKept == [t \in Tasks |-> 0]

=============================================================================

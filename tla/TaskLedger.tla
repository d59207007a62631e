----------------------------- MODULE TaskLedger -----------------------------
(***************************************************************************)
(* What the account of one asynchronous task may look like: it is charged  *)
(* when it is submitted, nothing moves while it runs, it ends once, and    *)
(* its money moves at most once more, back to the user after a failure or  *)
(* to the final price after a success.  TaskLifecycle implements this      *)
(* specification for the tasks its compare-and-swap guards.                *)
(***************************************************************************)
EXTENDS Integers

CONSTANTS
    Tasks,
    Pre,    \* what a task is charged when it is submitted
    Cost    \* what it costs once it has succeeded

VARIABLES
    stage,  \* "new", "lost" (charged, and not recorded), "running", "failed", "succeeded"
    paid    \* the net amount the user has paid for the task

Init ==
    /\ stage = [t \in Tasks |-> "new"]
    /\ paid = [t \in Tasks |-> 0]

Charge(t) ==
    /\ stage[t] = "new"
    /\ \E x \in {"running", "lost"} : stage' = [stage EXCEPT ![t] = x]
    /\ paid' = [paid EXCEPT ![t] = Pre[t]]

Finish(t) ==
    /\ stage[t] = "running"
    /\ \E x \in {"failed", "succeeded"} : stage' = [stage EXCEPT ![t] = x]
    /\ UNCHANGED paid

Refund(t) ==
    /\ stage[t] = "failed" /\ paid[t] = Pre[t]
    /\ paid' = [paid EXCEPT ![t] = 0]
    /\ UNCHANGED stage

Settle(t) ==
    /\ stage[t] = "succeeded" /\ paid[t] = Pre[t]
    /\ paid' = [paid EXCEPT ![t] = Cost[t]]
    /\ UNCHANGED stage

Next == \E t \in Tasks : Charge(t) \/ Finish(t) \/ Refund(t) \/ Settle(t)

Spec == Init /\ [][Next]_<<stage, paid>>
=============================================================================

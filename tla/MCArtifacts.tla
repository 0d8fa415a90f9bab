----------------------------- MODULE MCArtifacts -----------------------------
(* A run of the API and a run of a pull request for every action they may have. *)
(* Retries for expired credentials are looked at where the folder has few files. *)
EXTENDS Artifacts

CONSTANT PR

OnceEach ==
  {[action |-> "report", pr |-> None, focus |-> FALSE, attempts |-> 1]}
  \cup {[action |-> action, pr |-> PR, focus |-> FALSE, attempts |-> 1] :
          action \in Actions \ {"drift"}}

Retried ==
  {[action |-> "drift", pr |-> None, focus |-> FALSE, attempts |-> 2],
   [action |-> "plan", pr |-> PR, focus |-> TRUE, attempts |-> 2]}

SomeRuns == OnceEach \cup Retried

SomeNames == {"tf/plan.out", "apply.out"}
=============================================================================

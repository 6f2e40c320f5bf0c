--------------------------- MODULE MCTaskLifecycle ---------------------------
(* TaskLifecycle with interchangeable tasks and handlers; its runs check     *)
(* safety only.                                                              *)
EXTENDS TaskLifecycle, TLC

(* A PUT completes a task, reopens it, or changes its recurrence. *)
MCBodies == {[status |-> "completed", recurs |-> "same"],
             [status |-> "open", recurs |-> "same"],
             [status |-> "same", recurs |-> "yes"],
             [status |-> "same", recurs |-> "no"]}

(* ... or only completes and reopens. *)
Reopening == {[status |-> "completed", recurs |-> "same"],
              [status |-> "open", recurs |-> "same"]}

Symmetry == Permutations(Tasks) \cup Permutations(Requests)

=============================================================================

---------------------------- MODULE MCEventStream ----------------------------
(* Small instances of EventStream: a run in which each thing breaks once, a *)
(* longer one in which nothing does, and one with a single crash.           *)
EXTENDS EventStream

Calm(v) == [versions |-> v, crashes |-> 0, drops |-> 0, faults |-> 0, reloads |-> 0]

StreamBudgets ==
  {[versions |-> 2, crashes |-> 1, drops |-> 1, faults |-> 1, reloads |-> 1], Calm(3)}

ForgottenBudgets == {[Calm(2) EXCEPT !.crashes = 1]}

=============================================================================

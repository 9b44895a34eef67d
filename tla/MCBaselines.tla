---------------------------- MODULE MCBaselines ----------------------------
(***************************************************************************)
(* A small instance of Baselines: windows of two ticks, a collection on    *)
(* every tick, so that a baseline idle for three ticks is evicted and a    *)
(* row untouched for five is pruned.                                       *)
(***************************************************************************)
EXTENDS Baselines

Checkpointing == [replicas |-> {1}, identities |-> {"a"}, postgres |-> TRUE, enabled |-> {},
                  min |-> 1, calls |-> 3, collections |-> 3, faults |-> 1, crashes |-> 1,
                  horizon |-> 7]

Merging == [Checkpointing EXCEPT !.replicas = {1, 2}, !.enabled = {"tenant"}, !.calls = 5,
                                 !.collections = 0, !.horizon = 5]

MCDeployments ==
  {Checkpointing, Merging,
   [Checkpointing EXCEPT !.identities = {"a", "b"}, !.calls = 2, !.collections = 2],
   [Checkpointing EXCEPT !.replicas = {1, 2}, !.calls = 1, !.collections = 2, !.horizon = 8],
   [Checkpointing EXCEPT !.enabled = {"tenant"}, !.calls = 4, !.collections = 1, !.horizon = 6],
   [Checkpointing EXCEPT !.enabled = {"churn"}, !.collections = 2, !.horizon = 6],
   [Merging EXCEPT !.identities = {"a", "b"}, !.enabled = Metrics, !.calls = 4,
                   !.crashes = 0, !.horizon = 6],
   [Checkpointing EXCEPT !.postgres = FALSE, !.enabled = Metrics, !.faults = 0]}
=============================================================================

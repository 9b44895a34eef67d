----------------------------- MODULE MCAuditLog -----------------------------
(***************************************************************************)
(* A small instance of AuditLog: seven deployments, each with the jobs and *)
(* the faults whose interleavings it is about.  Two clock ticks make a     *)
(* second, so a time can fall inside one.                                  *)
(***************************************************************************)
EXTENDS AuditLog

MCTenantOf == [c \in Calls |-> IF c = 2 THEN "beta" ELSE "acme"]

Quiet == [postgres |-> FALSE, retention |-> 0, export |-> FALSE, viewer |-> "",
          capacity |-> 2, limit |-> 2, polls |-> 0, faults |-> 0, crashes |-> 0,
          calls |-> 3, horizon |-> 4]

Purging == [Quiet EXCEPT !.retention = 2, !.faults = 1, !.crashes = 1, !.calls = 2]
Exporting == [Quiet EXCEPT !.export = TRUE, !.faults = 1, !.crashes = 1, !.calls = 2, !.horizon = 5]
Viewing == [Quiet EXCEPT !.polls = 3, !.crashes = 1, !.horizon = 0]

MCDeployments ==
  {Purging, Exporting, Viewing,
   [Purging EXCEPT !.crashes = 0, !.calls = 3],
   [Exporting EXCEPT !.postgres = TRUE, !.retention = 3, !.crashes = 0],
   [Viewing EXCEPT !.postgres = TRUE, !.faults = 1],
   [Viewing EXCEPT !.viewer = "acme", !.limit = 1]}
=============================================================================

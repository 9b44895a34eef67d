------------------------------ MODULE MCReload ------------------------------
\* One tenant and one tool with and without an override, and a file that
\* does not load.
EXTENDS Reload

CONSTANTS t1, x1

Config(v, ok, d, tenantLimit, toolLimit) ==
  [version |-> v, valid |-> ok, default |-> d,
   limit |-> [n \in {t1, x1} |-> IF n = t1 THEN tenantLimit ELSE toolLimit]]

MCInitial == Config(0, TRUE, 1, 1, NoLimit)

MCConfigs == {MCInitial,
              Config(1, TRUE, 2, 2, 1),
              Config(2, TRUE, 1, NoLimit, NoLimit),
              Config(3, FALSE, 3, 3, 3)}
=============================================================================

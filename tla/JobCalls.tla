------------------------------ MODULE JobCalls ------------------------------
(***************************************************************************)
(* What the per-job request ceiling and the per-job cost ceiling share:    *)
(* the calls they gate, the jobs that calls belong to and the kind of      *)
(* meter that is wired in.                                                 *)
(***************************************************************************)
EXTENDS ProxiedCalls

CONSTANTS Jobs,          \* (tenant, identity, session) keys: jobKey, costKey
          MeterCanFail   \* TRUE for PostgresMeter

ASSUME JobCallsAssumption == Jobs # {} /\ MeterCanFail \in BOOLEAN

AnyJob == CHOOSE j \in Jobs : TRUE
=============================================================================

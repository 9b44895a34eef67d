----------------------------- MODULE MCDetector -----------------------------
(***************************************************************************)
(* Three deployments of one identity: one replica that sees calls of every *)
(* kind, one replica under every shape of deviation, and two replicas that *)
(* share a store.  A unit of time is a window.                             *)
(***************************************************************************)
EXTENDS Detector

CONSTANTS a, b, t1, t2

MCReplicas == {a, b}
MCTools    == {t1, t2}

Calm ==
  [rate |-> 0, diversity |-> 0, deny |-> 0, denyBlock |-> 0, toolCalls |-> 0, interArrival |-> 0]

\* A burst; a rise below both thresholds; a decline that looks like denials and like a burst;
\* and denials against a baseline that never had one.
Burst   == [Calm EXCEPT !.rate = 4, !.interArrival = -2]
Rise    == [Calm EXCEPT !.rate = 2, !.diversity = 2]
Decline == [Calm EXCEPT !.rate = -2, !.deny = 4, !.denyBlock = 4, !.toolCalls = -2,
                        !.interArrival = -4]
Denials == [Calm EXCEPT !.denyBlock = 4]

Call(d, t) == [decision |-> d, tool |-> t]

MCSetups ==
  {[replicas |-> {a}, postgres |-> FALSE, windows |-> {Calm, Burst},
    entries |-> {Call("allow", t1), Call("deny", t2), Call("passthrough", t1)}, maxCalls |-> 6],
   [replicas |-> {a}, postgres |-> FALSE, windows |-> {Calm, Burst, Rise, Decline, Denials},
    entries |-> {Call("allow", t1)}, maxCalls |-> 9],
   [replicas |-> {a, b}, postgres |-> TRUE, windows |-> {Calm, Burst},
    entries |-> {Call("allow", t1)}, maxCalls |-> 6]}
=============================================================================

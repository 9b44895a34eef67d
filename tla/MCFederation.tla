---------------------------- MODULE MCFederation ----------------------------
(* Two instances that know each other.  In the first deployment b lists    *)
(* itself as well and there is one tenant; in the second b serves a second *)
(* tenant and an instance may restart; in the third a does not know b, and *)
(* refuses what b sends, and an anomaly may reach the buffer late.         *)
EXTENDS Federation

CONSTANTS a, b

Both == (a :> {"t1"}) @@ (b :> {"t1"})

MCDeployments ==
  {[peers |-> (a :> <<b>>) @@ (b :> <<a, b>>), serves |-> Both, maxRaised |-> 2, maxLag |-> 0,
    maxRestarts |-> 0],
   [peers |-> (a :> <<b>>) @@ (b :> <<a>>), serves |-> [Both EXCEPT ![b] = {"t1", "t2"}],
    maxRaised |-> 2, maxLag |-> 0, maxRestarts |-> 1],
   [peers |-> (a :> <<>>) @@ (b :> <<a>>), serves |-> Both, maxRaised |-> 3, maxLag |-> 1,
    maxRestarts |-> 0]}
=============================================================================

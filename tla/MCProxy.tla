------------------------------- MODULE MCProxy ------------------------------
\* Requests of every kind on one job; one call of write fits under the cost
\* ceiling, a call of export does not.
EXTENDS Proxy, TLC

CONSTANTS j1, kw, ke, write, export

Calling(kind, k, t) == [kind |-> kind, job |-> j1, key |-> k, tool |-> t]

MCShapes == {Calling(kind, kw, write) : kind \in Kinds} \union {Calling("tool", ke, export)}
Costs    == [t \in {write, export} |-> IF t = write THEN 2 ELSE 3]

Symmetry == Permutations(Calls)
=============================================================================

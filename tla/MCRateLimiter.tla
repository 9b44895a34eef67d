--------------------------- MODULE MCRateLimiter ----------------------------
(***************************************************************************)
(* Small instances of RateLimiter: one tool, one tenant whose window is    *)
(* longer than the default one, and an identity.                           *)
(***************************************************************************)
EXTENDS RateLimiter, TLC

CONSTANTS x1, t1, i1

MCRoutes == {[tool |-> x1, tenant |-> t1, identity |-> i1]}

Once     == [n |-> 1, w |-> 1]
Slow     == [n |-> 1, w |-> 2]
Twice    == [n |-> 2, w |-> 1]
MCLimits    == {Once, Slow, Twice}
MCDefault   == Twice
MCOverrides == [k \in Names |-> IF k = t1 THEN Slow ELSE Once]

Symmetry == Permutations(Calls)

=============================================================================

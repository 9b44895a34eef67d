----------------------------- MODULE MCApproval -----------------------------
(* Approval on a small instance: calls that race for one key's grant, two  *)
(* operators, and a clock long enough for a grant to expire.               *)
EXTENDS Approval, TLC

Symmetry == Permutations(Calls) \union Permutations(Operators)
=============================================================================

------------------------------ MODULE MCTaint -------------------------------
\* Taint tracking for one untrusted, one declassifying and one other tool.
EXTENDS Taint, TLC

CONSTANTS fetch, approve, write

MCTools == {fetch, approve, write}

Symmetry == Permutations(Calls)
=============================================================================

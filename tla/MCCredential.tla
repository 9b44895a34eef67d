---------------------------- MODULE MCCredential ----------------------------
\* Credentials of one identity name in two tenants.
EXTENDS Credential, TLC

Symmetry == Permutations(Requests) \union Permutations(Revokers)
=============================================================================

------------------------------ MODULE MCAccess ------------------------------
(***************************************************************************)
(* A small instance of Access: resource ids 1 and 2 go to users and groups *)
(* in the order in which the requests create them.                         *)
(***************************************************************************)
EXTENDS Access

CONSTANTS r1, r2

Acme == <<"acme">>
Beta == <<"beta">>

ViewAll    == <<"wardline", ":", "role-", "viewer">>
AdminAcme  == <<"wardline", ":", "tenant-", "acme", ":", "role-", "admin">>
Foreign    == <<"wardline", ":", "tenant-", ":", "role-", "admin">>

MCGroupNames == {ViewAll, AdminAcme, Foreign}

User(n, a) == [kind |-> "createUser", name |-> n, active |-> a]
Group(n, m) == [kind |-> "createGroup", name |-> n, members |-> m]

Patch(id, values) == [kind |-> "patchUser", id |-> id, values |-> values]

\* The first request makes user 1 and group 2; the others may come at the same time.
MCRequests ==
  {[failOn |-> 0, ops |-> ops] : ops \in
    {<<User("ann", TRUE), Group(ViewAll, <<>>)>>,
     <<Group(AdminAcme, <<1, 1>>)>>,
     <<[kind |-> "patchGroup", id |-> 2, add |-> <<1, 1>>, remove |-> <<3>>]>>,
     <<Patch(1, <<>>), Group(Foreign, <<1>>), [kind |-> "deleteUser", id |-> 1]>>}}
  \union
  {[failOn |-> 1, ops |-> <<Patch(1, <<TRUE, FALSE>>), [kind |-> "deleteGroup", id |-> 2],
                           [kind |-> "deleteGroup", id |-> 2], Patch(1, <<TRUE>>)>>]}

MCTenants == {Acme, Beta}

Query(route, own, target) == [route |-> route, who |-> "ann", own |-> own, target |-> target]
Queries ==
  {Query(handleAudit, <<>>, <<>>), Query(handleStatus, Acme, <<>>), Query(handleReload, Acme, <<>>),
   Query(handleUnblock, Acme, Beta), Query(handleUnblock, Beta, <<>>),
   Query(newRevokeAuthorizer, Beta, Beta)}

MCDeployments ==
  {[persist |-> FALSE, serving |-> {r1}, requests |-> 3, upsets |-> 1, queries |-> Queries],
   [persist |-> TRUE, serving |-> {r1}, requests |-> 3, upsets |-> 1,
    queries |-> {Query(handleUnblock, Acme, Beta)}],
   [persist |-> TRUE, serving |-> {r1, r2}, requests |-> 3, upsets |-> 0,
    queries |-> {Query(handleReload, Acme, <<>>)}],
   [persist |-> TRUE, serving |-> {r1, r2}, requests |-> 3, upsets |-> 1, queries |-> {}]}

Rule(subject, role, tenant) == [subject |-> subject, role |-> role, tenant |-> tenant]
MCFiles ==
  {[roles |-> <<>>, bindings |-> {}],
   [roles |-> <<[name |-> <<"ops">>, permissions |-> {"credential:revoke"}]>>,
    bindings |-> {Rule("ann", <<"ops">>, Beta), Rule("ann", <<"viewer">>, <<>>)}],
   [roles |-> <<>>, bindings |-> {Rule("ann", <<"ops">>, <<>>)}]}

Interchangeable == Permutations(Workers)
=============================================================================

-------------------------------- MODULE Scim --------------------------------
(***************************************************************************)
(* SCIM provisioning: the ProvisioningService (scim/usecase) with its      *)
(* users and groups in the memory of each replica, the /scim/v2 handler    *)
(* with Bulk (scim/adapter), and the store of the bindings that groups     *)
(* grant: a map in memory, or a Postgres table that all replicas share.    *)
(*                                                                         *)
(* A mutator holds the service's lock while it pushes the membership of    *)
(* every group it may have changed, one write of the store per group.  A   *)
(* write to Postgres is a transaction that deletes the group's rows and    *)
(* inserts the new ones; it runs next to those of other replicas, and when *)
(* it fails the failure is logged and the request goes on.                 *)
(*                                                                         *)
(* A user or group ID is a number, fresh in every process.  A group name   *)
(* is a sequence of the pieces that ParseGroupName tells apart.            *)
(***************************************************************************)
EXTENDS Integers, Sequences, FiniteSets, SequencesExt, TLC

CONSTANTS Replicas, Workers,     \* Workers: the requests of the identity provider in flight
          UserNames, GroupNames,
          Requests,              \* what a request may carry: its operations and failOnErrors
          Deployments,           \* the deployments considered: persist is scim.persist_postgres,
                                 \* serving the replicas that run; requests and upsets are bounds
          None

ASSUME ScimAssumption ==
  /\ \A d \in Deployments : /\ d.persist \in BOOLEAN /\ d.serving \subseteq Replicas
                            /\ {d.requests, d.upsets} \subseteq Nat
  /\ \A n \in GroupNames : n \in Seq(STRING)
  /\ \A q \in Requests : q.ops # <<>> /\ q.failOn \in Nat

VARIABLES setup,         \* the deployment, fixed at the start
          users,         \* of each replica: ID -> [name, active]
          groups,        \* of each replica: ID -> [name, members], the members being IDs
          ids,           \* the IDs given out so far
          rows,          \* the bindings of each store: [group, user]
          req,           \* the requests in progress
          source,        \* history: for each store and group name the replica whose write
                         \* of it was the last and complete, None if there is none
          sent,          \* requests so far
          upsets         \* writes and reads lost, restarts and reloads so far

scimVars == <<setup, users, groups, ids, rows, req, source, sent, upsets>>

\* The store a replica reads and writes.
Stores     == Replicas \union {"postgres"}
StoreOf(r) == IF setup.persist THEN "postgres" ELSE r
RowsOf(s, name) == {row \in rows[s] : row.group = name}

\* What a request is doing: ops are the operations left, the first in progress; left the writes
\* it still makes under the lock, and tx the transaction it has open.
Idle == [replica |-> None, ops |-> <<>>, failOn |-> 0, errors |-> 0, left |-> {}, tx |-> None]

ScimTypeOK ==
  /\ setup \in Deployments
  /\ \A r \in Replicas :
       /\ \A i \in DOMAIN users[r] : i \in 1..ids /\ users[r][i] \in [name : UserNames, active : BOOLEAN]
       /\ \A i \in DOMAIN groups[r] : i \in 1..ids /\ groups[r][i].name \in GroupNames
  /\ rows \in [Stores -> SUBSET [group : GroupNames, user : UserNames]]
  /\ source \in [Stores -> [GroupNames -> Replicas \union {None}]]
  /\ sent \in 0..setup.requests /\ upsets \in 0..setup.upsets

ScimInit ==
  /\ setup \in Deployments
  /\ users = [r \in Replicas |-> <<>>] /\ groups = [r \in Replicas |-> <<>>] /\ ids = 0
  /\ rows = [s \in Stores |-> {}]
  /\ req = [w \in Workers |-> Idle]
  /\ source = [s \in Stores |-> [n \in GroupNames |-> None]]
  /\ sent = 0 /\ upsets = 0
-----------------------------------------------------------------------------
(* Group names.                                                            *)

\* The part of s after a prefix.
TrimPrefix(p, s) == SubSeq(s, Len(p) + 1, Len(s))

\* Where the separator of tenant and role starts, 0 if it is nowhere.
RoleAt(s) == LET at == {i \in 1..Len(s) - 1 : SubSeq(s, i, i + 1) = <<":", "role-">>}
             IN  IF at = {} THEN 0 ELSE CHOOSE i \in at : \A j \in at : i <= j

NotOurs == [ok |-> FALSE, tenant |-> <<>>, role |-> <<>>, isGlobal |-> FALSE]

\* "wardline:role-<role>" or "wardline:tenant-<tenant>:role-<role>".
ParseGroupName(name) ==
  LET rest   == TrimPrefix(<<"wardline", ":">>, name)
      role   == TrimPrefix(<<"role-">>, rest)
      scoped == TrimPrefix(<<"tenant-">>, rest)
      at     == RoleAt(scoped)
  IN  IF ~IsPrefix(<<"wardline", ":">>, name) THEN NotOurs
      ELSE IF IsPrefix(<<"role-">>, rest)
      THEN IF role = <<>> THEN NotOurs
           ELSE [ok |-> TRUE, tenant |-> <<>>, role |-> role, isGlobal |-> TRUE]
      ELSE IF ~IsPrefix(<<"tenant-">>, rest) \/ at <= 1 \/ at + 1 = Len(scoped) THEN NotOurs
      ELSE [ok |-> TRUE, tenant |-> SubSeq(scoped, 1, at - 1),
            role |-> SubSeq(scoped, at + 2, Len(scoped)), isGlobal |-> FALSE]
-----------------------------------------------------------------------------
(* What the service pushes to the store.                                   *)

\* Mutated form of Bound: inactive members too.
BoundIfKnown(us, id) == id \in DOMAIN us

\* A member that is unknown or inactive is skipped.
Bound(us, id) == id \in DOMAIN us /\ us[id].active

UserNamesOf(us, members) ==
  LET known == SelectSeq(members, LAMBDA id : Bound(us, id))
  IN  [i \in DOMAIN known |-> us[known[i]].name]

\* syncBindingLocked and SetGroupMembers: a name that is not Wardline's makes no write.
SyncBinding(us, g) ==
  {w \in {[group |-> g.name, names |-> UserNamesOf(us, g.members)]} : ParseGroupName(g.name).ok}

ResyncAllGroups(us, gs) == UNION {SyncBinding(us, gs[i]) : i \in DOMAIN gs}

\* The lock of ProvisioningService: held while a request has writes left.
Unlocked(r) == \A w \in Workers : req[w].replica = r => req[w].left = {}

\* How a request goes on once its first operation is answered: Bulk counts the failures and
\* stops at failOnErrors of them, if it is not 0.
Answered(q, ok) ==
  LET errors == q.errors + (IF ok THEN 0 ELSE 1)
  IN  IF Len(q.ops) = 1 \/ (q.failOn > 0 /\ errors >= q.failOn) THEN Idle
      ELSE [q EXCEPT !.ops = Tail(@), !.errors = errors, !.left = {}, !.tx = None]

\* A PATCH of a user applies its "replace active" operations one by one, each under the lock.
MoreToPatch(q) == q.ops[1].kind = "patchUser" /\ Len(q.ops[1].values) > 1

Done(q) ==
  IF MoreToPatch(q)
  THEN [q EXCEPT !.ops[1].values = Tail(@), !.left = {}, !.tx = None]
  ELSE Answered(q, TRUE)

\* The mutator of request w is through with the maps and has these writes to make.
Push(w, writes) ==
  req' = [req EXCEPT ![w] = IF writes = {} THEN Done(@) ELSE [@ EXCEPT !.left = writes]]

\* 404, 409 or 400: nothing has changed.
Refuse(w) ==
  /\ req' = [req EXCEPT ![w] = Answered(@, FALSE)]
  /\ UNCHANGED <<users, groups, ids>>

\* Request w may run its first operation, which is of this kind, on replica r.
Runs(w, r, kind) ==
  /\ req[w].replica = r /\ req[w].ops[1].kind = kind /\ Unlocked(r)
  /\ UNCHANGED <<setup, rows, source, sent, upsets>>
-----------------------------------------------------------------------------
(* The mutators of ProvisioningService, as the handler calls them.         *)

CreateUser(w, r) ==
  LET op == req[w].ops[1]
  IN  /\ Runs(w, r, "createUser")
      /\ IF \E i \in DOMAIN users[r] : users[r][i].name = op.name THEN Refuse(w)
         ELSE /\ ids' = ids + 1
              /\ users' = [users EXCEPT ![r] = (ids' :> [name |-> op.name, active |-> op.active]) @@ @]
              /\ UNCHANGED groups
              /\ Push(w, {})

\* Mutated form of DeleteUser: the bindings are left as they are.
ForgetUser(w, r) ==
  LET op == req[w].ops[1]
  IN  /\ Runs(w, r, "deleteUser")
      /\ IF op.id \notin DOMAIN users[r] THEN Refuse(w)
         ELSE /\ users' = [users EXCEPT ![r] = Restrict(@, DOMAIN @ \ {op.id})]
              /\ UNCHANGED <<groups, ids>>
              /\ Push(w, {})

DeleteUser(w, r) ==
  LET op == req[w].ops[1]
  IN  /\ Runs(w, r, "deleteUser")
      /\ IF op.id \notin DOMAIN users[r] THEN Refuse(w)
         ELSE /\ users' = [users EXCEPT ![r] = Restrict(@, DOMAIN @ \ {op.id})]
              /\ UNCHANGED <<groups, ids>>
              /\ Push(w, ResyncAllGroups(users'[r], groups[r]))

\* values are the operations that replace "active"; without one the answer is 400.
PatchUserActive(w, r) ==
  LET op == req[w].ops[1]
  IN  /\ Runs(w, r, "patchUser")
      /\ IF op.values = <<>> \/ op.id \notin DOMAIN users[r] THEN Refuse(w)
         ELSE /\ users' = [users EXCEPT ![r][op.id].active = op.values[1]]
              /\ UNCHANGED <<groups, ids>>
              /\ Push(w, ResyncAllGroups(users'[r], groups[r]))

\* Adds what is not a member yet.
Join(members, new) ==
  FoldLeft(LAMBDA acc, id : IF Contains(acc, id) THEN acc ELSE Append(acc, id), members, new)

CreateGroup(w, r) ==
  LET op == req[w].ops[1]
      g  == [name |-> op.name, members |-> Join(<<>>, op.members)]
  IN  /\ Runs(w, r, "createGroup")
      /\ IF \E i \in DOMAIN groups[r] : groups[r][i].name = op.name THEN Refuse(w)
         ELSE /\ ids' = ids + 1
              /\ groups' = [groups EXCEPT ![r] = (ids' :> g) @@ @]
              /\ UNCHANGED users
              /\ Push(w, SyncBinding(users[r], g))

\* RemoveGroup is made for every name.
DeleteGroup(w, r) ==
  LET op == req[w].ops[1]
  IN  /\ Runs(w, r, "deleteGroup")
      /\ IF op.id \notin DOMAIN groups[r] THEN Refuse(w)
         ELSE /\ groups' = [groups EXCEPT ![r] = Restrict(@, DOMAIN @ \ {op.id})]
              /\ UNCHANGED <<users, ids>>
              /\ Push(w, {[group |-> groups[r][op.id].name, names |-> <<>>]})

\* First all that is added, then all that is removed, in whatever order the operations came.
PatchGroupMembers(w, r) ==
  LET op   == req[w].ops[1]
      kept == SelectSeq(Join(groups[r][op.id].members, op.add), LAMBDA id : ~Contains(op.remove, id))
      g    == [groups[r][op.id] EXCEPT !.members = kept]
  IN  /\ Runs(w, r, "patchGroup")
      /\ IF op.id \notin DOMAIN groups[r] THEN Refuse(w)
         ELSE /\ groups' = [groups EXCEPT ![r][op.id] = g]
              /\ UNCHANGED <<users, ids>>
              /\ Push(w, SyncBinding(users[r], g))
-----------------------------------------------------------------------------
(* The writes of the store.                                                *)

\* Request w has made, or given up, its write x.
Wrote(w, x) ==
  /\ req' = [req EXCEPT ![w] = IF @.left = {x} THEN Done(@)
                               ELSE [@ EXCEPT !.left = @ \ {x}, !.tx = None]]
  /\ UNCHANGED <<setup, users, groups, ids, sent>>

RowsFor(x) == {[group |-> x.group, user |-> n] : n \in Range(x.names)}

\* BindingStore, under its own lock: the list is replaced.
SetGroupMembers(w, x) ==
  LET r == req[w].replica
  IN  /\ ~setup.persist /\ x \in req[w].left
      /\ rows' = [rows EXCEPT ![r] = (@ \ RowsOf(r, x.group)) \union RowsFor(x)]
      /\ source' = [source EXCEPT ![r][x.group] = r]
      /\ Wrote(w, x) /\ UNCHANGED upsets

\* PostgresBindingStore: the DELETE of the transaction, which takes the rows committed so far.
BeginWrite(w, x) ==
  /\ setup.persist /\ x \in req[w].left /\ req[w].tx = None
  /\ req' = [req EXCEPT ![w].tx = [write |-> x, dels |-> RowsOf("postgres", x.group)]]
  /\ UNCHANGED <<setup, users, groups, ids, rows, source, sent, upsets>>

\* A row that is there already, of a transaction that committed since the DELETE, fails the
\* transaction by the primary key.
Collides(tx) == RowsFor(tx.write) \intersect (RowsOf("postgres", tx.write.group) \ tx.dels) # {}
Repeats(tx)  == Cardinality(Range(tx.write.names)) # Len(tx.write.names)
Commit(tx)   == [rows EXCEPT !["postgres"] = (@ \ tx.dels) \union RowsFor(tx.write)]

\* The INSERTs and the COMMIT.
CommitWrite(w) ==
  LET tx    == req[w].tx
      clean == RowsOf("postgres", tx.write.group) = tx.dels
  IN  /\ tx # None
      /\ rows' = IF Collides(tx) \/ Repeats(tx) THEN rows ELSE Commit(tx)
      /\ source' = IF Repeats(tx) THEN source
                   ELSE [source EXCEPT !["postgres"][tx.write.group] =
                           IF clean THEN req[w].replica ELSE None]
      /\ Wrote(w, tx.write) /\ UNCHANGED upsets

\* An error or the timeout, logged and swallowed; it may hide a commit that was made.
LoseWrite(w) ==
  LET tx == req[w].tx
  IN  /\ tx # None /\ upsets < setup.upsets /\ upsets' = upsets + 1
      /\ rows' \in {rows} \union {t \in {Commit(tx)} : ~Collides(tx) /\ ~Repeats(tx)}
      /\ source' = [source EXCEPT !["postgres"][tx.write.group] = None]
      /\ Wrote(w, tx.write)
-----------------------------------------------------------------------------
(* Requests come, and replicas restart.                                    *)

\* The IDs a request names were answered to earlier requests.
KnownIds(ops) ==
  \A n \in DOMAIN ops :
    LET op == ops[n]
    IN  /\ "id" \in DOMAIN op => op.id <= ids
        /\ "members" \in DOMAIN op => \A i \in Range(op.members) : i <= ids
        /\ "add" \in DOMAIN op => \A i \in Range(op.add) \union Range(op.remove) : i <= ids

\* A request of one operation, or a Bulk with its failOnErrors.
ServeHTTP(w, r, q) ==
  /\ req[w] = Idle /\ sent < setup.requests /\ KnownIds(q.ops)
  /\ sent' = sent + 1
  /\ req' = [req EXCEPT ![w] = [Idle EXCEPT !.replica = r, !.ops = q.ops, !.failOn = q.failOn]]
  /\ UNCHANGED <<setup, users, groups, ids, rows, source, upsets>>

\* The users and groups are gone, the table stays.
Restart(r) ==
  /\ upsets < setup.upsets /\ upsets' = upsets + 1
  /\ users' = [users EXCEPT ![r] = <<>>] /\ groups' = [groups EXCEPT ![r] = <<>>]
  /\ rows' = [rows EXCEPT ![r] = {}]
  /\ req' = [w \in Workers |-> IF req[w].replica = r THEN Idle ELSE req[w]]
  /\ source' = [s \in Stores |-> [n \in GroupNames |-> IF source[s][n] = r THEN None ELSE source[s][n]]]
  /\ UNCHANGED <<setup, ids, sent>>

ScimStep ==
  \/ \E w \in Workers, r \in setup.serving :
       \/ \E q \in Requests : ServeHTTP(w, r, q)
       \/ CreateUser(w, r) \/ DeleteUser(w, r) \/ PatchUserActive(w, r)
       \/ CreateGroup(w, r) \/ DeleteGroup(w, r) \/ PatchGroupMembers(w, r)
  \/ \E w \in Workers :
       \/ \E x \in req[w].left : SetGroupMembers(w, x) \/ BeginWrite(w, x)
       \/ CommitWrite(w) \/ LoseWrite(w)
-----------------------------------------------------------------------------
(* What the mutators promise together (C1 in their comments): whenever the *)
(* lock of a replica is free, the store binds for each group name the      *)
(* active members of the replica's group of that name, and no one if there *)
(* is none, whatever was created, deleted, activated and patched in which  *)
(* order.  The names left out are the ones last written by another         *)
(* replica, or by a write that failed or ran into one of another replica.  *)
BindingsFollowMembership ==
  \A r \in Replicas, n \in GroupNames :
    source[StoreOf(r)][n] = r /\ Unlocked(r) =>
      RowsOf(StoreOf(r), n) =
        {[group |-> n, user |-> users[r][i].name] :
           i \in {i \in DOMAIN users[r] :
                    /\ users[r][i].active
                    /\ \E g \in Range(groups[r]) : g.name = n /\ Contains(g.members, i)}}
=============================================================================

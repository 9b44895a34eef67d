------------------------------- MODULE Access -------------------------------
(***************************************************************************)
(* Who may do what on the dashboard and at /credentials/revoke: the        *)
(* StaticAuthorizer loaded from rbac.yaml, the CompositeAuthorizer that    *)
(* adds the bindings provisioned over SCIM, and the Checker that looks up  *)
(* the authorizer in force (rbac/adapter, rbac/usecase); the routes that   *)
(* ask it (dashboard/adapter/handler.go and the resolvers of main.go); and *)
(* the hot reload of rbac.yaml.                                            *)
(*                                                                         *)
(* A request asks several questions one after the other.  Each takes the   *)
(* authorizer in force, tries its static bindings and, when they do not    *)
(* suffice, reads the store of SCIM bindings at a later moment.  Reloads,  *)
(* provisioning and restarts go on in between.                             *)
(***************************************************************************)
EXTENDS Scim

CONSTANTS Askers, Tenants,
          Files            \* contents of rbac.yaml: [roles, bindings]

ASSUME AccessAssumption == <<>> \notin Tenants

VARIABLES inForce,         \* the authorizer in each replica's holder
          ask              \* the requests asking for access

vars == <<scimVars, inForce, ask>>
-----------------------------------------------------------------------------
(* rbac.yaml.                                                              *)

allPermissions == {"dashboard:view", "credential:revoke", "config:edit"}

builtinRoles == (<<"viewer">> :> {"dashboard:view"}) @@ (<<"admin">> :> allPermissions)

\* A binding without a tenant is global.
NoAuthorizer == [ok |-> FALSE, roles |-> <<>>, bindings |-> {}]

LoadAuthorizer(file) ==
  LET custom == [n \in {file.roles[i].name : i \in DOMAIN file.roles} |->
                   (CHOOSE x \in Range(file.roles) : x.name = n).permissions]
      roles  == builtinRoles @@ custom
      valid  == /\ \A i, j \in DOMAIN file.roles : file.roles[i].name = file.roles[j].name => i = j
                /\ \A n \in DOMAIN custom : /\ n # <<>> /\ n \notin DOMAIN builtinRoles
                                            /\ custom[n] \subseteq allPermissions
                /\ \A b \in file.bindings : b.subject # "" /\ b.role \in DOMAIN roles
  IN  IF valid THEN [ok |-> TRUE, roles |-> roles, bindings |-> file.bindings] ELSE NoAuthorizer

RoleHasPermission(s, role, perm) == role \in DOMAIN s.roles /\ perm \in s.roles[role]

\* StaticAuthorizer.
StaticIsGlobal(s, who, perm) ==
  \E b \in s.bindings : b.subject = who /\ b.tenant = <<>> /\ RoleHasPermission(s, b.role, perm)

StaticAuthorize(s, who, tenant, perm) ==
  \/ StaticIsGlobal(s, who, perm)
  \/ \E b \in s.bindings : /\ b.subject = who /\ b.tenant = tenant
                           /\ RoleHasPermission(s, b.role, perm)

\* The bindings of an identity in a store, as the groups that grant them.
Bindings(store, who) == {ParseGroupName(row.group) : row \in {x \in store : x.user = who}}

\* CompositeAuthorizer: the bindings read, under the roles of the authorizer taken before.
DynamicIsGlobal(s, held, perm) == \E b \in held : b.isGlobal /\ RoleHasPermission(s, b.role, perm)

\* Mutated form of DynamicAuthorize: the global bindings are left to IsGlobal.
ScopedOnly(s, held, tenant, perm) ==
  \E b \in held : ~b.isGlobal /\ b.tenant = tenant /\ RoleHasPermission(s, b.role, perm)

DynamicAuthorize(s, held, tenant, perm) ==
  \/ DynamicIsGlobal(s, held, perm)
  \/ \E b \in held : ~b.isGlobal /\ b.tenant = tenant /\ RoleHasPermission(s, b.role, perm)
-----------------------------------------------------------------------------
(* The routes, by the questions they ask in turn: does the caller hold a   *)
(* permission in its own tenant ("check", and 403 if not), does it hold it *)
(* everywhere ("scope", "global"), and what shall the page show ("shows"). *)

RequirePermission == [kind |-> "check", perm |-> "dashboard:view"]
newScopeResolver  == [kind |-> "scope", perm |-> "dashboard:view"]
newCallerInfoResolver == [kind |-> "shows", perm |-> "config:edit"]
newReloadAuthorizer == [kind |-> "check", perm |-> "config:edit"]
MayRevoke         == [kind |-> "check", perm |-> "credential:revoke"]

\* Mutated form of RevokesEverywhere: the scope of the read permission is taken for it.
SeesEverywhere == [kind |-> "global", perm |-> "dashboard:view"]

RevokesEverywhere == [kind |-> "global", perm |-> "credential:revoke"]

\* Reads of what lies in the caller's scope, and reads and changes of what has no tenant.
handleAudit            == <<RequirePermission, newScopeResolver>>
handleAnomalies        == <<RequirePermission, newScopeResolver>>
handleFederationCorrelated == <<RequirePermission, newScopeResolver>>
handleBlocked          == <<RequirePermission, newScopeResolver>>
handleApprovals        == <<RequirePermission>>
handleJobBudget        == <<RequirePermission>>
handleCostBudget       == <<RequirePermission>>
handleRBAC             == <<RequirePermission>>
handleCompliance       == <<RequirePermission>>
handleBudgetRead       == <<RequirePermission>>
handleReloadHistory    == <<RequirePermission>>
handleApprovalDecision == <<RequirePermission, newReloadAuthorizer>>
handleBudgetWrite      == <<RequirePermission, newReloadAuthorizer>>
handleReload           == <<RequirePermission, newReloadAuthorizer>>
handlePolicyWrite      == <<RequirePermission, newReloadAuthorizer>>

handleStatus           == <<RequirePermission, newCallerInfoResolver, newScopeResolver>>

\* Two routes that act on one identity of a target tenant.
handleUnblock       == <<RequirePermission, newScopeResolver, MayRevoke, RevokesEverywhere>>
newRevokeAuthorizer == <<MayRevoke, RevokesEverywhere>>

ScopedReads == {handleAudit, handleAnomalies, handleFederationCorrelated, handleBlocked, handleStatus}
Untenanted  == {handleApprovals, handleJobBudget, handleCostBudget, handleRBAC, handleCompliance,
                handleBudgetRead, handleReloadHistory, handleApprovalDecision, handleBudgetWrite,
                handleReload, handlePolicyWrite}

\* What a deployment is asked: own is the caller's tenant and target the one that the
\* request names; each may be <<>>.
ASSUME QueriesAssumption ==
  \A d \in Deployments : \A q \in d.queries :
    q.route \in ScopedReads \union Untenanted \union {handleUnblock, newRevokeAuthorizer}
-----------------------------------------------------------------------------
(* A request: at is the question asked, taken the authorizer asked, target *)
(* the tenant it acts on; denied the permission that was missing and reach *)
(* the tenants whose data it read or changed.  The history: the            *)
(* authorizers in force since it came, the bindings its caller held at     *)
(* some and at every moment since, whether a read of the store failed, and *)
(* whether the caller is offboarded.                                       *)

NotAsking == [pc |-> "idle"]
Over == [pc |-> "over"]

Asking(c) == ask[c].pc \in {"static", "dynamic"}

\* Every replica's service knows no active user of this name, and what the store holds comes
\* from writes that succeeded.
Offboarded(us, table, by, n) ==
  /\ \A r \in Replicas : \A i \in DOMAIN us[r] : us[r][i].name = n => ~us[r][i].active
  /\ \A s \in Stores : \A row \in table[s] : by[s][row.group] # None

Ask(c, r, q) ==
  /\ ask[c] = NotAsking
  /\ ask' = [ask EXCEPT ![c] =
       [pc |-> "static", replica |-> r, route |-> q.route, at |-> 1, taken |-> NoAuthorizer,
        who |-> q.who, own |-> q.own, target |-> q.target, denied |-> "", reach |-> {},
        statics |-> {inForce[r]}, failed |-> FALSE,
        held |-> Bindings(rows[StoreOf(r)], q.who), kept |-> Bindings(rows[StoreOf(r)], q.who),
        gone |-> Offboarded(users, rows, source, q.who) /\ \A x \in Replicas : Unlocked(x)]]
  /\ UNCHANGED <<scimVars, inForce>>

Finish(a, reach) == [a EXCEPT !.pc = "done", !.taken = NoAuthorizer, !.reach = reach \intersect Tenants]

\* How a request goes on when the answer to its question is yes or no.
Answer(a, yes) ==
  LET q    == a.route[a.at]
      next == [a EXCEPT !.pc = "static", !.at = @ + 1, !.taken = NoAuthorizer]
      last == a.at = Len(a.route)
  IN  CASE q.kind = "check" /\ ~yes -> [Finish(a, {}) EXCEPT !.denied = q.perm]
        [] q.kind = "check" /\ yes /\ last -> Finish(a, Tenants)
        \* newUnblockAuthorizer: the own tenant needs no more.
        [] q.kind = "check" /\ yes /\ a.route = handleUnblock /\ q = MayRevoke /\ a.target = a.own
             -> Finish(a, {a.target})
        \* tenantFilter: "" is no filter.
        [] q.kind = "scope" /\ a.route \in ScopedReads
             -> Finish(a, IF yes \/ a.own = <<>> THEN Tenants ELSE {a.own})
        [] q.kind = "scope" /\ a.route = handleUnblock
             -> IF yes \/ a.own = <<>>
                THEN IF a.target = <<>> THEN Finish(a, {}) ELSE next
                ELSE [next EXCEPT !.target = a.own]
        [] q.kind = "global"
             -> Finish(a, IF yes \/ a.target = a.own THEN {a.target} ELSE {})
        [] OTHER -> next

\* Checker: the authorizer in force, and first its static bindings.
Check(c) ==
  LET a == ask[c]
      q == a.route[a.at]
      s == inForce[a.replica]
  IN  /\ a.pc = "static"
      /\ ask' = [ask EXCEPT ![c] =
           IF IF q.kind \in {"scope", "global"} THEN StaticIsGlobal(s, a.who, q.perm)
                                   ELSE StaticAuthorize(s, a.who, a.own, q.perm)
           THEN Answer(a, TRUE)
           ELSE [a EXCEPT !.pc = "dynamic", !.taken = s]]
      /\ UNCHANGED <<scimVars, inForce>>

\* Then the bindings in the store; a read that fails yields none.
ReadBindings(c, fails) ==
  LET a    == ask[c]
      q    == a.route[a.at]
      read == IF fails THEN {} ELSE Bindings(rows[StoreOf(a.replica)], a.who)
      b    == [a EXCEPT !.failed = @ \/ fails]
  IN  /\ a.pc = "dynamic"
      /\ fails => setup.persist /\ upsets < setup.upsets
      /\ upsets' = upsets + (IF fails THEN 1 ELSE 0)
      /\ ask' = [ask EXCEPT ![c] =
           Answer(b, IF q.kind \in {"scope", "global"} THEN DynamicIsGlobal(a.taken, read, q.perm)
                                          ELSE DynamicAuthorize(a.taken, read, a.own, q.perm))]
      /\ UNCHANGED <<setup, users, groups, ids, rows, req, source, sent, inForce>>
-----------------------------------------------------------------------------
(* What goes on meanwhile.                                                 *)

\* A request after a step of others: the bindings its caller holds are noted while it
\* runs, and it is forgotten when it is done.
Watch(a) ==
  LET now == Bindings(rows'[StoreOf(a.replica)], a.who)
  IN  IF a.pc = "idle" THEN a ELSE IF a.pc \in {"done", "over"} THEN Over
      ELSE [a EXCEPT !.held = @ \union now, !.kept = @ \intersect now, !.gone = @ /\ Offboarded(users', rows', source', a.who)]

\* newRBACReloadFn: only the static half is replaced, and only when the file is valid.
ReloadRBAC(r, file) ==
  LET s == LoadAuthorizer(file)
  IN  /\ upsets < setup.upsets /\ upsets' = upsets + 1
      /\ inForce' = IF s.ok THEN [inForce EXCEPT ![r] = s] ELSE inForce
      /\ UNCHANGED <<setup, users, groups, ids, rows, req, source, sent>>
      /\ ask' = [c \in Askers |-> IF Asking(c) /\ ask[c].replica = r
                                  THEN [ask[c] EXCEPT !.statics = @ \union {inForce'[r]}]
                                  ELSE Watch(ask[c])]

Provision ==
  /\ ScimStep
  /\ ask' = [c \in Askers |-> Watch(ask[c])]
  /\ UNCHANGED inForce

\* A process ends with its requests, and starts with the file as it is now.
RestartReplica(r, file) ==
  /\ Restart(r)
  /\ LoadAuthorizer(file).ok /\ inForce' = [inForce EXCEPT ![r] = LoadAuthorizer(file)]
  /\ ask' = [c \in Askers |-> IF Asking(c) /\ ask[c].replica = r THEN Over ELSE Watch(ask[c])]

Init ==
  /\ ScimInit
  /\ \E file \in Files : LoadAuthorizer(file).ok /\ inForce = [r \in Replicas |-> LoadAuthorizer(file)]
  /\ ask = [c \in Askers |-> NotAsking]

Next ==
  \/ \E c \in Askers :
       \/ \E r \in setup.serving, q \in setup.queries : Ask(c, r, q)
       \/ Check(c)
       \/ \E fails \in BOOLEAN : ReadBindings(c, fails)
  \/ \E r \in setup.serving, file \in Files : ReloadRBAC(r, file) \/ RestartReplica(r, file)
  \/ Provision

Spec == Init /\ [][Next]_vars
-----------------------------------------------------------------------------
TypeOK ==
  /\ ScimTypeOK
  /\ \A r \in Replicas : inForce[r].ok
  /\ \A c \in Askers : Asking(c) => ask[c].at \in DOMAIN ask[c].route /\ ask[c].reach = {}

\* The permission a route exercises is that of its last check.
Exercises(route) == route[CHOOSE i \in DOMAIN route : /\ route[i].kind = "check"
                                                      /\ \A j \in DOMAIN route : j > i => route[j].kind # "check"].perm

\* Where the static bindings of who and these others grant perm, <<>> being everywhere.
Grants(s, who, bs, perm) ==
  {b.tenant : b \in {x \in {y \in s.bindings : y.subject = who} \union bs :
                       x.role \in DOMAIN s.roles /\ perm \in s.roles[x.role]}}

\* Whatever a request reads or changes of a tenant is backed, for the very permission that
\* the route exercises, by an authorizer that was in force and a binding that was held
\* while the request ran.  A global grant of dashboard:view, in particular, unblocks and
\* revokes nothing in another tenant, and a caller with an empty tenant, which filters
\* nothing, sees all only by a global grant.
ReachIsBacked ==
  \A c \in Askers : ask[c].pc = "done" =>
    LET a == ask[c]
    IN  \A t \in a.reach : \E s \in a.statics :
          LET granted == Grants(s, a.who, a.held, Exercises(a.route))
          IN  \/ <<>> \in granted
              \/ a.own \in granted /\ (a.route \in Untenanted \/ t = a.own)

\* A 403 is never the accident of a reload or of provisioning going on: if every authorizer
\* in force during the request granted the permission, by itself or by the bindings that
\* its caller held throughout, the request is not refused, unless a read failed.
DenialIsReal ==
  \A c \in Askers : ask[c].pc = "done" /\ ask[c].denied # "" =>
    LET a == ask[c]
    IN  \E s \in a.statics :
          Grants(s, a.who, IF a.failed THEN {} ELSE a.kept, a.denied) \intersect {<<>>, a.own} = {}

\* Once the identity provider's deletion or deactivation of a user is through on every
\* replica that knew it, no later request of that user reaches anything by a group,
\* unless writes failed or were made by two replicas at once.
OffboardedIsDenied ==
  \A c \in Askers : ask[c].pc = "done" /\ ask[c].gone /\ ask[c].reach # {} =>
    LET a == ask[c]
    IN  \E s \in a.statics : Grants(s, a.who, {}, Exercises(a.route)) \intersect {<<>>, a.own} # {}
=============================================================================

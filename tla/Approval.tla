------------------------------ MODULE Approval ------------------------------
(***************************************************************************)
(* The approval workflow: Manager (approval/usecase/manager.go) over       *)
(* InMemoryStore (approval/adapter/inmemory_store.go).                     *)
(*                                                                         *)
(* A proxied call whose policy outcome is needs_approval either consumes a *)
(* grant for its key (tenant, identity, session, tool) or enqueues a       *)
(* pending request.  An operator approves or denies a pending request; an  *)
(* approval decides the request and then, in a second lock section, puts a *)
(* grant under the request's key.  Every store method holds the mutex for  *)
(* its whole body, so each one is a step here, and so is each reading of   *)
(* the clock that a later step uses.                                       *)
(*                                                                         *)
(* Two fields are history: a grant's "by" names the request whose approval *)
(* minted it, and a call's "via" the request whose grant admitted it.      *)
(***************************************************************************)
EXTENDS ProxiedCalls, Integers

CONSTANTS Operators,  \* operators' HTTP requests served concurrently
          Keys,       \* values of grantKey
          Ids,        \* ids newID can return
          GrantTTL,
          MaxTime     \* bound: the clock stops here

ASSUME ApprovalAssumption ==
  GrantTTL \in Nat /\ MaxTime \in Nat /\ Keys # {} /\ Ids # {}

VARIABLES clock,
          status,     \* Request.Status by id; "absent" when there is none
          keyOf,      \* grantKey of the request's fields
          decidedAt,  \* Request.DecidedAt
          grants,     \* the grants map, as a set of grants with distinct keys
          call,       \* calls inside OnNeedsApproval, and how they ended
          op          \* operators inside Approve or Deny

store == <<status, keyOf, decidedAt, grants>>
approvalVars == <<clock, store, call, op>>

Statuses == {"absent", "pending", "approved", "denied"}
Grants == [key : Keys, by : Ids, expiresAt : Nat]
CallStates ==
  [pc : {"idle", "asking", "missed", "admitted", "queued", "failed"},
   key : Keys, now : Nat, via : Ids]
OpStates ==
  [pc : {"idle", "deciding", "granting"}, id : Ids,
   verdict : {"approved", "denied"}, now : Nat]

ApprovalTypeOK ==
  /\ clock \in Nat
  /\ status \in [Ids -> Statuses]
  /\ keyOf \in [Ids -> Keys]
  /\ decidedAt \in [Ids -> Nat]
  /\ grants \subseteq Grants
  /\ call \in [Calls -> CallStates]
  /\ op \in [Operators -> OpStates]

AnyKey == CHOOSE k \in Keys : TRUE
AnyId == CHOOSE id \in Ids : TRUE
Ask(pc, k, now) == [pc |-> pc, key |-> k, now |-> now, via |-> AnyId]
Admit(ask, g) == [pc |-> "admitted", key |-> ask.key, now |-> ask.now, via |-> g.by]
Ended(pc) == Ask(pc, AnyKey, 0)
IdleOp == [pc |-> "idle", id |-> AnyId, verdict |-> "denied", now |-> 0]

ApprovalInit ==
  /\ clock = 0
  /\ status = [id \in Ids |-> "absent"]
  /\ keyOf = [id \in Ids |-> AnyKey]
  /\ decidedAt = [id \in Ids |-> 0]
  /\ grants = {}
  /\ call = [c \in Calls |-> Ended("idle")]
  /\ op = [o \in Operators |-> IdleOp]

-----------------------------------------------------------------------------
\* OnNeedsApproval reads the clock before it takes the lock.
OnNeedsApproval(c, k) ==
  /\ call[c].pc = "idle"
  /\ call' = [call EXCEPT ![c] = Ask("asking", k, clock)]
  /\ UNCHANGED <<clock, store, op>>

Held(k) == {g \in grants : g.key = k}

\* Mutated forms of ConsumeGrant: the grant is not deleted; its expiry is not
\* looked at.
GrantNotDeleted(c) ==
  LET held == {g \in Held(call[c].key) : call[c].now <= g.expiresAt}
  IN  /\ call[c].pc = "asking"
      /\ \/ \E g \in held : call' = [call EXCEPT ![c] = Admit(@, g)]
         \/ held = {} /\ call' = [call EXCEPT ![c] = Ask("missed", @.key, 0)]
      /\ UNCHANGED <<clock, store, op>>

AdmitsExpired(c) ==
  LET held == Held(call[c].key)
  IN  /\ call[c].pc = "asking"
      /\ grants' = grants \ held
      /\ \/ \E g \in held : call' = [call EXCEPT ![c] = Admit(@, g)]
         \/ held = {} /\ call' = [call EXCEPT ![c] = Ask("missed", @.key, 0)]
      /\ UNCHANGED <<clock, status, keyOf, decidedAt, op>>

\* The grant leaves the store whether or not it is still valid.
ConsumeGrant(c) ==
  LET held == Held(call[c].key)
      live == {g \in held : call[c].now <= g.expiresAt}
  IN  /\ call[c].pc = "asking"
      /\ grants' = grants \ held
      /\ \/ \E g \in live : call' = [call EXCEPT ![c] = Admit(@, g)]
         \/ live = {} /\ call' = [call EXCEPT ![c] = Ask("missed", @.key, 0)]
      /\ UNCHANGED <<clock, status, keyOf, decidedAt, op>>

\* An id already in use is an error, which the handler turns into a deny.
CreateRequest(c) ==
  /\ call[c].pc = "missed"
  /\ \E id \in Ids :
       \/ /\ status[id] = "absent"
          /\ status' = [status EXCEPT ![id] = "pending"]
          /\ keyOf' = [keyOf EXCEPT ![id] = call[c].key]
          /\ call' = [call EXCEPT ![c] = Ended("queued")]
       \/ /\ status[id] # "absent"
          /\ call' = [call EXCEPT ![c] = Ended("failed")]
          /\ UNCHANGED <<status, keyOf>>
  /\ UNCHANGED <<clock, decidedAt, grants, op>>

-----------------------------------------------------------------------------
\* Approve(id) or Deny(id) reads the clock, then decides.
OpenDecision(o, id, v) ==
  /\ op[o].pc = "idle"
  /\ op' = [op EXCEPT ![o] = [pc |-> "deciding", id |-> id, verdict |-> v, now |-> clock]]
  /\ UNCHANGED <<clock, store, call>>

\* Only a pending request can be decided; any other id is an error.
DecideRequest(o) ==
  LET id == op[o].id
  IN  /\ op[o].pc = "deciding"
      /\ \/ /\ status[id] = "pending"
            /\ status' = [status EXCEPT ![id] = op[o].verdict]
            /\ decidedAt' = [decidedAt EXCEPT ![id] = op[o].now]
            /\ op' = IF op[o].verdict = "approved"
                      THEN [op EXCEPT ![o].pc = "granting"]
                      ELSE [op EXCEPT ![o] = IdleOp]
         \/ /\ status[id] # "pending"
            /\ op' = [op EXCEPT ![o] = IdleOp]
            /\ UNCHANGED <<status, decidedAt>>
      /\ UNCHANGED <<clock, keyOf, grants, call>>

\* The map assignment replaces whatever grant the key held.
PutGrant(o) ==
  LET id == op[o].id
      g == [key |-> keyOf[id], by |-> id, expiresAt |-> op[o].now + GrantTTL]
  IN  /\ op[o].pc = "granting"
      /\ grants' = (grants \ Held(g.key)) \union {g}
      /\ op' = [op EXCEPT ![o] = IdleOp]
      /\ UNCHANGED <<clock, status, keyOf, decidedAt, call>>

Tick ==
  /\ clock < MaxTime
  /\ clock' = clock + 1
  /\ UNCHANGED <<store, call, op>>

CallStep(c) == (\E k \in Keys : OnNeedsApproval(c, k)) \/ ConsumeGrant(c) \/ CreateRequest(c)

OperatorStep(o) ==
  \/ \E id \in Ids, v \in {"approved", "denied"} : OpenDecision(o, id, v)
  \/ DecideRequest(o)
  \/ PutGrant(o)

ApprovalNext == Tick \/ (\E c \in Calls : CallStep(c)) \/ (\E o \in Operators : OperatorStep(o))

ApprovalSpec == ApprovalInit /\ [][ApprovalNext]_approvalVars

-----------------------------------------------------------------------------
Admitted == {c \in Calls : call[c].pc = "admitted"}

(* One approval admits at most one call: whatever the interleaving of the  *)
(* retries that race for a grant and of the approvals that put it, no two  *)
(* calls are admitted on the strength of the same operator decision.       *)
OneApprovalOneCall ==
  \A c, d \in Admitted : call[c].via = call[d].via => c = d

(* A call is admitted only on an approval (never a denial, never a request *)
(* still pending) of a request with exactly its key, and only if its own   *)
(* clock reading is within GrantTTL of the operator's.                     *)
AdmittedByApproval ==
  \A c \in Admitted :
    /\ status[call[c].via] = "approved"
    /\ keyOf[call[c].via] = call[c].key
    /\ call[c].now <= decidedAt[call[c].via] + GrantTTL

(* A decision is final: with two operators racing an approve and a deny of *)
(* one request, the second gets an error and changes neither the status    *)
(* nor the decision time, and no later request takes the id over.          *)
DecidedForever ==
  [][\A id \in Ids : status[id] \in {"approved", "denied"} =>
       /\ status'[id] = status[id]
       /\ keyOf'[id] = keyOf[id]
       /\ decidedAt'[id] = decidedAt[id]]_approvalVars
=============================================================================

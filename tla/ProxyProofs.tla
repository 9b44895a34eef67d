---------------------------- MODULE ProxyProofs -----------------------------
(***************************************************************************)
(* Proofs about the gate pipeline, for every number of requests, operators,*)
(* jobs, tools, keys and approvals and every choice of wired gates.  Its   *)
(* steps are steps of the components, so their theorems hold of it; and an *)
(* inductive invariant relates each request's place in ServeHTTP to its    *)
(* audit entries, its notes and its meters.                                *)
(***************************************************************************)
EXTENDS Proxy, FiniteSetTheorems, TLAPS

(* The approval workflow, for every number of calls, operators, keys and   *)
(* requests and every grant lifetime.                                      *)
Granting == {o \in Operators : op[o].pc = "granting"}

\* A live grant stands for an approval that has admitted no call yet.
GrantsUnspent ==
  \A g \in grants :
    /\ status[g.by] = "approved"
    /\ keyOf[g.by] = g.key
    /\ g.expiresAt = decidedAt[g.by] + GrantTTL
    /\ \A c \in Admitted : call[c].via # g.by

\* An Approve between its two lock sections owns its decision alone.
GrantingUnspent ==
  \A o \in Granting :
    /\ status[op[o].id] = "approved"
    /\ decidedAt[op[o].id] = op[o].now
    /\ \A g \in grants : g.by # op[o].id
    /\ \A c \in Admitted : call[c].via # op[o].id
    /\ \A p \in Granting : op[p].id = op[o].id => p = o

ApprovalInv ==
  /\ ApprovalTypeOK
  /\ AdmittedByApproval
  /\ OneApprovalOneCall
  /\ GrantsUnspent
  /\ GrantingUnspent

USE DEF store, Statuses, Grants, CallStates, OpStates, Ask, Admit, Ended, IdleOp

LEMMA ArbitraryValues == AnyKey \in Keys /\ AnyId \in Ids
BY ApprovalAssumption, Zenon DEF AnyKey, AnyId

LEMMA ApprovalTypeStep == ApprovalTypeOK /\ [ApprovalNext]_approvalVars => ApprovalTypeOK'
<1> SUFFICES ASSUME ApprovalTypeOK, [ApprovalNext]_approvalVars PROVE ApprovalTypeOK'
  OBVIOUS
<1> USE ArbitraryValues, ApprovalAssumption DEF ApprovalTypeOK
<1>1. CASE Tick
  BY <1>1 DEF Tick
<1>2. ASSUME NEW c \in Calls, NEW k \in Keys, OnNeedsApproval(c, k) PROVE ApprovalTypeOK'
  BY <1>2, Zenon DEF OnNeedsApproval
<1>3. ASSUME NEW c \in Calls, ConsumeGrant(c) PROVE ApprovalTypeOK'
  <2>1. grants' \subseteq grants /\ UNCHANGED <<clock, status, keyOf, decidedAt, op>>
    BY <1>3, Zenon DEF ConsumeGrant
  <2>2. \/ \E g \in grants : call' = [call EXCEPT ![c] = Admit(call[c], g)]
        \/ call' = [call EXCEPT ![c] = Ask("missed", call[c].key, 0)]
    BY <1>3, Zenon DEF ConsumeGrant, Held
  <2>3. call' \in [Calls -> CallStates]
    BY <2>2
  <2> QED
    BY <2>1, <2>3, Zenon
<1>4. ASSUME NEW c \in Calls, CreateRequest(c) PROVE ApprovalTypeOK'
  <2>1. PICK pc \in {"queued", "failed"} : call' = [call EXCEPT ![c] = Ended(pc)]
    BY <1>4, Zenon DEF CreateRequest
  <2>2. call' \in [Calls -> CallStates]
    BY <2>1, Zenon
  <2>3. status' \in [Ids -> Statuses] /\ keyOf' \in [Ids -> Keys]
    BY <1>4 DEF CreateRequest
  <2> QED
    BY <1>4, <2>2, <2>3, Zenon DEF CreateRequest
<1>5. ASSUME NEW o \in Operators, NEW id \in Ids, NEW v \in {"approved", "denied"},
             OpenDecision(o, id, v)
      PROVE  ApprovalTypeOK'
  BY <1>5, Zenon DEF OpenDecision
<1>6. ASSUME NEW o \in Operators, DecideRequest(o) PROVE ApprovalTypeOK'
  <2>1. op' \in [Operators -> OpStates]
    BY <1>6 DEF DecideRequest
  <2>2. status' \in [Ids -> Statuses] /\ decidedAt' \in [Ids -> Nat]
    BY <1>6 DEF DecideRequest
  <2> QED
    BY <1>6, <2>1, <2>2, Zenon DEF DecideRequest
<1>7. ASSUME NEW o \in Operators, PutGrant(o) PROVE ApprovalTypeOK'
  BY <1>7 DEF PutGrant, Held
<1>8. CASE UNCHANGED approvalVars
  BY <1>8, Zenon DEF approvalVars
<1> QED
  BY <1>1, <1>2, <1>3, <1>4, <1>5, <1>6, <1>7, <1>8
     DEF ApprovalNext, CallStep, OperatorStep

(* Type correctness: every step of the manager and the store keeps the     *)
(* variables in their types.                                               *)
THEOREM ApprovalTypeCorrect == ApprovalSpec => []ApprovalTypeOK
<1>1. ApprovalInit => ApprovalTypeOK
  BY ArbitraryValues DEF ApprovalInit, ApprovalTypeOK
<1> QED
  BY <1>1, ApprovalTypeStep, PTL DEF ApprovalSpec

-----------------------------------------------------------------------------
LEMMA ApprovalInvStep == ApprovalInv /\ [ApprovalNext]_approvalVars => ApprovalInv'
<1> SUFFICES ASSUME ApprovalInv, [ApprovalNext]_approvalVars PROVE ApprovalInv'
  OBVIOUS
<1>0. ApprovalTypeOK /\ ApprovalTypeOK'
  BY ApprovalTypeStep, Zenon DEF ApprovalInv
<1> USE <1>0, ApprovalAssumption
<1> USE DEF ApprovalTypeOK, ApprovalInv, AdmittedByApproval, OneApprovalOneCall, GrantsUnspent,
            GrantingUnspent, Admitted, Granting
<1>1. CASE Tick
  BY <1>1 DEF Tick
<1>2. ASSUME NEW c \in Calls, NEW k \in Keys, OnNeedsApproval(c, k) PROVE ApprovalInv'
  <2>1. Admitted' = Admitted /\ \A d \in Admitted : call'[d] = call[d]
    BY <1>2 DEF OnNeedsApproval
  <2> QED
    BY <1>2, <2>1, SMTT(30) DEF OnNeedsApproval
<1>3. ASSUME NEW c \in Calls, ConsumeGrant(c) PROVE ApprovalInv'
  <2>1. grants' \subseteq grants /\ UNCHANGED <<clock, status, keyOf, decidedAt, op>>
    BY <1>3, Zenon DEF ConsumeGrant
  <2>2. \A d \in Calls \ {c} : call'[d] = call[d]
    BY <1>3, ZenonT(30) DEF ConsumeGrant
  <2>3. CASE call'[c].pc # "admitted"
    <3>1. Admitted' \subseteq Admitted /\ \A d \in Admitted' : call'[d] = call[d]
      BY <2>2, <2>3, ZenonT(30)
    <3> QED
      BY <2>1, <3>1
  <2>4. CASE call'[c].pc = "admitted"
    <3>1. PICK g \in grants : /\ g.key = call[c].key
                             /\ call[c].now <= g.expiresAt
                             /\ call'[c] = Admit(call[c], g)
                             /\ g \notin grants'
      BY <1>3, <2>4 DEF ConsumeGrant, Held
    <3>2. c \notin Admitted /\ Admitted' = Admitted \union {c}
      BY <1>3, <2>2, <2>4 DEF ConsumeGrant
    <3>3. \A h \in grants' : h.by # g.by
      BY <2>1, <3>1
    <3> QED
      BY <2>1, <2>2, <3>1, <3>2, <3>3, SMTT(30)
  <2> QED
    BY <2>3, <2>4, Zenon
<1>4. ASSUME NEW c \in Calls, CreateRequest(c) PROVE ApprovalInv'
  <2>1. Admitted' = Admitted /\ \A d \in Admitted : call'[d] = call[d]
    BY <1>4, SMTT(20) DEF CreateRequest
  <2>2. UNCHANGED <<decidedAt, grants, op>>
    BY <1>4, Zenon DEF CreateRequest
  <2>3. \A id \in Ids : status[id] = "approved" =>
          status'[id] = "approved" /\ keyOf'[id] = keyOf[id]
    BY <1>4 DEF CreateRequest
  <2> QED
    BY <2>1, <2>2, <2>3
<1>5. ASSUME NEW o \in Operators, NEW id \in Ids, NEW v \in {"approved", "denied"},
             OpenDecision(o, id, v)
      PROVE  ApprovalInv'
  <2>1. Granting' = Granting /\ \A p \in Granting : op'[p] = op[p]
    BY <1>5 DEF OpenDecision
  <2> QED
    BY <1>5, <2>1 DEF OpenDecision
<1>6. ASSUME NEW o \in Operators, DecideRequest(o) PROVE ApprovalInv'
  <2>1. /\ UNCHANGED <<keyOf, grants, call>>
        /\ \A p \in Operators \ {o} : op'[p] = op[p]
        /\ o \notin Granting
    BY <1>6 DEF DecideRequest
  <2>2. \A id \in Ids : status[id] = "approved" =>
          status'[id] = "approved" /\ decidedAt'[id] = decidedAt[id]
    BY <1>6, ZenonT(30) DEF DecideRequest
  <2>3. o \in Granting' => /\ op'[o].id = op[o].id /\ op'[o].now = op[o].now
                           /\ status[op[o].id] = "pending"
                           /\ status'[op[o].id] = "approved"
                           /\ decidedAt'[op[o].id] = op[o].now
    BY <1>6 DEF DecideRequest
  <2> QED
    BY <2>1, <2>2, <2>3, SMTT(20)
<1>7. ASSUME NEW o \in Operators, PutGrant(o) PROVE ApprovalInv'
  <2> DEFINE g == [key |-> keyOf[op[o].id], by |-> op[o].id,
                   expiresAt |-> op[o].now + GrantTTL]
  <2>1. /\ UNCHANGED <<status, keyOf, decidedAt, call>>
        /\ grants' \subseteq grants \union {g}
        /\ Granting' = Granting \ {o}
        /\ \A p \in Operators \ {o} : op'[p] = op[p]
        /\ o \in Granting
    <3>1. /\ op[o].pc = "granting" /\ op' = [op EXCEPT ![o] = IdleOp]
          /\ grants' = (grants \ Held(g.key)) \union {g}
          /\ UNCHANGED <<status, keyOf, decidedAt, call>>
      BY <1>7, Zenon DEF PutGrant
    <3>2. Granting' = Granting \ {o} /\ o \in Granting
      BY <3>1 DEF IdleOp
    <3> QED
      BY <3>1, <3>2
  <2>2. GrantsUnspent'
    BY <2>1
  <2>3. GrantingUnspent'
    <3> SUFFICES ASSUME NEW p \in Granting \ {o}
                 PROVE  /\ status[op[p].id] = "approved"
                        /\ decidedAt[op[p].id] = op[p].now
                        /\ \A h \in grants' : h.by # op[p].id
                        /\ \A c \in Admitted : call[c].via # op[p].id
                        /\ \A q \in Granting \ {o} : op[q].id = op[p].id => q = p
      BY <2>1
    <3>1. g.by # op[p].id
      BY <2>1, Zenon
    <3> QED
      BY <2>1, <3>1
  <2> QED
    BY <2>1, <2>2, <2>3
<1>8. CASE UNCHANGED approvalVars
  BY <1>8 DEF approvalVars
<1> HIDE <1>0 DEF ApprovalTypeOK, ApprovalInv, AdmittedByApproval, OneApprovalOneCall, GrantsUnspent,
            GrantingUnspent, Admitted, Granting
<1> QED
  BY <1>1, <1>2, <1>3, <1>4, <1>5, <1>6, <1>7, <1>8, Zenon
     DEF ApprovalNext, CallStep, OperatorStep

LEMMA ApprovalInitInv == ApprovalInit => ApprovalInv
BY ArbitraryValues
   DEF ApprovalInit, ApprovalInv, ApprovalTypeOK, AdmittedByApproval, OneApprovalOneCall, GrantsUnspent,
       GrantingUnspent, Admitted, Granting

LEMMA ApprovalInvHolds == ApprovalSpec => []ApprovalInv
BY ApprovalInitInv, ApprovalInvStep, PTL DEF ApprovalSpec

(* No approval admits two calls, for any number of racing retries,         *)
(* operators and requests.                                                 *)
THEOREM SingleUse == ApprovalSpec => []OneApprovalOneCall
BY ApprovalInvHolds, PTL DEF ApprovalInv

(* Every admitted call was approved by an operator, for exactly its key,   *)
(* at most GrantTTL before.                                                *)
THEOREM AdmissionsApproved == ApprovalSpec => []AdmittedByApproval
BY ApprovalInvHolds, PTL DEF ApprovalInv

(* No step changes a decided request: neither a second decision nor the    *)
(* creation of another request.                                            *)
THEOREM DecisionsFinal == ApprovalSpec => DecidedForever
<1> DEFINE Final == \A id \in Ids : status[id] \in {"approved", "denied"} =>
                      /\ status'[id] = status[id]
                      /\ keyOf'[id] = keyOf[id]
                      /\ decidedAt'[id] = decidedAt[id]
<1>1. ApprovalTypeOK /\ [ApprovalNext]_approvalVars => [Final]_approvalVars
  <2> SUFFICES ASSUME ApprovalTypeOK, ApprovalNext PROVE Final
    OBVIOUS
  <2> USE DEF ApprovalTypeOK
  <2>1. CASE Tick
    BY <2>1, Zenon DEF Tick
  <2>2. ASSUME NEW c \in Calls, CallStep(c) PROVE Final
    BY <2>2, ZenonT(30) DEF CallStep, OnNeedsApproval, ConsumeGrant, CreateRequest
  <2>3. ASSUME NEW o \in Operators, OperatorStep(o) PROVE Final
    BY <2>3, Zenon DEF OperatorStep, OpenDecision, DecideRequest, PutGrant
  <2> QED
    BY <2>1, <2>2, <2>3, Zenon DEF ApprovalNext
<1> QED
  BY <1>1, ApprovalTypeCorrect, PTL DEF ApprovalSpec, DecidedForever

HIDE DEF store, Statuses, Grants, CallStates, OpStates, Ask, Admit, Ended, IdleOp

-----------------------------------------------------------------------------
(* The request ceiling, for every number of calls and jobs and every       *)
(* limit.  The count an increment returns is a ticket: no two calls of a   *)
(* job hold the same one, so the calls that passed inject into             *)
(* 1..RequestLimit.                                                        *)
JobCounted(c) == gate[c].pc \in {"passed", "refused"}

Tickets ==
  /\ \A c \in Calls : JobCounted(c) => gate[c].n \in 1..count[gate[c].job]
  /\ \A c, d \in Calls :
       (JobCounted(c) /\ JobCounted(d) /\ gate[c].job = gate[d].job /\ gate[c].n = gate[d].n)
         => c = d

\* Where the limit comes in: what passed, what was refused, what a peek saw.
JobThresholds ==
  /\ \A c \in Calls : gate[c].pc = "passed" => gate[c].n <= RequestLimit
  /\ \A c \in Calls : gate[c].pc = "refused" => gate[c].n > RequestLimit
  /\ \A c \in Calls : gate[c].over => gate[c].pc # "passed" /\ JobAtCeiling(gate[c].job)

JobInv == JobTypeOK /\ Tickets /\ JobThresholds

USE JobCallsAssumption, JobBudgetAssumption DEF AnyJob, Gates

LEMMA JobTypeStep == JobTypeOK /\ [JobNext]_jobVars => JobTypeOK'
<1> SUFFICES ASSUME JobTypeOK, [JobNext]_jobVars PROVE JobTypeOK'
  OBVIOUS
<1> USE DEF JobTypeOK
<1>1. ASSUME NEW c \in Calls, NEW j \in Jobs, JobIsOverBudget(c, j) PROVE JobTypeOK'
  BY <1>1 DEF JobIsOverBudget
<1>2. ASSUME NEW c \in Calls, JobCheck(c) PROVE JobTypeOK'
  BY <1>2 DEF JobCheck, Increment, JobVerdict
<1>3. ASSUME NEW c \in Calls, JobCheckFailsOpen(c) PROVE JobTypeOK'
  BY <1>3 DEF JobCheckFailsOpen, Increment, JobVerdict
<1>4. CASE UNCHANGED jobVars
  BY <1>4, Zenon DEF jobVars
<1> QED
  BY <1>1, <1>2, <1>3, <1>4, Zenon DEF JobNext

LEMMA JobInitInv == JobInit => JobInv
BY DEF JobInit, Ungated, JobInv, JobTypeOK, Tickets, JobThresholds, JobCounted, JobAtCeiling

(* The type invariant, for all constants.                                  *)
THEOREM JobTypeCorrect == JobSpec => []JobTypeOK
<1>1. JobInit => JobTypeOK
  BY JobInitInv, Zenon DEF JobInv
<1> QED
  BY <1>1, JobTypeStep, PTL DEF JobSpec

LEMMA JobInvStep == JobInv /\ [JobNext]_jobVars => JobInv'
<1> SUFFICES ASSUME JobInv, [JobNext]_jobVars PROVE JobInv'
  OBVIOUS
<1>0. JobTypeOK /\ JobTypeOK'
  BY JobTypeStep, Zenon DEF JobInv
<1> USE <1>0 DEF JobTypeOK, JobInv, Tickets, JobThresholds, JobCounted, JobAtCeiling
<1>1. ASSUME NEW c \in Calls, NEW j \in Jobs, JobIsOverBudget(c, j) PROVE JobInv'
  <2>1. PICK over \in BOOLEAN :
          /\ (over <=> JobAtCeiling(j)) \/ (MeterCanFail /\ ~over)
          /\ gate' = [gate EXCEPT ![c] = [pc |-> "peeked", job |-> j, over |-> over, n |-> 0]]
    BY <1>1, Zenon DEF JobIsOverBudget
  <2>2. count' = count /\ gate[c].pc = "idle"
    BY <1>1, Zenon DEF JobIsOverBudget
  <2>3. Tickets'
    BY <2>1, <2>2, ZenonT(30)
  <2>4. JobThresholds'
    BY <2>1, <2>2, Zenon
  <2> QED
    BY <2>3, <2>4, Zenon
<1>2. ASSUME NEW c \in Calls, JobCheck(c) PROVE JobInv'
  <2> DEFINE j == gate[c].job
  <2>1. /\ count'[j] = count[j] + 1
        /\ \A i \in Jobs \ {j} : count'[i] = count[i]
        /\ \A d \in Calls \ {c} : gate'[d] = gate[d]
    BY <1>2, Zenon DEF JobCheck, Increment, JobVerdict
  <2>2. /\ gate[c].pc = "peeked"
        /\ gate'[c].job = j /\ gate'[c].over = gate[c].over /\ gate'[c].n = count[j] + 1
        /\ gate'[c].pc = IF count[j] + 1 > RequestLimit THEN "refused" ELSE "passed"
    BY <1>2, Zenon DEF JobCheck, JobVerdict
  <2>3. Tickets'
    <3>1. ASSUME NEW d \in Calls, JobCounted(d)' PROVE gate'[d].n \in 1..count'[gate'[d].job]
      BY <2>1, <2>2, <3>1
    <3>2. ASSUME NEW d \in Calls \ {c}, JobCounted(d)', gate'[d].job = j
          PROVE  gate'[d].n # gate'[c].n
      BY <2>1, <2>2, <3>2
    <3>3. \A d, e \in Calls \ {c} :
            (JobCounted(d)' /\ JobCounted(e)' /\ gate'[d].job = gate'[e].job /\ gate'[d].n = gate'[e].n)
              => d = e
      BY <2>1, Zenon
    <3>4. gate'[c].job = j
      BY <2>2, Zenon
    <3> HIDE <1>0 DEF JobTypeOK, JobInv, JobCounted
    <3>5. ASSUME NEW d \in Calls, NEW e \in Calls, JobCounted(d)', JobCounted(e)',
                 gate'[d].job = gate'[e].job, gate'[d].n = gate'[e].n
          PROVE  d = e
      <4>1. CASE d = c
        BY <3>2, <3>4, <3>5, <4>1, Zenon
      <4>2. CASE e = c
        BY <3>2, <3>4, <3>5, <4>2, Zenon
      <4>3. CASE d # c /\ e # c
        BY <3>3, <3>5, <4>3, Zenon
      <4> QED
        BY <4>1, <4>2, <4>3, Zenon
    <3> QED
      BY <3>1, <3>5, Zenon
  <2>4. JobThresholds'
    BY <2>1, <2>2, SMTT(30)
  <2> QED
    BY <2>3, <2>4, Zenon
<1>3. ASSUME NEW c \in Calls, JobCheckFailsOpen(c) PROVE JobInv'
  <2>1. /\ \A i \in Jobs : count'[i] \in Nat /\ count'[i] >= count[i]
        /\ \A d \in Calls \ {c} : gate'[d] = gate[d]
        /\ gate'[c].pc = "failedOpen" /\ gate'[c].over = gate[c].over
        /\ gate'[c].job = gate[c].job
    BY <1>3 DEF JobCheckFailsOpen, Increment, JobVerdict
  <2>2. Tickets'
    <3>1. ASSUME NEW d \in Calls, JobCounted(d)' PROVE gate'[d].n \in 1..count'[gate'[d].job]
      BY <2>1, <3>1, SMTT(30)
    <3> QED
      BY <2>1, <3>1, SMTT(30)
  <2>3. JobThresholds'
    BY <2>1, SMTT(30)
  <2> QED
    BY <2>2, <2>3, Zenon
<1>4. CASE UNCHANGED jobVars
  BY <1>4, Zenon DEF jobVars
<1> QED
  BY <1>1, <1>2, <1>3, <1>4, Zenon DEF JobNext

LEMMA JobInvHolds == JobSpec => []JobInv
BY JobInitInv, JobInvStep, PTL DEF JobSpec

LEMMA JobInvCeiling == JobInv => JobCeiling
<1> SUFFICES ASSUME JobInv, NEW j \in Jobs PROVE Cardinality(JobPassed(j)) <= RequestLimit
  BY Zenon DEF JobCeiling
<1> DEFINE ticket == [c \in JobPassed(j) |-> gate[c].n]
<1>1. ticket \in Injection(JobPassed(j), 1..RequestLimit)
  <2>1. ASSUME NEW c \in JobPassed(j) PROVE gate[c].n \in 1..RequestLimit
    <3>1. c \in Calls /\ JobCounted(c) /\ gate[c].pc = "passed"
      BY Zenon DEF JobPassed, JobCounted
    <3>2. gate[c].n \in 1..count[gate[c].job] /\ gate[c].n <= RequestLimit
      BY <3>1, Zenon DEF JobInv, Tickets, JobThresholds
    <3>3. count[gate[c].job] \in Nat
      BY <3>1, Zenon DEF JobInv, JobTypeOK
    <3> QED
      BY <3>2, <3>3
  <2>2. \A c, d \in JobPassed(j) : gate[c].n = gate[d].n => c = d
    BY Zenon DEF JobInv, Tickets, JobCounted, JobPassed
  <2> QED
    BY <2>1, <2>2, Zenon DEF Injection, IsInjective
<1>2. IsFiniteSet(1..RequestLimit) /\ Cardinality(1..RequestLimit) = RequestLimit
  BY FS_Interval
<1> QED
  BY <1>1, <1>2, FS_Injection

(* At most RequestLimit calls of a job pass the gate on the meter's word,  *)
(* for any number of concurrent calls and any pattern of meter failures.   *)
THEOREM JobCeilingHolds == JobSpec => []JobCeiling
BY JobInvHolds, JobInvCeiling, PTL

(* A call policy was told is over budget never passes the gate.            *)
THEOREM JobPeekAgrees == JobSpec => []JobPeekPredictsGate
<1>1. JobInv => JobPeekPredictsGate
  BY Zenon DEF JobInv, JobThresholds, JobPeekPredictsGate
<1> QED
  BY <1>1, JobInvHolds, PTL

(* After the first refusal of a job no call of that job passes.            *)
THEOREM JobRefusalIsFinal == JobSpec => JobRefusedForever
<1> DEFINE A == \A c, d \in Calls :
       (gate[c].pc = "refused" /\ gate'[d].pc = "passed" /\ gate[d].pc # "passed")
         => gate'[d].job # gate[c].job
<1>1. JobInv /\ [JobNext]_jobVars => [A]_jobVars
  <2> SUFFICES ASSUME JobInv, JobNext, NEW c \in Calls, NEW d \in Calls,
                      gate[c].pc = "refused", gate'[d].pc = "passed", gate[d].pc # "passed"
               PROVE  gate'[d].job # gate[c].job
    OBVIOUS
  <2> USE DEF JobInv, JobTypeOK, Tickets, JobThresholds, JobCounted
  <2>1. JobCheck(d)
    <3>1. PICK e \in Calls : \/ \E j \in Jobs : JobIsOverBudget(e, j)
                             \/ JobCheck(e)
                             \/ JobCheckFailsOpen(e)
      BY Zenon DEF JobNext
    <3>2. e = d
      BY <3>1, Zenon DEF JobIsOverBudget, JobCheck, JobCheckFailsOpen, JobVerdict
    <3>3. ~ \E j \in Jobs : JobIsOverBudget(d, j)
      BY DEF JobIsOverBudget
    <3>4. ~ JobCheckFailsOpen(d)
      BY DEF JobCheckFailsOpen, JobVerdict
    <3> QED
      BY <3>1, <3>2, <3>3, <3>4, Zenon
  <2>2. gate'[d].job = gate[d].job /\ count[gate[d].job] + 1 <= RequestLimit
    BY <2>1 DEF JobCheck, JobVerdict
  <2>3. count[gate[c].job] > RequestLimit
    OBVIOUS
  <2> QED
    BY <2>2, <2>3
<1> QED
  BY <1>1, JobInvHolds, PTL DEF JobSpec, JobRefusedForever

(* How the count relates to the calls it counted.                          *)
USE DEF JobTypeOK

\* The calls of a job the meter counted for certain, and those it may have.
Tallied(j)   == {c \in Calls : JobCounted(c) /\ gate[c].job = j}
Attempted(j) == {c \in Calls : (JobCounted(c) \/ gate[c].pc = "failedOpen") /\ gate[c].job = j}

MeterCounts ==
  \A j \in Jobs : /\ IsFiniteSet(Attempted(j))
                  /\ count[j] \in Cardinality(Tallied(j))..Cardinality(Attempted(j))

LEMMA OneMore ==
  ASSUME NEW S, NEW x, IsFiniteSet(S), x \notin S
  PROVE  IsFiniteSet(S \union {x}) /\ Cardinality(S \union {x}) = Cardinality(S) + 1
BY FS_AddElement, Zenon

LEMMA JobInitCounts == JobInit => MeterCounts
<1> SUFFICES ASSUME JobInit, NEW j \in Jobs
             PROVE  /\ IsFiniteSet(Attempted(j))
                    /\ count[j] \in Cardinality(Tallied(j))..Cardinality(Attempted(j))
  BY Zenon DEF MeterCounts
<1>1. Tallied(j) = {} /\ Attempted(j) = {} /\ count[j] = 0
  BY Zenon DEF JobInit, Ungated, Tallied, Attempted, JobCounted
<1> QED
  BY <1>1, FS_EmptySet

LEMMA JobCountsStep == JobTypeOK /\ MeterCounts /\ [JobNext]_jobVars => MeterCounts'
<1> SUFFICES ASSUME JobTypeOK, MeterCounts, [JobNext]_jobVars, NEW j \in Jobs
             PROVE  /\ IsFiniteSet(Attempted(j)')
                    /\ count'[j] \in Cardinality(Tallied(j)')..Cardinality(Attempted(j)')
  BY Zenon DEF MeterCounts
<1>0. /\ IsFiniteSet(Attempted(j)) /\ IsFiniteSet(Tallied(j))
      /\ Cardinality(Tallied(j)) \in Nat /\ Cardinality(Attempted(j)) \in Nat
      /\ count[j] \in Cardinality(Tallied(j))..Cardinality(Attempted(j))
  <2>1. Tallied(j) \in SUBSET Attempted(j)
    BY Zenon DEF Tallied, Attempted
  <2> QED
    BY <2>1, FS_Subset, FS_CardinalityType, Zenon DEF MeterCounts
<1>1. ASSUME NEW c \in Calls, NEW i \in Jobs, JobIsOverBudget(c, i)
      PROVE  UNCHANGED <<Tallied(j), Attempted(j), count>>
  BY <1>1 DEF JobIsOverBudget, Tallied, Attempted, JobCounted
<1>2. ASSUME NEW c \in Calls, JobCheck(c), gate[c].job # j
      PROVE  UNCHANGED <<Tallied(j), Attempted(j), count[j]>>
  BY <1>2, Zenon DEF JobCheck, Increment, JobVerdict, Tallied, Attempted, JobCounted
<1>3. ASSUME NEW c \in Calls, JobCheck(c), gate[c].job = j
      PROVE  /\ Tallied(j)' = Tallied(j) \union {c} /\ c \notin Tallied(j)
             /\ Attempted(j)' = Attempted(j) \union {c} /\ c \notin Attempted(j)
             /\ count'[j] = count[j] + 1
  BY <1>3, Zenon DEF JobCheck, Increment, JobVerdict, Tallied, Attempted, JobCounted
<1>4. ASSUME NEW c \in Calls, JobCheckFailsOpen(c), gate[c].job # j
      PROVE  UNCHANGED <<Tallied(j), Attempted(j), count[j]>>
  BY <1>4, Zenon DEF JobCheckFailsOpen, Increment, JobVerdict, Tallied, Attempted, JobCounted
<1>5. ASSUME NEW c \in Calls, JobCheckFailsOpen(c), gate[c].job = j
      PROVE  /\ Tallied(j)' = Tallied(j)
             /\ Attempted(j)' = Attempted(j) \union {c} /\ c \notin Attempted(j)
             /\ count'[j] \in count[j]..count[j] + 1
  BY <1>5 DEF JobCheckFailsOpen, Increment, JobVerdict, Tallied, Attempted, JobCounted
<1>6. CASE UNCHANGED <<Tallied(j), Attempted(j), count[j]>>
  BY <1>0, <1>6, Zenon
<1>7. CASE \E c : /\ Tallied(j)' = Tallied(j) \union {c} /\ c \notin Tallied(j)
                  /\ Attempted(j)' = Attempted(j) \union {c} /\ c \notin Attempted(j)
                  /\ count'[j] = count[j] + 1
  <2>1. PICK c : /\ Tallied(j)' = Tallied(j) \union {c} /\ c \notin Tallied(j)
                 /\ Attempted(j)' = Attempted(j) \union {c} /\ c \notin Attempted(j)
                 /\ count'[j] = count[j] + 1
    BY <1>7, Zenon
  <2>2. IsFiniteSet(Attempted(j)') /\ Cardinality(Attempted(j)') = Cardinality(Attempted(j)) + 1
    BY <1>0, <2>1, OneMore
  <2>3. Cardinality(Tallied(j)') = Cardinality(Tallied(j)) + 1
    BY <1>0, <2>1, OneMore, Zenon
  <2> QED
    BY <1>0, <2>1, <2>2, <2>3
<1>8. CASE \E c : /\ Tallied(j)' = Tallied(j)
                  /\ Attempted(j)' = Attempted(j) \union {c} /\ c \notin Attempted(j)
                  /\ count'[j] \in count[j]..count[j] + 1
  <2>1. PICK c : /\ Tallied(j)' = Tallied(j)
                 /\ Attempted(j)' = Attempted(j) \union {c} /\ c \notin Attempted(j)
                 /\ count'[j] \in count[j]..count[j] + 1
    BY <1>8, Zenon
  <2>2. /\ IsFiniteSet(Attempted(j)')
        /\ Cardinality(Attempted(j)') = Cardinality(Attempted(j)) + 1
    BY <1>0, <2>1, OneMore
  <2> QED
    BY <1>0, <2>1, <2>2
<1>9. CASE UNCHANGED jobVars
  BY <1>6, <1>9, Zenon DEF jobVars, Tallied, Attempted, JobCounted
<1> QED
  BY <1>1, <1>2, <1>3, <1>4, <1>5, <1>6, <1>7, <1>8, <1>9, Zenon DEF JobNext

HIDE DEF AnyJob, Gates, JobTypeOK

-----------------------------------------------------------------------------
(* The cost ceiling, for every table of costs.  The total an Add returns   *)
(* marks out the interval of cost units the call was charged.  Intervals   *)
(* of one job never overlap, so the units of the calls that passed inject  *)
(* into 1..CostLimit.                                                      *)
CostCounted(c) == bill[c].pc \in {"passed", "refused"}

\* The last unit below the interval a counted call was charged.
Below(c) == bill[c].total - bill[c].cost

Intervals ==
  /\ \A c \in Calls : CostCounted(c) => Below(c) >= 0 /\ bill[c].total <= total[bill[c].job]
  /\ \A c, d \in Calls :
       (CostCounted(c) /\ CostCounted(d) /\ c # d /\ bill[c].job = bill[d].job)
         => bill[c].total <= Below(d) \/ bill[d].total <= Below(c)

CostThresholds ==
  /\ \A c \in Calls : bill[c].pc = "passed" => bill[c].total <= CostLimit
  /\ \A c \in Calls : bill[c].pc = "refused" => bill[c].total > CostLimit
  /\ \A c \in Calls : bill[c].over =>
       /\ CostAtCeiling(bill[c].job)
       /\ bill[c].cost > 0 => bill[c].pc # "passed"

CostInv == CostTypeOK /\ Intervals /\ CostThresholds

USE JobCallsAssumption, CostBudgetAssumption DEF AnyJob, Bills

(* Every tool has a cost, and it is a natural number.                      *)
LEMMA CostOfNat == ASSUME NEW tool \in Tools PROVE CostOf(tool) \in Nat
BY Zenon DEF CostOf

LEMMA CostTypeStep == CostTypeOK /\ [CostNext]_costVars => CostTypeOK'
<1> SUFFICES ASSUME CostTypeOK, [CostNext]_costVars PROVE CostTypeOK'
  OBVIOUS
<1> USE DEF CostTypeOK
<1>1. ASSUME NEW c \in Calls, NEW j \in Jobs, NEW tool \in Tools, CostIsOverBudget(c, j, tool)
      PROVE  CostTypeOK'
  BY <1>1, CostOfNat DEF CostIsOverBudget
<1>2. ASSUME NEW c \in Calls, CostCheck(c) PROVE CostTypeOK'
  BY <1>2 DEF CostCheck, Add, CostVerdict
<1>3. ASSUME NEW c \in Calls, CostCheckFailsOpen(c) PROVE CostTypeOK'
  BY <1>3 DEF CostCheckFailsOpen, Add, CostVerdict
<1>4. CASE UNCHANGED costVars
  BY <1>4, Zenon DEF costVars
<1> QED
  BY <1>1, <1>2, <1>3, <1>4, Zenon DEF CostNext

LEMMA CostInitInv == CostInit => CostInv
BY DEF CostInit, Unbilled, CostInv, CostTypeOK, Intervals, CostThresholds, CostCounted, CostAtCeiling

(* The type invariant, for all constants.                                  *)
THEOREM CostTypeCorrect == CostSpec => []CostTypeOK
<1>1. CostInit => CostTypeOK
  BY CostInitInv, Zenon DEF CostInv
<1> QED
  BY <1>1, CostTypeStep, PTL DEF CostSpec

LEMMA CostInvStep == CostInv /\ [CostNext]_costVars => CostInv'
<1> SUFFICES ASSUME CostInv, [CostNext]_costVars PROVE CostInv'
  OBVIOUS
<1>0. CostTypeOK /\ CostTypeOK'
  BY CostTypeStep, Zenon DEF CostInv
<1> USE <1>0 DEF CostTypeOK, CostInv, Intervals, CostThresholds, CostCounted, Below, CostAtCeiling
<1>1. ASSUME NEW c \in Calls, NEW j \in Jobs, NEW tool \in Tools, CostIsOverBudget(c, j, tool)
      PROVE  CostInv'
  <2>1. PICK over \in BOOLEAN :
          /\ (over <=> CostAtCeiling(j)) \/ (MeterCanFail /\ ~over)
          /\ bill' = [bill EXCEPT ![c] = [pc |-> "peeked", job |-> j, cost |-> CostOf(tool),
                                          over |-> over, total |-> 0]]
    BY <1>1, Zenon DEF CostIsOverBudget
  <2>2. total' = total /\ bill[c].pc = "idle"
    BY <1>1, Zenon DEF CostIsOverBudget
  <2>3. Intervals'
    BY <2>1, <2>2, CostOfNat, ZenonT(30)
  <2>4. CostThresholds'
    BY <2>1, <2>2, CostOfNat, Zenon
  <2> QED
    BY <2>3, <2>4, Zenon
<1>2. ASSUME NEW c \in Calls, CostCheck(c) PROVE CostInv'
  <2> DEFINE j == bill[c].job
             sum == total[j] + bill[c].cost
  <2>1. /\ total'[j] = sum
        /\ \A i \in Jobs \ {j} : total'[i] = total[i]
        /\ \A d \in Calls \ {c} : bill'[d] = bill[d]
    BY <1>2, Zenon DEF CostCheck, Add, CostVerdict
  <2>2. /\ bill[c].pc = "peeked"
        /\ bill'[c].job = j /\ bill'[c].cost = bill[c].cost
        /\ bill'[c].over = bill[c].over /\ bill'[c].total = sum
        /\ bill'[c].pc = IF sum > CostLimit THEN "refused" ELSE "passed"
    BY <1>2, Zenon DEF CostCheck, CostVerdict
  <2>3. Intervals'
    BY <2>1, <2>2
  <2>4. CostThresholds'
    BY <2>1, <2>2
  <2> QED
    BY <2>3, <2>4, Zenon
<1>3. ASSUME NEW c \in Calls, CostCheckFailsOpen(c) PROVE CostInv'
  <2>1. /\ \A i \in Jobs : total'[i] >= total[i]
        /\ \A d \in Calls \ {c} : bill'[d] = bill[d]
        /\ bill'[c].pc = "failedOpen" /\ bill'[c].over = bill[c].over
        /\ bill'[c].job = bill[c].job
    BY <1>3 DEF CostCheckFailsOpen, Add, CostVerdict
  <2>2. Intervals'
    BY <2>1
  <2>3. CostThresholds'
    BY <2>1, SMTT(20)
  <2> QED
    BY <2>2, <2>3, Zenon
<1>4. CASE UNCHANGED costVars
  BY <1>4, Zenon DEF costVars
<1> QED
  BY <1>1, <1>2, <1>3, <1>4, Zenon DEF CostNext

LEMMA CostInvHolds == CostSpec => []CostInv
BY CostInitInv, CostInvStep, PTL DEF CostSpec

LEMMA CostInvCeiling == CostInv => CostCeiling /\ \A j \in Jobs : IsFiniteSet(Spent(j))
<1> SUFFICES ASSUME CostInv, NEW j \in Jobs
             PROVE  IsFiniteSet(Spent(j)) /\ Cardinality(Spent(j)) <= CostLimit
  BY Zenon DEF CostCeiling
<1>0. IsFiniteSet(1..CostLimit) /\ Cardinality(1..CostLimit) = CostLimit
  BY FS_Interval
<1> USE DEF CostInv, CostTypeOK
<1> DEFINE unit == [u \in Spent(j) |-> Below(u[1]) + u[2]]
<1>1. \A u \in Spent(j) :
        /\ u[1] \in CostPassed(j) /\ u[1] \in Calls /\ u[2] \in 1..bill[u[1]].cost
        /\ u = <<u[1], u[2]>>
  BY DEF Spent, CostPassed
<1>2. \A u \in Spent(j) : Below(u[1]) + u[2] \in 1..CostLimit
  BY <1>1 DEF Intervals, CostThresholds, CostCounted, CostPassed, Below
<1>3. \A u, v \in Spent(j) : Below(u[1]) + u[2] = Below(v[1]) + v[2] => u = v
  <2> SUFFICES ASSUME NEW u \in Spent(j), NEW v \in Spent(j),
                      Below(u[1]) + u[2] = Below(v[1]) + v[2]
               PROVE  u = v
    OBVIOUS
  <2>1. u[1] = v[1]
    BY <1>1 DEF Intervals, CostCounted, CostPassed, Below
  <2>2. Below(u[1]) \in Int /\ u[2] \in Int /\ v[2] \in Int
    BY <1>1 DEF Below
  <2> QED
    BY <1>1, <2>1, <2>2
<1>4. unit \in Injection(Spent(j), 1..CostLimit)
  <2>1. unit \in [Spent(j) -> 1..CostLimit] /\ DOMAIN unit = Spent(j)
    BY <1>2, Zenon
  <2>2. IsInjective(unit)
    BY <1>3, Zenon DEF IsInjective
  <2> QED
    BY <2>1, <2>2, Zenon DEF Injection
<1> QED
  BY <1>0, <1>4, FS_Injection

(* The calls of a job that pass the gate on the meter's word cost at most  *)
(* CostLimit together, for any costs, any calls and any meter failures.    *)
THEOREM CostCeilingHolds == CostSpec => []CostCeiling
BY CostInvHolds, CostInvCeiling, PTL

(* A call with a cost that policy was told is over budget never passes.    *)
THEOREM CostPeekAgrees == CostSpec => []CostPeekPredictsGate
<1>1. CostInv => CostPeekPredictsGate
  BY Zenon DEF CostInv, CostThresholds, CostPeekPredictsGate
<1> QED
  BY <1>1, CostInvHolds, PTL

(* After the first refusal of a job no call of that job passes.            *)
THEOREM CostRefusalIsFinal == CostSpec => CostRefusedForever
<1> DEFINE A == \A c, d \in Calls :
       (bill[c].pc = "refused" /\ bill'[d].pc = "passed" /\ bill[d].pc # "passed")
         => bill'[d].job # bill[c].job
<1>1. CostInv /\ [CostNext]_costVars => [A]_costVars
  <2> SUFFICES ASSUME CostInv, CostNext, NEW c \in Calls, NEW d \in Calls,
                      bill[c].pc = "refused", bill'[d].pc = "passed", bill[d].pc # "passed"
               PROVE  bill'[d].job # bill[c].job
    OBVIOUS
  <2> USE DEF CostInv, CostTypeOK, Intervals, CostThresholds, CostCounted
  <2>1. CostCheck(d)
    <3>1. PICK e \in Calls : \/ \E j \in Jobs, tool \in Tools : CostIsOverBudget(e, j, tool)
                             \/ CostCheck(e)
                             \/ CostCheckFailsOpen(e)
      BY Zenon DEF CostNext
    <3>2. e = d
      BY <3>1, Zenon DEF CostIsOverBudget, CostCheck, CostCheckFailsOpen, CostVerdict
    <3>3. ~ \E j \in Jobs, tool \in Tools : CostIsOverBudget(d, j, tool)
      BY DEF CostIsOverBudget
    <3>4. ~ CostCheckFailsOpen(d)
      BY DEF CostCheckFailsOpen, CostVerdict
    <3> QED
      BY <3>1, <3>2, <3>3, <3>4, Zenon
  <2>2. bill'[d].job = bill[d].job /\ total[bill[d].job] + bill[d].cost <= CostLimit
    BY <2>1 DEF CostCheck, CostVerdict
  <2>3. total[bill[c].job] > CostLimit
    OBVIOUS
  <2> QED
    BY <2>2, <2>3
<1> QED
  BY <1>1, CostInvHolds, PTL DEF CostSpec, CostRefusedForever

HIDE DEF AnyJob, Bills
-----------------------------------------------------------------------------
(* The pipeline.  What a request has been through can be read off its      *)
(* place in ServeHTTP, its notes and its audit entries: that is a relation *)
(* between one request q, its entries l and the request's own progress in  *)
(* the two meters (g, b) and in the approval store (a), which no step of   *)
(* another request touches.                                                *)

Types == /\ req \in [Calls -> [pc : PCs, shape : Shapes, outcome : Outcomes, notes : SUBSET Notes]]
         /\ log \in [Calls -> Seq(Entries)]

Parsed(q) == q.shape.kind \notin {"unauthenticated", "malformed"}

\* Policy allowed the request, or a grant for its key was consumed.
Allowed(q, a) ==
  \/ q.outcome = "allow"
  \/ q.outcome = "needs_approval" /\ a.pc = "admitted" /\ a.key = q.shape.key

\* The meter of a wired gate has seen the request and not charged it.
JobPeeked(q, g) ==
  /\ g.pc \in {"idle", "peeked"}
  /\ "job" \in Wired => g.pc = "peeked" /\ g.job = q.shape.job
CostPeeked(q, b) == "cost" \in Wired => b.pc = "peeked" /\ b.job = q.shape.job

Uncharged(q, g) == g.pc \in {"idle", "peeked"} /\ "jobOpen" \notin q.notes

\* The gate let the request pass: on the meter's word, for a grant, or because
\* the meter failed.
JobHeeded(q, g) ==
  "job" \in Wired =>
    /\ g.pc \in {"passed", "refused", "failedOpen"} /\ g.job = q.shape.job
    /\ g.pc = "refused" => "grant" \in q.notes
    /\ g.pc = "failedOpen" <=> "jobOpen" \in q.notes
CostHeeded(q, b) ==
  "cost" \in Wired =>
    /\ b.pc \in {"passed", "refused", "failedOpen"} /\ b.job = q.shape.job
    /\ b.pc = "refused" => "grant" \in q.notes
    /\ b.pc = "failedOpen" <=> "costOpen" \in q.notes

\* All gates are behind the request.
Through(q, g, b, a) ==
  /\ q.shape.kind = "lifecycle" \/ Allowed(q, a)
  /\ q.shape.kind = "tool" => JobHeeded(q, g) /\ CostHeeded(q, b)
  /\ q.shape.kind # "tool" => Uncharged(q, g)

-----------------------------------------------------------------------------
\* The places, in the order of ServeHTTP.
Fresh(q, l, g, b, a) ==
  g.pc = "idle" /\ b.pc = "idle" /\ a.pc = "idle" /\ q.notes = {} /\ Len(l) = 0
Deciding(q, l, g, b, a) ==
  /\ Parsed(q) /\ JobPeeked(q, g) /\ b.pc = "idle" /\ a.pc = "idle" /\ q.notes = {} /\ Len(l) = 0
Asking(q, l, g, b, a) ==
  /\ Parsed(q) /\ q.shape.kind # "rpc" /\ JobPeeked(q, g) /\ CostPeeked(q, b)
  /\ q.outcome = "needs_approval" /\ a.pc \in {"asking", "missed"} /\ a.key = q.shape.key
  /\ q.notes = {} /\ Len(l) = 0
Budgeted(q, l, g, b, a) ==
  /\ q.shape.kind \in {"tool", "rpc"} /\ (q.pc = "job" => q.shape.kind = "tool")
  /\ Allowed(q, a) /\ JobPeeked(q, g) /\ CostPeeked(q, b)
  /\ q.notes \subseteq {"grant", "rateOpen"} /\ Len(l) = 0
Costing(q, l, g, b, a) ==
  /\ q.shape.kind = "tool" /\ Allowed(q, a) /\ JobHeeded(q, g) /\ CostPeeked(q, b)
  /\ "costOpen" \notin q.notes /\ Len(l) = 0
Forwarded(q, l, g, b, a) ==
  Parsed(q) /\ (q.pc # "upstream" => q.shape.kind = "rpc") /\ Through(q, g, b, a) /\ Len(l) = 0

\* A response that upgrades is recorded, whether or not the switch then fails.
Switching(q, l, g, b, a) ==
  /\ Upgrades /\ Parsed(q) /\ q.shape.kind # "rpc" /\ Through(q, g, b, a)
  /\ l[1].decision = IF q.shape.kind = "lifecycle" THEN "passthrough" ELSE "allow"

\* The decisions of a gate before the meters.
Withheld == {"deny", "throttled", "blocked", "needs_approval"}

\* The entry of a finished request tells how far it got.
Ending(q, d, g, b, a) ==
  /\ d \in {"allow", "passthrough", "error"} => Through(q, g, b, a)
  /\ d = "job_budget_exceeded" =>
       /\ q.shape.kind = "tool" /\ "jobOpen" \notin q.notes
       /\ "job" \in Wired => g.pc = "refused" /\ g.job = q.shape.job
  /\ d = "cost_budget_exceeded" => q.shape.kind = "tool" /\ JobHeeded(q, g)
  /\ d \in Withheld => Uncharged(q, g)

Over(q, l, g, b, a) ==
  \/ ~Parsed(q) /\ Uncharged(q, g) /\ Len(l) = IF q.shape.kind = "malformed" THEN 1 ELSE 0
  \/ Parsed(q) /\ Len(l) = 1 /\ Ending(q, l[1].decision, g, b, a)
  \/ Len(l) = 2 /\ l[2].decision = "error" /\ Switching(q, l, g, b, a)

Place(q, l, g, b, a) ==
  /\ q.pc \in {"idle", "received", "gated"} => Fresh(q, l, g, b, a)
  /\ q.pc \in {"received", "gated"} => Parsed(q)
  /\ q.pc = "peeked" => Deciding(q, l, g, b, a)
  /\ q.pc = "asking" => Asking(q, l, g, b, a)
  /\ q.pc \in {"budget", "job"} => Budgeted(q, l, g, b, a)
  /\ q.pc = "cost" => Costing(q, l, g, b, a)
  /\ q.pc \in {"upstream", "relaying", "halfClosed"} => Forwarded(q, l, g, b, a)
  /\ q.pc = "switching" => Len(l) = 1 /\ Switching(q, l, g, b, a)
  /\ q.pc = "done" => Over(q, l, g, b, a)

Here(r) == Place(req[r], log[r], gate[r], bill[r], call[r])

Placed == \A r \in Calls : Here(r)

-----------------------------------------------------------------------------
(* What the pieces of a step do to the request, and that they leave the    *)
(* others alone.                                                           *)
Still(f, r) == \A d \in Calls \ {r} : f'[d] = f[d]

\* The request is at pc, otherwise as it was.
Rests(r, pc) ==
  /\ Types' /\ Still(req, r) /\ Still(log, r)
  /\ req'[r].pc = pc /\ req'[r].shape = req[r].shape
  /\ req'[r].outcome = req[r].outcome /\ req'[r].notes = req[r].notes

\* The request is at pc with notes added.
Annotates(r, pc, notes) ==
  /\ Types' /\ Still(req, r) /\ Still(log, r)
  /\ req'[r].pc = pc /\ req'[r].shape = req[r].shape
  /\ req'[r].outcome = req[r].outcome /\ req'[r].notes = req[r].notes \union notes

\* The request is at pc with policy's outcome.
Turns(r, pc, outcome) ==
  /\ req' \in [Calls -> [pc : PCs, shape : Shapes, outcome : Outcomes, notes : SUBSET Notes]]
  /\ Still(req, r)
  /\ req'[r].pc = pc /\ req'[r].shape = req[r].shape
  /\ req'[r].outcome = outcome /\ req'[r].notes = req[r].notes

LEMMA Going ==
  ASSUME Types, NEW r \in Calls, NEW pc \in PCs, Goto(r, pc)
  PROVE  Rests(r, pc) /\ log'[r] = log[r]
BY Zenon DEF Goto, Still, Types, Rests

LEMMA Noted ==
  ASSUME Types, NEW r \in Calls, NEW pc \in PCs, NEW notes \in SUBSET Notes, Noting(r, pc, notes)
  PROVE  Annotates(r, pc, notes) /\ log'[r] = log[r]
BY Zenon DEF Noting, On, Still, Types, Annotates

LEMMA Turning ==
  ASSUME Types, NEW r \in Calls, NEW pc \in PCs, NEW outcome \in Outcomes,
         req' = [req EXCEPT ![r] = On(@, pc, outcome, @.notes)]
  PROVE  Turns(r, pc, outcome)
BY Zenon DEF On, Still, Types, Turns

LEMMA Logging ==
  ASSUME Types, NEW r \in Calls, NEW entry \in Entries,
         log' = [log EXCEPT ![r] = Append(@, entry)]
  PROVE  /\ log' \in [Calls -> Seq(Entries)] /\ Still(log, r)
         /\ Len(log[r]) = 0 => Len(log'[r]) = 1 /\ log'[r][1] = entry
         /\ Len(log[r]) = 1 => Len(log'[r]) = 2 /\ log'[r][1] = log[r][1] /\ log'[r][2] = entry
<1>1. log' \in [Calls -> Seq(Entries)] /\ Still(log, r) /\ log'[r] = Append(log[r], entry)
  BY DEF Still, Types
<1>2. log[r] \in Seq(Entries)
  BY Zenon DEF Types
<1> QED
  BY <1>1, <1>2

LEMMA Finished ==
  ASSUME Types, NEW r \in Calls, NEW d \in Decisions, NEW reason \in SUBSET Notes,
         NEW pc \in PCs, Finish(r, d, reason, pc)
  PROVE  /\ Rests(r, pc)
         /\ Len(log[r]) = 0 => Len(log'[r]) = 1 /\ log'[r][1].decision = d
         /\ Len(log[r]) = 1 => /\ Len(log'[r]) = 2 /\ log'[r][1] = log[r][1]
                               /\ log'[r][2].decision = d
<1> DEFINE entry == [decision |-> d, reason |-> reason]
<1>1. entry \in Entries /\ entry.decision = d
  BY Zenon DEF Entries
<1>2. log' = [log EXCEPT ![r] = Append(@, entry)]
  BY Zenon DEF Finish
<1>3. /\ req' \in [Calls -> [pc : PCs, shape : Shapes, outcome : Outcomes, notes : SUBSET Notes]]
      /\ Still(req, r)
      /\ req'[r].pc = pc /\ req'[r].shape = req[r].shape
      /\ req'[r].outcome = req[r].outcome /\ req'[r].notes = req[r].notes
  BY Zenon DEF Finish, Still, Types
<1> HIDE DEF entry
<1>4. /\ log' \in [Calls -> Seq(Entries)] /\ Still(log, r)
      /\ Len(log[r]) = 0 => Len(log'[r]) = 1 /\ log'[r][1] = entry
      /\ Len(log[r]) = 1 => Len(log'[r]) = 2 /\ log'[r][1] = log[r][1] /\ log'[r][2] = entry
  BY <1>1, <1>2, Logging, Zenon
<1> QED
  BY <1>1, <1>3, <1>4, Zenon DEF Rests, Types

Typed == ApprovalTypeOK /\ JobTypeOK /\ CostTypeOK /\ Types

\* A step that leaves the meters and the approval store alone.
Untouched(r) ==
  /\ Still(gate, r) /\ Still(bill, r) /\ Still(call, r)
  /\ gate'[r] = gate[r] /\ bill'[r] = bill[r] /\ call'[r] = call[r]

LEMMA Untouching ==
  ASSUME NEW r \in Calls, UNCHANGED <<approvalVars, jobVars, costVars>>
  PROVE  Untouched(r)
BY Zenon DEF approvalVars, jobVars, costVars, Still, Untouched

\* What a step of request r does: nothing to the others, and its own place fits.
Moves(r) == /\ Types' /\ Here(r)'
            /\ Still(req, r) /\ Still(log, r) /\ Still(gate, r) /\ Still(bill, r) /\ Still(call, r)

LEMMA RestMoves ==
  ASSUME NEW r, NEW pc, Untouched(r), Rests(r, pc),
         Place(req'[r], log'[r], gate[r], bill[r], call[r])
  PROVE  Moves(r)
BY Zenon DEF Untouched, Rests, Moves, Here

(* A request that only moves on keeps what it has been through.            *)
LEMMA Carried ==
  ASSUME NEW r, NEW pc, Rests(r, pc), NEW g, NEW b, NEW a
  PROVE  /\ Parsed(req'[r]) <=> Parsed(req[r])
         /\ Allowed(req'[r], a) <=> Allowed(req[r], a)
         /\ JobPeeked(req'[r], g) <=> JobPeeked(req[r], g)
         /\ CostPeeked(req'[r], b) <=> CostPeeked(req[r], b)
         /\ Uncharged(req'[r], g) <=> Uncharged(req[r], g)
         /\ JobHeeded(req'[r], g) <=> JobHeeded(req[r], g)
         /\ CostHeeded(req'[r], b) <=> CostHeeded(req[r], b)
         /\ Through(req'[r], g, b, a) <=> Through(req[r], g, b, a)
<1>1. /\ Parsed(req'[r]) <=> Parsed(req[r])
      /\ Allowed(req'[r], a) <=> Allowed(req[r], a)
      /\ JobPeeked(req'[r], g) <=> JobPeeked(req[r], g)
      /\ CostPeeked(req'[r], b) <=> CostPeeked(req[r], b)
      /\ Uncharged(req'[r], g) <=> Uncharged(req[r], g)
  BY Zenon DEF Rests, Parsed, Allowed, JobPeeked, CostPeeked, Uncharged
<1>2. /\ JobHeeded(req'[r], g) <=> JobHeeded(req[r], g)
      /\ CostHeeded(req'[r], b) <=> CostHeeded(req[r], b)
  BY Zenon DEF Rests, JobHeeded, CostHeeded
<1>3. Through(req'[r], g, b, a) <=> Through(req[r], g, b, a)
  BY <1>1, <1>2, Zenon DEF Rests, Through
<1> QED
  BY <1>1, <1>2, <1>3, Zenon

-----------------------------------------------------------------------------
(* The steps, each from its place to the next.                             *)
LEMMA ReceiveMoves ==
  ASSUME Typed, NEW r \in Calls, Here(r), NEW shape \in Shapes, Receive(r, shape)
  PROVE  Moves(r)
<1> DEFINE pc == IF shape.kind \in {"unauthenticated", "malformed"} THEN "done" ELSE "received"
           entry == [decision |-> "error", reason |-> {}]
<1>1. /\ req[r].pc = "idle" /\ UNCHANGED <<approvalVars, jobVars, costVars>>
      /\ req' = [req EXCEPT ![r] = [pc |-> pc, shape |-> shape, outcome |-> "none", notes |-> {}]]
      /\ log' = IF shape.kind = "malformed" THEN [log EXCEPT ![r] = <<entry>>] ELSE log
  BY Zenon DEF Receive, At
<1>2. entry \in Entries /\ pc \in PCs /\ "none" \in Outcomes
  BY Zenon DEF Entries, Decisions, PCs, Outcomes
<1>3. Fresh(req[r], log[r], gate[r], bill[r], call[r])
  BY <1>1, Zenon DEF Here, Place
<1>4. Untouched(r)
  BY <1>1, Untouching, Zenon
<1>5. /\ req' \in [Calls -> [pc : PCs, shape : Shapes, outcome : Outcomes, notes : SUBSET Notes]]
      /\ Still(req, r) /\ req'[r].pc = pc /\ req'[r].shape = shape /\ req'[r].notes = {}
  BY <1>1, <1>2, Zenon DEF Typed, Types, Still
<1> HIDE DEF entry
<1>6. /\ log' \in [Calls -> Seq(Entries)] /\ Still(log, r)
      /\ Len(log'[r]) = IF shape.kind = "malformed" THEN 1 ELSE 0
  BY <1>1, <1>2, <1>3 DEF Typed, Types, Still, Fresh
<1>7. Place(req'[r], log'[r], gate[r], bill[r], call[r])
  BY <1>3, <1>5, <1>6, Zenon DEF Fresh, Place, Over, Parsed, Uncharged
<1> QED
  BY <1>4, <1>5, <1>6, <1>7, Zenon DEF Moves, Untouched, Here, Types

(* A gate before the meters refuses the request.                           *)
LEMMA HeldBack ==
  ASSUME Types, NEW r \in Calls, Parsed(req[r]), Len(log[r]) = 0,
         NEW d \in Withheld, Refuse(r, d), Uncharged(req[r], gate'[r])
  PROVE  Rests(r, "done") /\ Here(r)'
<1>1. d \in Decisions /\ {} \in SUBSET Notes /\ "done" \in PCs
  BY Zenon DEF Withheld, Decisions, PCs
<1>2. Rests(r, "done") /\ Len(log'[r]) = 1 /\ log'[r][1].decision = d
  BY <1>1, Finished, Zenon DEF Refuse
<1>3. Parsed(req'[r]) /\ Uncharged(req'[r], gate'[r]) /\ req'[r].pc = "done"
  BY <1>2, Carried, Zenon DEF Rests
<1>4. Ending(req'[r], d, gate'[r], bill'[r], call'[r])
  BY <1>3, Zenon DEF Ending, Withheld
<1> QED
  BY <1>2, <1>3, <1>4, Zenon DEF Here, Place, Over

(* The request ends with upstream's answer.                                *)
LEMMA Answered ==
  ASSUME Types, NEW r \in Calls, Untouched(r), Parsed(req[r]), Len(log[r]) = 0,
         Through(req[r], gate[r], bill[r], call[r]),
         NEW d \in {"allow", "passthrough", "error"}, NEW reason \in SUBSET Notes,
         Finish(r, d, reason, "done")
  PROVE  Moves(r)
<1>1. d \in Decisions /\ "done" \in PCs
  BY Zenon DEF Decisions, PCs
<1>2. Rests(r, "done") /\ Len(log'[r]) = 1 /\ log'[r][1].decision = d
  BY <1>1, Finished, Zenon
<1>3. /\ Parsed(req'[r]) /\ Through(req'[r], gate[r], bill[r], call[r]) /\ req'[r].pc = "done"
  BY <1>2, Carried, Zenon DEF Rests
<1>4. Ending(req'[r], d, gate[r], bill[r], call[r])
  BY <1>3, Zenon DEF Ending, Withheld
<1>5. Place(req'[r], log'[r], gate[r], bill[r], call[r])
  BY <1>2, <1>3, <1>4, Zenon DEF Place, Over
<1> QED
  BY <1>2, <1>5, RestMoves, Zenon

LEMMA AutoBlockMoves ==
  ASSUME Typed, NEW r \in Calls, Here(r), AutoBlock(r)
  PROVE  Moves(r)
<1>1. req[r].pc = "received" /\ Types /\ Untouched(r)
  BY Untouching, Zenon DEF AutoBlock, At, Typed
<1>2. Fresh(req[r], log[r], gate[r], bill[r], call[r]) /\ Parsed(req[r])
  BY <1>1, Zenon DEF Here, Place
<1>3. Uncharged(req[r], gate[r]) /\ Len(log[r]) = 0
  BY <1>2, Zenon DEF Fresh, Uncharged
<1>4. CASE Refuse(r, "blocked")
  <2>1. Rests(r, "done") /\ Here(r)'
    BY <1>1, <1>2, <1>3, <1>4, HeldBack, Zenon DEF Withheld, Untouched
  <2> QED
    BY <1>1, <2>1, Zenon DEF Moves, Rests, Untouched
<1>5. CASE Shape(r).kind = "lifecycle" /\ Goto(r, "upstream")
  <2>1. Rests(r, "upstream") /\ log'[r] = log[r]
    BY <1>1, <1>5, Going, Zenon DEF PCs
  <2>2. /\ Parsed(req'[r]) /\ Uncharged(req'[r], gate[r]) /\ req'[r].pc = "upstream"
        /\ req'[r].shape.kind = "lifecycle"
    BY <1>2, <1>3, <1>5, <2>1, Carried, Zenon DEF Rests, Shape
  <2>3. Forwarded(req'[r], log'[r], gate[r], bill[r], call[r])
    BY <1>3, <2>1, <2>2, Zenon DEF Forwarded, Through
  <2>4. Place(req'[r], log'[r], gate[r], bill[r], call[r])
    BY <2>2, <2>3, Zenon DEF Place
  <2> QED
    BY <1>1, <2>1, <2>4, RestMoves, Zenon
<1>6. CASE Goto(r, "gated")
  <2>1. Rests(r, "gated") /\ log'[r] = log[r]
    BY <1>1, <1>6, Going, Zenon DEF PCs
  <2>2. /\ Parsed(req'[r]) /\ req'[r].pc = "gated"
        /\ Fresh(req'[r], log'[r], gate[r], bill[r], call[r])
    BY <1>2, <2>1, Carried, Zenon DEF Rests, Fresh
  <2>3. Place(req'[r], log'[r], gate[r], bill[r], call[r])
    BY <2>2, Zenon DEF Place
  <2> QED
    BY <1>1, <2>1, <2>3, RestMoves, Zenon
<1> QED
  BY <1>4, <1>5, <1>6, Zenon DEF AutoBlock

LEMMA PeekJobMoves ==
  ASSUME Typed, NEW r \in Calls, Here(r), PeekJob(r)
  PROVE  Moves(r)
<1>1. req[r].pc = "gated" /\ Types /\ Goto(r, "peeked")
  BY Zenon DEF PeekJob, At, Typed
<1>2. Fresh(req[r], log[r], gate[r], bill[r], call[r]) /\ Parsed(req[r])
  BY <1>1, Zenon DEF Here, Place
<1>3. Rests(r, "peeked") /\ log'[r] = log[r]
  BY <1>1, Going, Zenon DEF PCs
<1>4. bill' = bill /\ call' = call
  BY Zenon DEF PeekJob, approvalVars, costVars
<1>5. Still(gate, r) /\ JobPeeked(req[r], gate'[r])
  BY <1>2 DEF PeekJob, JobIsOverBudget, Typed, JobTypeOK, Still, jobVars, Shape, Fresh, JobPeeked
<1>6. Parsed(req'[r]) /\ JobPeeked(req'[r], gate'[r]) /\ req'[r].pc = "peeked" /\ req'[r].notes = {}
  BY <1>2, <1>3, <1>5, Carried, Zenon DEF Rests, Fresh
<1>7. Deciding(req'[r], log'[r], gate'[r], bill'[r], call'[r])
  BY <1>2, <1>3, <1>4, <1>6, Zenon DEF Fresh, Deciding
<1>8. Here(r)'
  BY <1>6, <1>7, Zenon DEF Here, Place
<1> QED
  BY <1>3, <1>4, <1>5, <1>8, Zenon DEF Rests, Moves, Still

LEMMA CarriedTurning ==
  ASSUME NEW r, NEW pc, NEW outcome, Turns(r, pc, outcome), NEW g, NEW b
  PROVE  /\ Parsed(req'[r]) <=> Parsed(req[r])
         /\ JobPeeked(req'[r], g) <=> JobPeeked(req[r], g)
         /\ CostPeeked(req'[r], b) <=> CostPeeked(req[r], b)
BY Zenon DEF Turns, Parsed, JobPeeked, CostPeeked

LEMMA CarriedNoting ==
  ASSUME NEW r, NEW pc, NEW notes, Annotates(r, pc, notes), NEW g, NEW b, NEW a
  PROVE  /\ Parsed(req'[r]) <=> Parsed(req[r])
         /\ Allowed(req'[r], a) <=> Allowed(req[r], a)
         /\ JobPeeked(req'[r], g) <=> JobPeeked(req[r], g)
         /\ CostPeeked(req'[r], b) <=> CostPeeked(req[r], b)
         /\ "jobOpen" \notin notes /\ JobHeeded(req[r], g) => JobHeeded(req'[r], g)
<1>1. /\ Parsed(req'[r]) <=> Parsed(req[r])
      /\ Allowed(req'[r], a) <=> Allowed(req[r], a)
      /\ JobPeeked(req'[r], g) <=> JobPeeked(req[r], g)
      /\ CostPeeked(req'[r], b) <=> CostPeeked(req[r], b)
  BY Zenon DEF Annotates, Parsed, Allowed, JobPeeked, CostPeeked
<1>2. "jobOpen" \notin notes /\ JobHeeded(req[r], g) => JobHeeded(req'[r], g)
  BY Zenon DEF Annotates, JobHeeded
<1> QED
  BY <1>1, <1>2, Zenon

LEMMA DecideMoves ==
  ASSUME Typed, NEW r \in Calls, Here(r), Decide(r)
  PROVE  Moves(r)
<1> DEFINE deny == [decision |-> "deny", reason |-> {}]
           denied(outcome) == outcome = "deny" \/ (outcome = "needs_approval" /\ ~CanAsk(r))
           goesTo(outcome) == CASE denied(outcome) -> "done"
                                [] outcome = "allow" -> AfterPolicy(r)
                                [] OTHER -> "asking"
<1>1. req[r].pc = "peeked" /\ Types /\ gate' = gate
  BY Zenon DEF Decide, At, Typed, jobVars
<1>2. Deciding(req[r], log[r], gate[r], bill[r], call[r])
  BY <1>1, Zenon DEF Here, Place
<1>3. PICK outcome \in Outcomes \ {"none"} :
        /\ req' = [req EXCEPT ![r] = On(@, goesTo(outcome), outcome, @.notes)]
        /\ log' = IF denied(outcome) THEN [log EXCEPT ![r] = Append(@, deny)] ELSE log
        /\ IF goesTo(outcome) = "asking" THEN OnNeedsApproval(r, Shape(r).key)
                                         ELSE UNCHANGED approvalVars
  BY Zenon DEF Decide
<1>4. goesTo(outcome) \in PCs
  BY Zenon DEF PCs, AfterPolicy
<1>5. Turns(r, goesTo(outcome), outcome)
  <2> HIDE DEF goesTo
  <2> QED
    BY <1>1, <1>3, <1>4, Turning, Zenon
<1>6. Still(bill, r) /\ CostPeeked(req[r], bill'[r])
  BY DEF Decide, CostIsOverBudget, Typed, CostTypeOK, Still, costVars, Shape, CostPeeked
<1>7. /\ Parsed(req'[r]) /\ JobPeeked(req'[r], gate'[r]) /\ CostPeeked(req'[r], bill'[r])
      /\ req'[r].notes = {} /\ req'[r].outcome = outcome /\ req'[r].shape = req[r].shape
      /\ Still(req, r) /\ Still(gate, r)
  BY <1>1, <1>2, <1>5, <1>6, CarriedTurning, Zenon DEF Deciding, Turns, Still
<1>8. CASE denied(outcome)
  <2>1. deny \in Entries /\ deny.decision = "deny"
    BY Zenon DEF Entries, Decisions
  <2>2. log' = [log EXCEPT ![r] = Append(@, deny)] /\ call' = call /\ req'[r].pc = "done"
    BY <1>3, <1>5, <1>8, Zenon DEF approvalVars, Turns
  <2> HIDE DEF deny
  <2>3. /\ log' \in [Calls -> Seq(Entries)] /\ Still(log, r)
        /\ Len(log'[r]) = 1 /\ log'[r][1].decision = "deny"
    BY <1>1, <1>2, <2>1, <2>2, Logging, Zenon DEF Deciding
  <2>4. Ending(req'[r], "deny", gate'[r], bill'[r], call'[r])
    BY <1>7, Zenon DEF Ending, Uncharged, JobPeeked
  <2>5. Here(r)'
    BY <1>7, <2>2, <2>3, <2>4, Zenon DEF Here, Place, Over
  <2> QED
    BY <1>5, <1>6, <1>7, <2>2, <2>3, <2>5, Zenon DEF Moves, Turns, Types, Still
<1>9. CASE outcome = "allow"
  <2>1. log' = log /\ call' = call /\ req'[r].pc = AfterPolicy(r)
    BY <1>3, <1>5, <1>9, Zenon DEF approvalVars, Turns, AfterPolicy
  <2>2. Allowed(req'[r], call'[r]) /\ Len(log'[r]) = 0
    BY <1>2, <1>7, <1>9, <2>1, Zenon DEF Allowed, Deciding
  <2>3. ASSUME Shape(r).kind \in {"tool", "rpc"} PROVE Here(r)'
    <3>1. req'[r].pc = "budget"
      BY <2>1, <2>3, Zenon DEF AfterPolicy
    <3>2. Budgeted(req'[r], log'[r], gate'[r], bill'[r], call'[r])
      BY <1>7, <2>2, <2>3, <3>1, Zenon DEF Budgeted, Shape
    <3> QED
      BY <3>1, <3>2, Zenon DEF Here, Place
  <2>4. ASSUME Shape(r).kind \notin {"tool", "rpc"} PROVE Here(r)'
    <3>1. req'[r].pc = "upstream"
      BY <2>1, <2>4, Zenon DEF AfterPolicy
    <3>2. Forwarded(req'[r], log'[r], gate'[r], bill'[r], call'[r])
      BY <1>7, <2>2, <2>4, <3>1, Zenon DEF Forwarded, Through, Shape, Uncharged, JobPeeked
    <3> QED
      BY <3>1, <3>2, Zenon DEF Here, Place
  <2> QED
    BY <1>1, <1>5, <1>6, <1>7, <2>1, <2>3, <2>4, Zenon DEF Moves, Turns, Types, Still
<1>10. CASE outcome = "needs_approval" /\ CanAsk(r)
  <2>1. log' = log /\ OnNeedsApproval(r, Shape(r).key) /\ req'[r].pc = "asking"
    BY <1>3, <1>5, <1>10, Zenon DEF Turns
  <2>2. Still(call, r) /\ call'[r].pc = "asking" /\ call'[r].key = req[r].shape.key
    BY <2>1, Zenon DEF OnNeedsApproval, Ask, Typed, ApprovalTypeOK, Still, Shape
  <2>3. Asking(req'[r], log'[r], gate'[r], bill'[r], call'[r])
    BY <1>2, <1>7, <1>10, <2>1, <2>2, Zenon DEF CanAsk, Asking, Shape, Deciding
  <2>4. Here(r)'
    BY <2>1, <2>3, Zenon DEF Here, Place
  <2> QED
    BY <1>1, <1>5, <1>6, <1>7, <2>1, <2>2, <2>4, Zenon DEF Moves, Turns, Types, Still
<1> QED
  BY <1>8, <1>9, <1>10, Zenon DEF Outcomes

LEMMA TakeGrantMoves ==
  ASSUME Typed, NEW r \in Calls, Here(r), TakeGrant(r)
  PROVE  Moves(r)
<1>1. req[r].pc = "asking" /\ Types /\ ConsumeGrant(r) /\ gate' = gate /\ bill' = bill
  BY Zenon DEF TakeGrant, At, Typed, jobVars, costVars
<1>2. Asking(req[r], log[r], gate[r], bill[r], call[r])
  BY <1>1, Zenon DEF Here, Place
<1>3. /\ call'[r].pc \in {"admitted", "missed"} /\ call'[r].key = call[r].key
      /\ Still(call, r) /\ Still(gate, r) /\ Still(bill, r)
  BY <1>1 DEF ConsumeGrant, Admit, Ask, Typed, ApprovalTypeOK, Still
<1>4. CASE call'[r].pc = "admitted"
  <2>1. Noting(r, AfterPolicy(r), {"grant"}) /\ AfterPolicy(r) \in PCs /\ {"grant"} \in SUBSET Notes
    BY <1>4, Zenon DEF TakeGrant, AfterPolicy, PCs, Notes
  <2>2. Annotates(r, AfterPolicy(r), {"grant"}) /\ log'[r] = log[r]
    BY <1>1, <2>1, Noted, Zenon
  <2>3. /\ req'[r].notes = {"grant"} /\ req'[r].shape = req[r].shape
        /\ req'[r].outcome = "needs_approval" /\ req'[r].pc = AfterPolicy(r)
    BY <1>2, <2>2, Zenon DEF Annotates, Asking
  <2>4. /\ Parsed(req'[r]) /\ JobPeeked(req'[r], gate'[r]) /\ CostPeeked(req'[r], bill'[r])
        /\ Len(log'[r]) = 0 /\ req'[r].shape.kind # "rpc"
    BY <1>1, <1>2, <2>2, <2>3, CarriedNoting, Zenon DEF Asking
  <2>5. Allowed(req'[r], call'[r])
    BY <1>2, <1>3, <1>4, <2>3, Zenon DEF Allowed, Asking
  <2>6. ASSUME Shape(r).kind = "tool" PROVE Here(r)'
    <3>1. req'[r].pc = "budget"
      BY <2>3, <2>6, Zenon DEF AfterPolicy
    <3>2. Budgeted(req'[r], log'[r], gate'[r], bill'[r], call'[r])
      BY <2>3, <2>4, <2>5, <2>6, <3>1, Zenon DEF Budgeted, Shape
    <3> QED
      BY <3>1, <3>2, Zenon DEF Here, Place
  <2>7. ASSUME Shape(r).kind # "tool" PROVE Here(r)'
    <3>1. req'[r].pc = "upstream"
      BY <2>3, <2>4, <2>7, Zenon DEF AfterPolicy, Shape
    <3>2. Forwarded(req'[r], log'[r], gate'[r], bill'[r], call'[r])
      BY <2>3, <2>4, <2>5, <2>7, <3>1, Zenon DEF Forwarded, Through, Shape, Uncharged, JobPeeked
    <3> QED
      BY <3>1, <3>2, Zenon DEF Here, Place
  <2> QED
    BY <1>3, <2>2, <2>6, <2>7, Zenon DEF Moves, Annotates
<1>5. CASE call'[r].pc = "missed"
  <2>1. req' = req /\ log' = log
    BY <1>5, Zenon DEF TakeGrant
  <2>2. Asking(req'[r], log'[r], gate'[r], bill'[r], call'[r])
    BY <1>1, <1>2, <1>3, <1>5, <2>1, Zenon DEF Asking
  <2>3. Here(r)'
    BY <1>1, <2>1, <2>2, Zenon DEF Here, Place
  <2> QED
    BY <1>1, <1>3, <2>1, <2>3, Zenon DEF Moves, Types, Still
<1> QED
  BY <1>3, <1>4, <1>5, Zenon

LEMMA EnqueueMoves ==
  ASSUME Typed, NEW r \in Calls, Here(r), Enqueue(r)
  PROVE  Moves(r)
<1>1. req[r].pc = "asking" /\ Types /\ CreateRequest(r) /\ gate' = gate /\ bill' = bill
  BY Zenon DEF Enqueue, At, Typed, jobVars, costVars
<1>2. Asking(req[r], log[r], gate[r], bill[r], call[r])
  BY <1>1, Zenon DEF Here, Place
<1>3. Still(call, r) /\ Still(gate, r) /\ Still(bill, r)
  BY <1>1, Zenon DEF CreateRequest, Typed, ApprovalTypeOK, Still
<1>4. Parsed(req[r]) /\ Uncharged(req[r], gate'[r]) /\ Len(log[r]) = 0
  BY <1>1, <1>2, Zenon DEF Asking, Uncharged, JobPeeked
<1>5. PICK d \in Withheld : Refuse(r, d)
  BY Zenon DEF Enqueue, Withheld
<1>6. Rests(r, "done") /\ Here(r)'
  BY <1>1, <1>4, <1>5, HeldBack, Zenon
<1> QED
  BY <1>3, <1>6, Zenon DEF Moves, Rests

LEMMA RateLimitMoves ==
  ASSUME Typed, NEW r \in Calls, Here(r), RateLimit(r)
  PROVE  Moves(r)
<1>1. req[r].pc = "budget" /\ Types /\ Untouched(r)
  BY Untouching, Zenon DEF RateLimit, At, Typed
<1>2. Budgeted(req[r], log[r], gate[r], bill[r], call[r])
  BY <1>1, Zenon DEF Here, Place
<1>3. Parsed(req[r]) /\ Uncharged(req[r], gate[r]) /\ Len(log[r]) = 0
  BY <1>2, Zenon DEF Budgeted, Parsed, Uncharged, JobPeeked
<1>4. CASE Refuse(r, "throttled")
  <2>1. Rests(r, "done") /\ Here(r)'
    BY <1>1, <1>3, <1>4, HeldBack, Zenon DEF Withheld, Untouched
  <2> QED
    BY <1>1, <2>1, Zenon DEF Moves, Rests, Untouched
<1>5. CASE Goto(r, "job") /\ Shape(r).kind = "tool"
  <2>1. Rests(r, "job") /\ log'[r] = log[r]
    BY <1>1, <1>5, Going, Zenon DEF PCs
  <2>2. Allowed(req'[r], call[r]) /\ JobPeeked(req'[r], gate[r]) /\ CostPeeked(req'[r], bill[r])
    BY <1>2, <2>1, Carried, Zenon DEF Budgeted
  <2>3. Budgeted(req'[r], log'[r], gate[r], bill[r], call[r]) /\ req'[r].pc = "job"
    BY <1>2, <1>5, <2>1, <2>2, Zenon DEF Budgeted, Rests, Shape
  <2>4. Place(req'[r], log'[r], gate[r], bill[r], call[r])
    BY <2>3, Zenon DEF Place
  <2> QED
    BY <1>1, <2>1, <2>4, RestMoves, Zenon
<1>6. CASE Goto(r, "upstream") /\ Shape(r).kind # "tool"
  <2>1. Rests(r, "upstream") /\ log'[r] = log[r]
    BY <1>1, <1>6, Going, Zenon DEF PCs
  <2>2. Allowed(req'[r], call[r]) /\ Uncharged(req'[r], gate[r]) /\ Parsed(req'[r])
    BY <1>2, <1>3, <2>1, Carried, Zenon DEF Budgeted
  <2>3. Forwarded(req'[r], log'[r], gate[r], bill[r], call[r]) /\ req'[r].pc = "upstream"
    BY <1>3, <1>6, <2>1, <2>2 DEF Forwarded, Through, Rests, Shape
  <2>4. Place(req'[r], log'[r], gate[r], bill[r], call[r])
    BY <2>3, Zenon DEF Place
  <2> QED
    BY <1>1, <2>1, <2>4, RestMoves, Zenon
<1>7. CASE Shape(r).kind = "tool" /\ Noting(r, "job", {"rateOpen"})
  <2>1. Annotates(r, "job", {"rateOpen"}) /\ log'[r] = log[r]
    BY <1>1, <1>7, Noted, Zenon DEF PCs, Notes
  <2>2. Allowed(req'[r], call[r]) /\ JobPeeked(req'[r], gate[r]) /\ CostPeeked(req'[r], bill[r])
    BY <1>2, <2>1, CarriedNoting, Zenon DEF Budgeted
  <2>3. Budgeted(req'[r], log'[r], gate[r], bill[r], call[r]) /\ req'[r].pc = "job"
    BY <1>2, <1>7, <2>1, <2>2, Zenon DEF Budgeted, Annotates, Shape
  <2>4. Here(r)'
    BY <1>1, <2>3, Zenon DEF Here, Place, Untouched
  <2> QED
    BY <1>1, <2>1, <2>4, Zenon DEF Moves, Annotates, Untouched
<1> QED
  BY <1>4, <1>5, <1>6, <1>7, Zenon DEF RateLimit

LEMMA JobGateMoves ==
  ASSUME Typed, NEW r \in Calls, Here(r), JobGate(r)
  PROVE  Moves(r)
<1>1. req[r].pc = "job" /\ Types /\ bill' = bill /\ call' = call
  BY Zenon DEF JobGate, At, Typed, approvalVars, costVars
<1>2. Budgeted(req[r], log[r], gate[r], bill[r], call[r])
  BY <1>1, Zenon DEF Here, Place
<1>3. /\ "cost" \in PCs /\ "done" \in PCs /\ "job_budget_exceeded" \in Decisions
      /\ {"jobOver"} \in SUBSET Notes /\ {"jobOpen"} \in SUBSET Notes /\ {} \in SUBSET Notes
  BY Zenon DEF PCs, Decisions, Notes
<1>4. /\ req[r].shape.kind = "tool" /\ Len(log[r]) = 0 /\ Parsed(req[r])
      /\ Allowed(req[r], call[r]) /\ CostPeeked(req[r], bill[r])
      /\ "jobOpen" \notin req[r].notes /\ "costOpen" \notin req[r].notes
      /\ Still(bill, r) /\ Still(call, r)
  BY <1>1, <1>2, Zenon DEF Budgeted, Parsed, Still
<1>5. /\ Still(gate, r)
      /\ "job" \in Wired => /\ gate'[r].pc \in {"passed", "refused", "failedOpen"}
                            /\ gate'[r].job = req[r].shape.job
                            /\ Heed(r, gate'[r].pc, "job_budget_exceeded", "jobOver", "jobOpen", "cost")
      /\ "job" \notin Wired => Goto(r, "cost")
  <2>1. CASE "job" \in Wired
    <3>1. \E n : \E v \in {"passed", "refused", "failedOpen"} : JobVerdict(r, v, n)
      BY <2>1, Zenon DEF JobGate, JobCheck, JobCheckFailsOpen
    <3>2. gate \in [Calls -> Gates] /\ gate[r].job = req[r].shape.job
      BY <1>2, <2>1, Zenon DEF Typed, JobTypeOK, Budgeted, JobPeeked
    <3>3. /\ gate'[r].pc \in {"passed", "refused", "failedOpen"} /\ gate'[r].job = gate[r].job
          /\ Still(gate, r)
      <4>0. PICK n : \E v \in {"passed", "refused", "failedOpen"} : JobVerdict(r, v, n)
        BY <3>1, Zenon
      <4>1. PICK v \in {"passed", "refused", "failedOpen"} : JobVerdict(r, v, n)
        BY <4>0, Zenon
      <4>2. gate'[r].pc = v /\ gate'[r].job = gate[r].job /\ Still(gate, r)
        BY <3>2, <4>1, Zenon DEF JobVerdict, Still
      <4> QED
        BY <4>2, Zenon
    <3> QED
      BY <2>1, <3>2, <3>3, Zenon DEF JobGate
  <2>2. CASE "job" \notin Wired
    BY <2>2, Zenon DEF JobGate, Still, jobVars
  <2> QED
    BY <2>1, <2>2, Zenon
<1>6. CASE "job" \in Wired /\ Refuse(r, "job_budget_exceeded") /\ gate'[r].pc = "refused"
  <2>1. /\ Rests(r, "done") /\ Len(log'[r]) = 1
        /\ log'[r][1].decision = "job_budget_exceeded"
    BY <1>1, <1>3, <1>4, <1>6, Finished, Zenon DEF Refuse
  <2>2. Parsed(req'[r]) /\ req'[r].pc = "done"
    BY <1>4, <2>1, Carried, Zenon DEF Rests
  <2>3. Ending(req'[r], "job_budget_exceeded", gate'[r], bill'[r], call'[r])
    BY <1>4, <1>5, <1>6, <2>1, Zenon DEF Ending, Withheld, Rests
  <2>4. Here(r)'
    BY <2>1, <2>2, <2>3, Zenon DEF Here, Place, Over
  <2> QED
    BY <1>4, <1>5, <2>1, <2>4, Zenon DEF Moves, Rests
<1>7. ASSUME NEW note \in {"jobOver", "jobOpen"}, Noting(r, "cost", {note}),
             note = "jobOpen" <=> gate'[r].pc = "failedOpen",
             gate'[r].pc = "refused" => ViaGrant(r), "job" \in Wired
      PROVE  Moves(r)
  <2>1. Annotates(r, "cost", {note}) /\ log'[r] = log[r]
    BY <1>1, <1>3, <1>7, Noted, Zenon
  <2>2. Allowed(req'[r], call'[r]) /\ CostPeeked(req'[r], bill'[r])
    BY <1>1, <1>4, <2>1, CarriedNoting, Zenon
  <2>3. /\ req'[r].pc = "cost" /\ req'[r].shape = req[r].shape
        /\ req'[r].notes = req[r].notes \union {note}
    BY <2>1, Zenon DEF Annotates
  <2>4. JobHeeded(req'[r], gate'[r])
    BY <1>4, <1>5, <1>7, <2>3, Zenon DEF JobHeeded, ViaGrant
  <2>5. Costing(req'[r], log'[r], gate'[r], bill'[r], call'[r])
    BY <1>4, <1>7, <2>1, <2>2, <2>3, <2>4, Zenon DEF Costing
  <2>6. Here(r)'
    BY <2>3, <2>5, Zenon DEF Here, Place
  <2> QED
    BY <1>4, <1>5, <2>1, <2>6, Zenon DEF Moves, Annotates
<1>8. ASSUME Goto(r, "cost"), "job" \in Wired => gate'[r].pc = "passed"
      PROVE  Moves(r)
  <2>1. Rests(r, "cost") /\ log'[r] = log[r]
    BY <1>1, <1>3, <1>8, Going, Zenon
  <2>2. Allowed(req'[r], call'[r]) /\ CostPeeked(req'[r], bill'[r])
    BY <1>1, <1>4, <2>1, Carried, Zenon
  <2>3. JobHeeded(req'[r], gate'[r])
    BY <1>4, <1>5, <1>8, <2>1, Zenon DEF JobHeeded, Rests
  <2>4. Costing(req'[r], log'[r], gate'[r], bill'[r], call'[r]) /\ req'[r].pc = "cost"
    BY <1>4, <2>1, <2>2, <2>3, Zenon DEF Costing, Rests
  <2>5. Here(r)'
    BY <2>4, Zenon DEF Here, Place
  <2> QED
    BY <1>4, <1>5, <2>1, <2>5, Zenon DEF Moves, Rests
<1> QED
  BY <1>5, <1>6, <1>7, <1>8, Zenon DEF Heed

LEMMA CostGateMoves ==
  ASSUME Typed, NEW r \in Calls, Here(r), CostGate(r)
  PROVE  Moves(r)
<1>1. req[r].pc = "cost" /\ Types /\ gate' = gate /\ call' = call
  BY Zenon DEF CostGate, At, Typed, approvalVars, jobVars
<1>2. Costing(req[r], log[r], gate[r], bill[r], call[r])
  BY <1>1, Zenon DEF Here, Place
<1>3. /\ "upstream" \in PCs /\ "done" \in PCs /\ "cost_budget_exceeded" \in Decisions
      /\ {"costOver"} \in SUBSET Notes /\ {"costOpen"} \in SUBSET Notes /\ {} \in SUBSET Notes
  BY Zenon DEF PCs, Decisions, Notes
<1>4. /\ req[r].shape.kind = "tool" /\ Len(log[r]) = 0 /\ Parsed(req[r])
      /\ Allowed(req[r], call[r]) /\ JobHeeded(req[r], gate[r]) /\ "costOpen" \notin req[r].notes
      /\ Still(gate, r) /\ Still(call, r)
  BY <1>1, <1>2, Zenon DEF Costing, Parsed, Still
<1>5. /\ Still(bill, r)
      /\ "cost" \in Wired =>
           /\ bill'[r].pc \in {"passed", "refused", "failedOpen"} /\ bill'[r].job = req[r].shape.job
           /\ Heed(r, bill'[r].pc, "cost_budget_exceeded", "costOver", "costOpen", "upstream")
      /\ "cost" \notin Wired => Goto(r, "upstream")
  <2>1. CASE "cost" \in Wired
    <3>1. \E n : \E v \in {"passed", "refused", "failedOpen"} : CostVerdict(r, v, n)
      BY <2>1, Zenon DEF CostGate, CostCheck, CostCheckFailsOpen
    <3>2. bill \in [Calls -> Bills] /\ bill[r].job = req[r].shape.job
      BY <1>2, <2>1, Zenon DEF Typed, CostTypeOK, Costing, CostPeeked
    <3>3. /\ bill'[r].pc \in {"passed", "refused", "failedOpen"} /\ bill'[r].job = bill[r].job
          /\ Still(bill, r)
      <4>0. PICK n : \E v \in {"passed", "refused", "failedOpen"} : CostVerdict(r, v, n)
        BY <3>1, Zenon
      <4>1. PICK v \in {"passed", "refused", "failedOpen"} : CostVerdict(r, v, n)
        BY <4>0, Zenon
      <4>2. bill'[r].pc = v /\ bill'[r].job = bill[r].job /\ Still(bill, r)
        BY <3>2, <4>1, Zenon DEF CostVerdict, Still
      <4> QED
        BY <4>2, Zenon
    <3> QED
      BY <2>1, <3>2, <3>3, Zenon DEF CostGate
  <2>2. CASE "cost" \notin Wired
    BY <2>2, Zenon DEF CostGate, Still, costVars
  <2> QED
    BY <2>1, <2>2, Zenon
<1>6. CASE Refuse(r, "cost_budget_exceeded")
  <2>1. /\ Rests(r, "done") /\ Len(log'[r]) = 1
        /\ log'[r][1].decision = "cost_budget_exceeded"
    BY <1>1, <1>3, <1>4, <1>6, Finished, Zenon DEF Refuse
  <2>2. Parsed(req'[r]) /\ req'[r].pc = "done" /\ JobHeeded(req'[r], gate'[r])
    BY <1>1, <1>4, <2>1, Carried, Zenon DEF Rests
  <2>3. Ending(req'[r], "cost_budget_exceeded", gate'[r], bill'[r], call'[r])
    BY <1>4, <2>1, <2>2, Zenon DEF Ending, Withheld, Rests
  <2>4. Here(r)'
    BY <2>1, <2>2, <2>3, Zenon DEF Here, Place, Over
  <2> QED
    BY <1>4, <1>5, <2>1, <2>4, Zenon DEF Moves, Rests
<1>7. ASSUME NEW note \in {"costOver", "costOpen"}, Noting(r, "upstream", {note}),
             note = "costOpen" <=> bill'[r].pc = "failedOpen",
             bill'[r].pc = "refused" => ViaGrant(r), "cost" \in Wired
      PROVE  Moves(r)
  <2>1. Annotates(r, "upstream", {note}) /\ log'[r] = log[r]
    BY <1>1, <1>3, <1>7, Noted, Zenon
  <2>2. Allowed(req'[r], call'[r]) /\ Parsed(req'[r]) /\ JobHeeded(req'[r], gate'[r])
    <3>1. "jobOpen" \notin {note}
      BY Zenon
    <3> QED
      BY <1>1, <1>4, <2>1, <3>1, CarriedNoting, Zenon
  <2>3. /\ req'[r].pc = "upstream" /\ req'[r].shape = req[r].shape
        /\ req'[r].notes = req[r].notes \union {note}
    BY <2>1, Zenon DEF Annotates
  <2>4. CostHeeded(req'[r], bill'[r])
    BY <1>4, <1>5, <1>7, <2>3, Zenon DEF CostHeeded, ViaGrant
  <2>5. Forwarded(req'[r], log'[r], gate'[r], bill'[r], call'[r])
    BY <1>4, <2>1, <2>2, <2>3, <2>4, Zenon DEF Forwarded, Through
  <2>6. Here(r)'
    BY <2>3, <2>5, Zenon DEF Here, Place
  <2> QED
    BY <1>4, <1>5, <2>1, <2>6, Zenon DEF Moves, Annotates
<1>8. ASSUME Goto(r, "upstream"), "cost" \in Wired => bill'[r].pc = "passed"
      PROVE  Moves(r)
  <2>1. Rests(r, "upstream") /\ log'[r] = log[r]
    BY <1>1, <1>3, <1>8, Going, Zenon
  <2>2. Allowed(req'[r], call'[r]) /\ Parsed(req'[r]) /\ JobHeeded(req'[r], gate'[r])
    BY <1>1, <1>4, <2>1, Carried, Zenon
  <2>3. CostHeeded(req'[r], bill'[r])
    BY <1>4, <1>5, <1>8, <2>1, Zenon DEF CostHeeded, Rests
  <2>4. Forwarded(req'[r], log'[r], gate'[r], bill'[r], call'[r]) /\ req'[r].pc = "upstream"
    BY <1>4, <2>1, <2>2, <2>3, Zenon DEF Forwarded, Through, Rests
  <2>5. Here(r)'
    BY <2>4, Zenon DEF Here, Place
  <2> QED
    BY <1>4, <1>5, <2>1, <2>5, Zenon DEF Moves, Rests
<1> QED
  BY <1>5, <1>6, <1>7, <1>8, Zenon DEF Heed

LEMMA RespondMoves ==
  ASSUME Typed, NEW r \in Calls, Here(r), Respond(r)
  PROVE  Moves(r)
<1>1. req[r].pc = "upstream" /\ Types /\ req[r].shape.kind # "rpc" /\ Untouched(r)
  BY Untouching, Zenon DEF Respond, At, Shape, Typed
<1>2. Forwarded(req[r], log[r], gate[r], bill[r], call[r])
  BY <1>1, Zenon DEF Here, Place
<1>3. /\ Parsed(req[r]) /\ Through(req[r], gate[r], bill[r], call[r]) /\ Len(log[r]) = 0
      /\ req[r].notes \in SUBSET Notes
  BY <1>1, <1>2, Zenon DEF Forwarded, Types
<1> DEFINE d == IF req[r].shape.kind = "lifecycle" THEN "passthrough" ELSE "allow"
<1>4. d \in {"allow", "passthrough", "error"} /\ d \in Decisions /\ "switching" \in PCs
  BY Zenon DEF Decisions, PCs
<1>5. CASE Finish(r, d, req[r].notes, "done")
  <2> HIDE DEF d
  <2> QED
    BY <1>1, <1>3, <1>4, <1>5, Answered, Zenon
<1>6. CASE Upgrades /\ Finish(r, d, req[r].notes, "switching")
  <2>1. Rests(r, "switching") /\ Len(log'[r]) = 1 /\ log'[r][1].decision = d
    <3> HIDE DEF d
    <3> QED
      BY <1>1, <1>3, <1>4, <1>6, Finished, Zenon
  <2>2. Parsed(req'[r]) /\ Through(req'[r], gate[r], bill[r], call[r])
    BY <1>3, <2>1, Carried, Zenon
  <2>3. Switching(req'[r], log'[r], gate[r], bill[r], call[r]) /\ req'[r].pc = "switching"
    BY <1>1, <1>6, <2>1, <2>2, Zenon DEF Switching, Rests
  <2>4. Place(req'[r], log'[r], gate[r], bill[r], call[r])
    BY <2>1, <2>3, Zenon DEF Place
  <2> QED
    BY <1>1, <2>1, <2>4, RestMoves, Zenon
<1> QED
  BY <1>5, <1>6, Zenon DEF Respond, SuccessDecision, Shape

LEMMA UpstreamErrorMoves ==
  ASSUME Typed, NEW r \in Calls, Here(r), UpstreamError(r)
  PROVE  Moves(r)
<1>1. /\ req[r].pc \in {"upstream", "switching"} /\ Types /\ Finish(r, "error", {}, "done")
      /\ Untouched(r)
  BY Untouching, Zenon DEF UpstreamError, At, Typed
<1>2. "error" \in Decisions /\ "done" \in PCs /\ {} \in SUBSET Notes
  BY Zenon DEF Decisions, PCs
<1>3. CASE req[r].pc = "upstream"
  <2>1. Forwarded(req[r], log[r], gate[r], bill[r], call[r])
    BY <1>3, Zenon DEF Here, Place
  <2> QED
    BY <1>1, <1>2, <2>1, Answered, Zenon DEF Forwarded
<1>4. CASE req[r].pc = "switching"
  <2>1. Switching(req[r], log[r], gate[r], bill[r], call[r]) /\ Len(log[r]) = 1
    BY <1>4, Zenon DEF Here, Place
  <2>2. /\ Rests(r, "done") /\ Len(log'[r]) = 2 /\ log'[r][1] = log[r][1]
        /\ log'[r][2].decision = "error"
    BY <1>1, <1>2, <2>1, Finished, Zenon
  <2>3. Parsed(req'[r]) /\ Through(req'[r], gate[r], bill[r], call[r])
    BY <2>1, <2>2, Carried, Zenon DEF Switching
  <2>4. Switching(req'[r], log'[r], gate[r], bill[r], call[r]) /\ req'[r].pc = "done"
    BY <2>1, <2>2, <2>3, Zenon DEF Switching, Rests
  <2>5. Place(req'[r], log'[r], gate[r], bill[r], call[r])
    BY <2>2, <2>4, Zenon DEF Place, Over
  <2> QED
    BY <1>1, <2>2, <2>5, RestMoves, Zenon
<1> QED
  BY <1>1, <1>3, <1>4, Zenon

LEMMA SwitchedMoves ==
  ASSUME Typed, NEW r \in Calls, Here(r), Switched(r)
  PROVE  Moves(r)
<1>1. req[r].pc = "switching" /\ Types /\ Goto(r, "done") /\ Untouched(r)
  BY Untouching, Zenon DEF Switched, At, Typed
<1>2. Switching(req[r], log[r], gate[r], bill[r], call[r]) /\ Len(log[r]) = 1
  BY <1>1, Zenon DEF Here, Place
<1>3. Rests(r, "done") /\ log'[r] = log[r]
  BY <1>1, Going, Zenon DEF PCs
<1>4. Parsed(req'[r]) /\ Through(req'[r], gate[r], bill[r], call[r]) /\ req'[r].pc = "done"
  BY <1>2, <1>3, Carried, Zenon DEF Switching, Rests
<1>5. Ending(req'[r], log'[r][1].decision, gate[r], bill[r], call[r])
  BY <1>2, <1>3, <1>4, Zenon DEF Ending, Switching, Withheld
<1>6. Place(req'[r], log'[r], gate[r], bill[r], call[r])
  BY <1>2, <1>3, <1>4, <1>5, Zenon DEF Place, Over
<1> QED
  BY <1>1, <1>3, <1>6, RestMoves, Zenon

(* The streams of the gRPC transport.                                      *)
LEMMA StreamMoves ==
  ASSUME Typed, NEW r \in Calls, Here(r), Shape(r).kind = "rpc",
         OpenStream(r) \/ CallerEnds(r) \/ UpstreamEnds(r)
  PROVE  Moves(r)
<1>1. req[r].pc \in {"upstream", "relaying", "halfClosed"} /\ Types /\ Untouched(r)
  BY Untouching, Zenon DEF OpenStream, CallerEnds, UpstreamEnds, At, Typed
<1>2. Forwarded(req[r], log[r], gate[r], bill[r], call[r])
  BY <1>1, Zenon DEF Here, Place
<1>3. Parsed(req[r]) /\ Through(req[r], gate[r], bill[r], call[r]) /\ Len(log[r]) = 0
  BY <1>2, Zenon DEF Forwarded
<1>4. ASSUME NEW d \in {"allow", "error"}, Finish(r, d, {}, "done") PROVE Moves(r)
  <2>1. d \in {"allow", "passthrough", "error"} /\ {} \in SUBSET Notes
    BY Zenon
  <2> QED
    BY <1>1, <1>3, <1>4, <2>1, Answered, Zenon
<1>5. ASSUME NEW pc \in {"relaying", "halfClosed"}, Goto(r, pc) PROVE Moves(r)
  <2>1. Rests(r, pc) /\ log'[r] = log[r]
    BY <1>1, <1>5, Going, Zenon DEF PCs
  <2>2. Parsed(req'[r]) /\ Through(req'[r], gate[r], bill[r], call[r])
    BY <1>3, <2>1, Carried, Zenon
  <2>3. Forwarded(req'[r], log'[r], gate[r], bill[r], call[r]) /\ req'[r].pc = pc
    BY <1>3, <2>1, <2>2, Zenon DEF Forwarded, Rests, Shape
  <2>4. Place(req'[r], log'[r], gate[r], bill[r], call[r])
    BY <2>3, Zenon DEF Place
  <2> QED
    BY <1>1, <2>1, <2>4, RestMoves, Zenon
<1> QED
  BY <1>4, <1>5, Zenon DEF OpenStream, CallerEnds, UpstreamEnds

LEMMA RequestMoves ==
  ASSUME Typed, NEW r \in Calls, Here(r), ServeHTTP(r) \/ Handler(r)
  PROVE  Moves(r)
BY ReceiveMoves, AutoBlockMoves, PeekJobMoves, DecideMoves, TakeGrantMoves, EnqueueMoves,
   RateLimitMoves, JobGateMoves, CostGateMoves, RespondMoves, UpstreamErrorMoves,
   SwitchedMoves, StreamMoves, Zenon
   DEF ServeHTTP, Handler

-----------------------------------------------------------------------------
(* Every step of the pipeline is, for each component, one of its steps or  *)
(* none at all.                                                            *)
Components == [ApprovalNext]_approvalVars /\ [JobNext]_jobVars /\ [CostNext]_costVars

LEMMA RequestComponents ==
  ASSUME Types, NEW r \in Calls, ServeHTTP(r) \/ Handler(r)
  PROVE  Components
<1>1. req[r].shape.job \in Jobs /\ req[r].shape.key \in Keys /\ req[r].shape.tool \in Tools
  <2>1. req[r].shape \in Shapes
    BY Zenon DEF Types
  <2> QED
    BY <2>1, ProxyAssumption, Zenon
<1>2. CASE UNCHANGED <<approvalVars, jobVars, costVars>>
  BY <1>2, Zenon DEF Components
<1>3. CASE PeekJob(r)
  BY <1>1, <1>3, Zenon DEF PeekJob, Components, JobNext, Shape
<1>4. CASE Decide(r)
  <2>1. [ApprovalNext]_approvalVars
    BY <1>1, <1>4, Zenon DEF Decide, ApprovalNext, CallStep, Shape
  <2>2. [JobNext]_jobVars /\ [CostNext]_costVars
    BY <1>1, <1>4, Zenon DEF Decide, CostNext, Shape
  <2> QED
    BY <2>1, <2>2, Zenon DEF Components
<1>5. CASE TakeGrant(r) \/ Enqueue(r)
  BY <1>5, Zenon DEF TakeGrant, Enqueue, Components, ApprovalNext, CallStep
<1>6. CASE JobGate(r)
  BY <1>6, Zenon DEF JobGate, Components, JobNext
<1>7. CASE CostGate(r)
  BY <1>7, Zenon DEF CostGate, Components, CostNext
<1> QED
  BY <1>2, <1>3, <1>4, <1>5, <1>6, <1>7, Zenon
     DEF ServeHTTP, Handler, Receive, AutoBlock, RateLimit, Respond, UpstreamError, Switched,
         OpenStream, CallerEnds, UpstreamEnds

LEMMA ComponentSteps == Types /\ [Next]_vars => Components
<1> SUFFICES ASSUME Types, [Next]_vars PROVE Components
  OBVIOUS
<1>1. CASE TimePasses
  BY <1>1, Zenon DEF TimePasses, Components, ApprovalNext
<1>2. ASSUME NEW o \in Operators, Operate(o) PROVE Components
  BY <1>2, Zenon DEF Operate, Components, ApprovalNext
<1>3. CASE UNCHANGED vars
  BY <1>3, Zenon DEF vars, Components
<1> QED
  BY <1>1, <1>2, <1>3, RequestComponents, Zenon DEF Next

(* The inductive invariant: the components' own, the meter's count, and    *)
(* every request in its place.                                             *)
ProxyInv == ApprovalInv /\ JobInv /\ CostInv /\ MeterCounts /\ Types /\ Placed

LEMMA ProxyInvInit == Init => ProxyInv
<1> SUFFICES ASSUME Init PROVE ProxyInv
  OBVIOUS
<1>1. ApprovalInv
  BY ApprovalInitInv, Zenon DEF Init
<1>2. JobInv /\ CostInv /\ MeterCounts
  BY JobInitInv, CostInitInv, JobInitCounts, Zenon DEF Init
<1>3. Types
  BY ProxyAssumption DEF Init, Types, NotArrived, PCs, Outcomes
<1>4. ASSUME NEW r \in Calls PROVE Here(r)
  <2>1. /\ req[r].pc = "idle" /\ req[r].notes = {} /\ log[r] = <<>>
        /\ gate[r].pc = "idle" /\ bill[r].pc = "idle" /\ call[r].pc = "idle"
    BY Zenon DEF Init, NotArrived, ApprovalInit, JobInit, CostInit, Ungated, Unbilled, Ended, Ask
  <2> QED
    BY <2>1, Zenon DEF Here, Place, Fresh
<1> QED
  BY <1>1, <1>2, <1>3, <1>4, Zenon DEF ProxyInv, Placed

LEMMA ProxyInvStep == ProxyInv /\ [Next]_vars => ProxyInv'
<1> SUFFICES ASSUME ProxyInv, [Next]_vars PROVE ProxyInv'
  OBVIOUS
<1>1. Typed
  BY Zenon DEF ProxyInv, ApprovalInv, JobInv, CostInv, Typed
<1>2. Components
  BY ComponentSteps, Zenon DEF ProxyInv
<1>3. ApprovalInv' /\ JobInv' /\ CostInv' /\ MeterCounts'
  BY <1>1, <1>2, ApprovalInvStep, JobInvStep, CostInvStep, JobCountsStep, Zenon DEF ProxyInv, Components, Typed
<1>4. CASE UNCHANGED <<req, log, gate, bill, call>>
  BY <1>3, <1>4, Zenon DEF ProxyInv, Types, Placed, Here
<1>5. ASSUME NEW r \in Calls, ServeHTTP(r) \/ Handler(r) PROVE Types' /\ Placed'
  <2>1. Here(r)
    BY Zenon DEF ProxyInv, Placed
  <2>2. Moves(r)
    BY <1>1, <1>5, <2>1, RequestMoves, Zenon
  <2>3. ASSUME NEW d \in Calls \ {r} PROVE Here(d)'
    BY <2>2, Zenon DEF ProxyInv, Placed, Here, Moves, Still
  <2> QED
    BY <2>2, <2>3, Zenon DEF Moves, Placed
<1>6. CASE TimePasses
  BY <1>4, <1>6, Zenon DEF TimePasses, Tick, jobVars, costVars
<1>7. ASSUME NEW o \in Operators, Operate(o) PROVE UNCHANGED <<req, log, gate, bill, call>>
  BY <1>7, Zenon DEF Operate, OperatorStep, OpenDecision, DecideRequest, PutGrant, jobVars, costVars
<1>8. CASE UNCHANGED vars
  BY <1>4, <1>8, Zenon DEF vars, approvalVars, jobVars, costVars
<1> QED
  BY <1>3, <1>4, <1>5, <1>6, <1>7, <1>8, Zenon DEF Next, ProxyInv

LEMMA ProxyInvHolds == Spec => []ProxyInv
BY ProxyInvInit, ProxyInvStep, PTL DEF Spec

(* A request that was sent upstream is through all gates.                  *)
LEMMA SentIsThrough ==
  ASSUME Types, NEW r \in Calls, Here(r), Sent(r)
  PROVE  Through(req[r], gate[r], bill[r], call[r])
<1>1. CASE req[r].pc \in {"upstream", "switching", "relaying", "halfClosed"}
  BY <1>1, Zenon DEF Here, Place, Forwarded, Switching
<1>2. CASE /\ req[r].pc \notin {"upstream", "switching", "relaying", "halfClosed"}
           /\ Shape(r).kind # "malformed" /\ Logged(r, {"allow", "passthrough", "error"})
  <2>1. PICK i \in DOMAIN log[r] : log[r][i].decision \in {"allow", "passthrough", "error"}
    BY <1>2, Zenon DEF Logged
  <2>2. Len(log[r]) \in Nat /\ i \in 1..Len(log[r])
    BY <2>1 DEF Types
  <2>3. req[r].pc = "done" /\ Over(req[r], log[r], gate[r], bill[r], call[r])
    <3>1. Len(log[r]) # 0
      BY <2>2
    <3>2. req[r].pc \in PCs
      BY Zenon DEF Types
    <3> QED
      BY <1>2, <3>1, <3>2, Zenon
         DEF PCs, Here, Place, Fresh, Deciding, Asking, Budgeted, Costing, Forwarded
  <2>4. CASE Len(log[r]) = 1
    <3>1. log[r][1].decision \in {"allow", "passthrough", "error"}
      BY <2>1, <2>2, <2>4
    <3>2. Len(log[r]) # 0 /\ Len(log[r]) # 2
      BY <2>4
    <3>3. Ending(req[r], log[r][1].decision, gate[r], bill[r], call[r])
      BY <1>2, <2>3, <3>2, Zenon DEF Over, Shape
    <3> QED
      BY <3>1, <3>3, Zenon DEF Ending
  <2>5. CASE Len(log[r]) # 1
    <3>1. Len(log[r]) # 0
      BY <2>2
    <3> QED
      BY <1>2, <2>3, <2>5, <3>1, Zenon DEF Over, Switching, Shape
  <2> QED
    BY <2>4, <2>5, Zenon
<1> QED
  BY <1>1, <1>2, Zenon DEF Sent, At

(* The pipeline fails closed, for any number of requests, operators and    *)
(* grants and any interleaving of them: what is sent upstream was allowed  *)
(* by policy or approved by an operator for this request's key.            *)
THEOREM OnlyDecidedSent == Spec => []SentWasDecided
<1>1. ProxyInv => SentWasDecided
  <2> SUFFICES ASSUME ProxyInv, NEW r \in Calls, Sent(r), Shape(r).kind # "lifecycle",
                      req[r].outcome # "allow"
               PROVE  /\ req[r].outcome = "needs_approval" /\ call[r].pc = "admitted"
                      /\ status[call[r].via] = "approved" /\ keyOf[call[r].via] = Shape(r).key
    BY Zenon DEF SentWasDecided
  <2>1. Through(req[r], gate[r], bill[r], call[r])
    BY SentIsThrough, Zenon DEF ProxyInv, Placed
  <2>2. /\ req[r].outcome = "needs_approval" /\ call[r].pc = "admitted"
        /\ call[r].key = req[r].shape.key
    BY <2>1, Zenon DEF Through, Allowed, Shape
  <2>3. AdmittedByApproval
    BY Zenon DEF ProxyInv, ApprovalInv
  <2> QED
    BY <2>2, <2>3, Zenon DEF AdmittedByApproval, Admitted, Shape
<1> QED
  BY <1>1, ProxyInvHolds, PTL

(* A finished request has exactly one audit entry, none if its caller did  *)
(* not authenticate; two only if its switch of protocols failed.           *)
THEOREM EntriesAccounted == Spec => []ExtraEntryIsFailedSwitch
<1>1. ProxyInv => ExtraEntryIsFailedSwitch
  <2> SUFFICES ASSUME ProxyInv, NEW r \in Calls, req[r].pc = "done"
               PROVE  \/ Len(log[r]) = IF Shape(r).kind = "unauthenticated" THEN 0 ELSE 1
                      \/ /\ Upgrades /\ Shape(r).kind # "rpc" /\ Len(log[r]) = 2
                         /\ log[r][1].decision = SuccessDecision(r)
                         /\ log[r][2].decision = "error"
    BY Zenon DEF ExtraEntryIsFailedSwitch, At
  <2>1. Over(req[r], log[r], gate[r], bill[r], call[r])
    BY Zenon DEF ProxyInv, Placed, Here, Place
  <2> QED
    BY <2>1, Zenon DEF Over, Switching, Parsed, Shape, SuccessDecision
<1> QED
  BY <1>1, ProxyInvHolds, PTL

(* Behind the pipeline, each component behaves as its own specification    *)
(* says.                                                                   *)
THEOREM ComponentsHold == Spec => ComponentsImplemented
<1>1. Init => ApprovalInit /\ JobInit /\ CostInit
  BY Zenon DEF Init
<1>2. ProxyInv /\ [Next]_vars => Components
  BY ComponentSteps, Zenon DEF ProxyInv
<1> QED
  BY <1>1, <1>2, ProxyInvHolds, PTL
     DEF Spec, Components, ComponentsImplemented, ApprovalSpec, JobSpec, CostSpec

(* What the components promise, they promise behind the pipeline: an       *)
(* approval admits one request, and a job passes its ceilings no further   *)
(* than they allow, whatever the other gates do to its calls.              *)
THEOREM PromisesKept == Spec => [](OneApprovalOneCall /\ JobCeiling /\ CostCeiling)
BY ComponentsHold, SingleUse, JobCeilingHolds, CostCeilingHolds, PTL DEF ComponentsImplemented

-----------------------------------------------------------------------------
(* The meter and the log agree on which tool calls were counted.           *)
InLog(r) == At(r, "cost") \/ Sent(r) \/ Logged(r, {"job_budget_exceeded", "cost_budget_exceeded"})
InMeter(r) == gate[r].pc \in {"passed", "refused", "failedOpen"}

LEMMA Refused ==
  ASSUME Types, NEW r \in Calls, Here(r), Logged(r, {"job_budget_exceeded", "cost_budget_exceeded"}),
         IsTool(r)
  PROVE  \E d \in {"job_budget_exceeded", "cost_budget_exceeded"} :
           Ending(req[r], d, gate[r], bill[r], call[r])
<1>1. PICK i \in DOMAIN log[r] :
        log[r][i].decision \in {"job_budget_exceeded", "cost_budget_exceeded"}
  BY Zenon DEF Logged
<1>2. Len(log[r]) \in Nat /\ i \in 1..Len(log[r]) /\ req[r].pc \in PCs
  BY <1>1 DEF Types
<1>3. Len(log[r]) # 0
  BY <1>2
<1>4. CASE req[r].pc = "switching"
  <2>1. Switching(req[r], log[r], gate[r], bill[r], call[r]) /\ Len(log[r]) = 1
    BY <1>4, Zenon DEF Here, Place
  <2>2. i = 1
    BY <1>2, <2>1
  <2> QED
    BY <1>1, <2>1, <2>2, Zenon DEF Switching
<1>5. CASE req[r].pc = "done"
  <2>1. Over(req[r], log[r], gate[r], bill[r], call[r]) /\ Parsed(req[r])
    BY <1>5, Zenon DEF Here, Place, IsTool, Shape, Parsed
  <2>2. CASE Len(log[r]) = 1
    <3>1. i = 1
      BY <1>2, <2>2
    <3> QED
      BY <1>1, <2>1, <2>2, <3>1, Zenon DEF Over
  <2>3. CASE Len(log[r]) # 1
    <3>1. Len(log[r]) = 2 /\ log[r][2].decision = "error"
          /\ Switching(req[r], log[r], gate[r], bill[r], call[r])
      BY <2>1, <2>3, Zenon DEF Over
    <3>2. i = 1 \/ i = 2
      BY <1>2, <3>1
    <3> QED
      BY <1>1, <3>1, <3>2, Zenon DEF Switching
  <2> QED
    BY <2>2, <2>3, Zenon
<1> QED
  BY <1>2, <1>3, <1>4, <1>5, Zenon
     DEF PCs, Here, Place, Fresh, Deciding, Asking, Budgeted, Costing, Forwarded

LEMMA LoggedIsMetered ==
  ASSUME Types, "job" \in Wired, NEW r \in Calls, Here(r), IsTool(r), InLog(r)
  PROVE  /\ InMeter(r) /\ gate[r].job = Shape(r).job
         /\ gate[r].pc = "failedOpen" <=> "jobOpen" \in req[r].notes
<1>1. CASE JobHeeded(req[r], gate[r])
  BY <1>1, Zenon DEF JobHeeded, InMeter, Shape
<1>2. CASE At(r, "cost")
  BY <1>1, <1>2, Zenon DEF Here, Place, Costing, At
<1>3. CASE Sent(r)
  BY <1>1, <1>3, SentIsThrough, Zenon DEF Through, IsTool, Shape
<1>4. CASE Logged(r, {"job_budget_exceeded", "cost_budget_exceeded"})
  BY <1>1, <1>4, Refused, Zenon DEF Ending, InMeter, Shape
<1> QED
  BY <1>2, <1>3, <1>4, Zenon DEF InLog

LEMMA MeteredIsLogged ==
  ASSUME Types, "job" \in Wired, NEW r \in Calls, Here(r), InMeter(r)
  PROVE  IsTool(r) /\ InLog(r)
<1>1. Len(log[r]) \in Nat /\ DOMAIN log[r] = 1..Len(log[r]) /\ req[r].pc \in PCs
      /\ log[r] \in Seq(Entries)
  BY DEF Types
<1>2. Through(req[r], gate[r], bill[r], call[r]) => IsTool(r)
  BY Zenon DEF Through, Uncharged, InMeter, IsTool, Shape
<1>3. CASE req[r].pc \in {"idle", "received", "gated", "peeked", "asking", "budget", "job"}
  BY <1>3, Zenon DEF Here, Place, Fresh, Deciding, Asking, Budgeted, JobPeeked, InMeter
<1>4. CASE req[r].pc = "cost"
  BY <1>4, Zenon DEF Here, Place, Costing, InLog, IsTool, At, Shape
<1>5. CASE req[r].pc \in {"upstream", "switching", "relaying", "halfClosed"}
  BY <1>2, <1>5, Zenon DEF Here, Place, Forwarded, Switching, InLog, Sent, At
<1>6. CASE req[r].pc = "done"
  <2>1. Over(req[r], log[r], gate[r], bill[r], call[r])
    BY <1>6, Zenon DEF Here, Place
  <2>2. CASE Len(log[r]) = 2 /\ log[r][2].decision = "error"
             /\ Switching(req[r], log[r], gate[r], bill[r], call[r])
    <3>1. 2 \in DOMAIN log[r]
      BY <1>1, <2>2
    <3> QED
      BY <1>2, <2>2, <3>1, Zenon DEF Switching, InLog, Sent, Logged, Parsed, Shape
  <2>3. CASE Parsed(req[r]) /\ Len(log[r]) = 1
             /\ Ending(req[r], log[r][1].decision, gate[r], bill[r], call[r])
    <3>1. 1 \in DOMAIN log[r]
      BY <1>1, <2>3
    <3>2. log[r][1].decision \in Decisions
      <4>1. log[r][1] \in Entries
        BY <1>1, <3>1
      <4> QED
        BY <4>1, Zenon DEF Entries
    <3>3. CASE log[r][1].decision \in {"allow", "passthrough", "error"}
      BY <1>2, <2>3, <3>1, <3>3, Zenon DEF Ending, InLog, Sent, Logged, Parsed, Shape
    <3>4. CASE log[r][1].decision \in {"job_budget_exceeded", "cost_budget_exceeded"}
      BY <2>3, <3>1, <3>4, Zenon DEF Ending, InLog, Logged, IsTool, Shape
    <3>5. log[r][1].decision \notin Withheld
      BY <2>3, Zenon DEF Ending, Uncharged, InMeter
    <3> QED
      BY <3>2, <3>3, <3>4, <3>5, Zenon DEF Decisions, Withheld
  <2> QED
    BY <2>1, <2>2, <2>3, Zenon DEF Over, Uncharged, InMeter
<1> QED
  BY <1>1, <1>3, <1>4, <1>5, <1>6, Zenon DEF PCs

(* A job's count can be reconciled with the audit log, for any number of   *)
(* jobs and requests and any meter failures: it is the number of the job's *)
(* tool calls sent or refused by a ceiling, give or take those whose check *)
(* failed open.                                                            *)
THEOREM MeterReconciles == Spec => []MeterMatchesLog
<1>1. ProxyInv => MeterMatchesLog
  <2> SUFFICES ASSUME ProxyInv, "job" \in Wired, NEW j \in Jobs
               PROVE  count[j] \in Cardinality({r \in Charged(j) : "jobOpen" \notin req[r].notes})
                                     ..Cardinality(Charged(j))
    BY Zenon DEF MeterMatchesLog
  <2>1. ASSUME NEW r \in Calls
        PROVE  /\ IsTool(r) /\ InLog(r) =>
                    /\ InMeter(r) /\ gate[r].job = Shape(r).job
                    /\ gate[r].pc = "failedOpen" <=> "jobOpen" \in req[r].notes
               /\ InMeter(r) => IsTool(r) /\ InLog(r)
    <3>1. Types /\ Here(r)
      BY Zenon DEF ProxyInv, Placed
    <3> QED
      BY <3>1, LoggedIsMetered, MeteredIsLogged, Zenon
  <2>2. Charged(j) = Attempted(j)
    BY <2>1, Zenon DEF Charged, Attempted, InLog, InMeter, JobCounted
  <2>3. {r \in Charged(j) : "jobOpen" \notin req[r].notes} = Tallied(j)
    BY <2>1, Zenon DEF Charged, Tallied, InLog, InMeter, JobCounted
  <2> QED
    BY <2>2, <2>3, Zenon DEF ProxyInv, MeterCounts
<1> QED
  BY <1>1, ProxyInvHolds, PTL

LEMMA SmallerSet ==
  ASSUME NEW S, NEW T, IsFiniteSet(T), S \subseteq T
  PROVE  Cardinality(S) <= Cardinality(T) /\ Cardinality(S) \in Nat /\ Cardinality(T) \in Nat
BY FS_Subset, FS_CardinalityType, Zenon

(* The ceilings bound what reaches upstream: the tool calls of a job sent  *)
(* without a grant, and without a note that the meter failed, number at    *)
(* most RequestLimit and cost at most CostLimit together.                  *)
THEOREM OverrunsAreApproved == Spec => []OverrunsApproved
<1>1. ProxyInv => OverrunsApproved
  <2> SUFFICES ASSUME ProxyInv, NEW j \in Jobs
               PROVE  /\ "job" \in Wired => Cardinality(OnItsOwn(j, "jobOpen")) <= RequestLimit
                      /\ "cost" \in Wired =>
                           Cardinality(UNION {{r} \X (1..bill[r].cost) : r \in OnItsOwn(j, "costOpen")})
                             <= CostLimit
    BY Zenon DEF OverrunsApproved
  <2>1. \A r \in Calls : Sent(r) => Through(req[r], gate[r], bill[r], call[r])
    BY SentIsThrough, Zenon DEF ProxyInv, Placed
  <2>2. ASSUME "job" \in Wired PROVE Cardinality(OnItsOwn(j, "jobOpen")) <= RequestLimit
    <3>1. OnItsOwn(j, "jobOpen") \subseteq JobPassed(j)
      BY <2>1, <2>2, Zenon DEF OnItsOwn, IsTool, ViaGrant, Through, JobHeeded, JobPassed, Shape
    <3>2. IsFiniteSet(JobPassed(j))
      <4>1. JobPassed(j) \subseteq Attempted(j) /\ IsFiniteSet(Attempted(j))
        BY Zenon DEF ProxyInv, MeterCounts, JobPassed, Attempted, JobCounted
      <4> QED
        BY <4>1, FS_Subset, Zenon
    <3>3. Cardinality(JobPassed(j)) <= RequestLimit
      BY JobInvCeiling, Zenon DEF ProxyInv, JobCeiling
    <3>4. Cardinality(OnItsOwn(j, "jobOpen")) <= Cardinality(JobPassed(j))
          /\ Cardinality(OnItsOwn(j, "jobOpen")) \in Nat /\ Cardinality(JobPassed(j)) \in Nat
      BY <3>1, <3>2, SmallerSet, Zenon
    <3> QED
      BY <3>3, <3>4, JobBudgetAssumption
  <2>3. ASSUME "cost" \in Wired
        PROVE  Cardinality(UNION {{r} \X (1..bill[r].cost) : r \in OnItsOwn(j, "costOpen")}) <= CostLimit
    <3> DEFINE own == UNION {{r} \X (1..bill[r].cost) : r \in OnItsOwn(j, "costOpen")}
    <3>1. OnItsOwn(j, "costOpen") \subseteq CostPassed(j)
      BY <2>1, <2>3, Zenon DEF OnItsOwn, IsTool, ViaGrant, Through, CostHeeded, CostPassed, Shape
    <3>2. own \subseteq Spent(j)
      BY <3>1, Zenon DEF Spent
    <3>3. IsFiniteSet(Spent(j)) /\ Cardinality(Spent(j)) <= CostLimit
      BY CostInvCeiling, Zenon DEF ProxyInv, CostCeiling
    <3> HIDE DEF own
    <3>4. /\ Cardinality(own) <= Cardinality(Spent(j))
          /\ Cardinality(own) \in Nat /\ Cardinality(Spent(j)) \in Nat
      BY <3>2, <3>3, SmallerSet, Zenon
    <3>5. Cardinality(own) <= CostLimit
      BY <3>3, <3>4, CostBudgetAssumption
    <3> QED
      BY <3>5, Zenon DEF own
  <2> QED
    BY <2>2, <2>3, Zenon
<1> QED
  BY <1>1, ProxyInvHolds, PTL
=============================================================================

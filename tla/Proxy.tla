-------------------------------- MODULE Proxy -------------------------------
(***************************************************************************)
(* The gate pipeline: Handler.ServeHTTP (proxy/adapter/handler.go), over   *)
(* the approval workflow and the per-job ceilings, and the shorter one of  *)
(* the gRPC transport (grpcproxy/adapter/proxy.go), which shares the       *)
(* auto-block gate, the decider, the rate limiter and the audit log.       *)
(*                                                                         *)
(* Calls are served concurrently, each by the steps of ServeHTTP in        *)
(* their order, and every call into a shared store is a step of its own:   *)
(* the actions of Approval, JobBudget and CostBudget are taken from those  *)
(* modules.  The verdicts of the auto-block gate, of the policy engine and *)
(* of the rate limiter are arbitrary here.  finish, which every path but   *)
(* that of an unauthenticated caller ends with, writes the request's audit *)
(* entry to the log.                                                       *)
(***************************************************************************)
EXTENDS Approval, JobBudget, CostBudget, Sequences

CONSTANTS Shapes,        \* what a request carries: [kind, job, key, tool]
          Wired,         \* the optional gates that are configured
          Upgrades       \* TRUE: upstream may answer 101 Switching Protocols

Kinds == {"unauthenticated", "malformed", "lifecycle", "resource", "tool",
          "rpc"}   \* a call over the gRPC transport

ASSUME ProxyAssumption ==
  /\ Shapes \subseteq [kind : Kinds, job : Jobs, key : Keys, tool : Tools]
  /\ Shapes # {} /\ Wired \subseteq {"approval", "job", "cost"} /\ Upgrades \in BOOLEAN

VARIABLES req,   \* each request's place in ServeHTTP
          log    \* the audit entries of each request, in order

vars == <<approvalVars, jobVars, costVars, req, log>>

PCs == {"idle", "received", "gated", "peeked", "asking", "budget", "job", "cost",
        "upstream", "switching", "relaying", "halfClosed", "done"}
Outcomes == {"none", "allow", "deny", "needs_approval"}
Notes == {"grant", "rateOpen", "jobOver", "jobOpen", "costOver", "costOpen"}
Decisions == {"allow", "deny", "throttled", "passthrough", "error", "blocked",
              "needs_approval", "job_budget_exceeded", "cost_budget_exceeded"}
Entries == [decision : Decisions, reason : SUBSET Notes]

TypeOK ==
  /\ ApprovalTypeOK /\ JobTypeOK /\ CostTypeOK
  /\ req \in [Calls -> [pc : PCs, shape : Shapes, outcome : Outcomes, notes : SUBSET Notes]]
  /\ log \in [Calls -> Seq(Entries)]

NotArrived == [pc |-> "idle", shape |-> CHOOSE s \in Shapes : TRUE,
               outcome |-> "none", notes |-> {}]

Init ==
  /\ ApprovalInit /\ JobInit /\ CostInit
  /\ req = [r \in Calls |-> NotArrived]
  /\ log = [r \in Calls |-> <<>>]

-----------------------------------------------------------------------------
At(r, pc) == req[r].pc = pc
Shape(r)  == req[r].shape

\* The request further on in ServeHTTP.
On(q, pc, outcome, notes) == [pc |-> pc, shape |-> q.shape, outcome |-> outcome, notes |-> notes]

Goto(r, pc) == req' = [req EXCEPT ![r].pc = pc] /\ UNCHANGED log

\* Goes on with a note added to successReason.
Noting(r, pc, notes) ==
  req' = [req EXCEPT ![r] = On(@, pc, @.outcome, @.notes \union notes)] /\ UNCHANGED log

\* finish: the audit entry, with which the handling of the request ends.
Finish(r, decision, reason, pc) ==
  /\ log' = [log EXCEPT ![r] = Append(@, [decision |-> decision, reason |-> reason])]
  /\ req' = [req EXCEPT ![r].pc = pc]

Refuse(r, decision) == Finish(r, decision, {}, "done")

\* Up to the parsed request; a caller that does not authenticate leaves no trace.
Receive(r, shape) ==
  LET pc == CASE shape.kind = "unauthenticated" -> "done"
              [] shape.kind = "malformed" -> "done"
              [] OTHER -> "received"
  IN  /\ At(r, "idle")
      /\ req' = [req EXCEPT ![r] = [pc |-> pc, shape |-> shape, outcome |-> "none", notes |-> {}]]
      /\ log' = IF shape.kind = "malformed"
                THEN [log EXCEPT ![r] = <<[decision |-> "error", reason |-> {}]>>] ELSE log
      /\ UNCHANGED <<approvalVars, jobVars, costVars>>

AutoBlock(r) ==
  /\ At(r, "received")
  /\ \/ Refuse(r, "blocked")
     \/ Goto(r, IF Shape(r).kind = "lifecycle" THEN "upstream" ELSE "gated")
  /\ UNCHANGED <<approvalVars, jobVars, costVars>>

\* Decide, first part: what policy is told of the job's count.
PeekJob(r) ==
  /\ At(r, "gated")
  /\ IF "job" \in Wired THEN JobIsOverBudget(r, Shape(r).job) ELSE UNCHANGED jobVars
  /\ Goto(r, "peeked")
  /\ UNCHANGED <<approvalVars, costVars>>

\* Where ServeHTTP goes on after policy let the call through.
AfterPolicy(r) == IF Shape(r).kind \in {"tool", "rpc"} THEN "budget" ELSE "upstream"

\* The gRPC transport has no approvals: it denies what is not allowed.
CanAsk(r) == "approval" \in Wired /\ Shape(r).kind # "rpc"

\* The rest of Decide, and the switch on its outcome up to the first lock of
\* the approval store.
Decide(r) ==
  /\ At(r, "peeked")
  /\ IF "cost" \in Wired THEN CostIsOverBudget(r, Shape(r).job, Shape(r).tool)
                         ELSE UNCHANGED costVars
  /\ \E outcome \in Outcomes \ {"none"} :
       LET denied == outcome = "deny" \/ (outcome = "needs_approval" /\ ~CanAsk(r))
           pc == CASE denied -> "done"
                   [] outcome = "allow" -> AfterPolicy(r)
                   [] OTHER -> "asking"
       IN  /\ req' = [req EXCEPT ![r] = On(@, pc, outcome, @.notes)]
           /\ log' = IF denied THEN [log EXCEPT ![r] = Append(@, [decision |-> "deny", reason |-> {}])]
                               ELSE log
           /\ IF pc = "asking" THEN OnNeedsApproval(r, Shape(r).key)
                               ELSE UNCHANGED approvalVars
  /\ UNCHANGED jobVars

\* Mutated form of TakeGrant: the grant is looked up and stays.
PeeksAtGrant(r) ==
  /\ At(r, "asking")
  /\ \/ \E g \in Held(Shape(r).key) :
          call' = [call EXCEPT ![r] = Admit(@, g)] /\ Noting(r, AfterPolicy(r), {"grant"})
     \/ Held(Shape(r).key) = {} /\ ConsumeGrant(r) /\ UNCHANGED <<req, log>>
  /\ UNCHANGED <<clock, status, keyOf, decidedAt, grants, op, jobVars, costVars>>

TakeGrant(r) ==
  /\ At(r, "asking")
  /\ ConsumeGrant(r)
  /\ IF call'[r].pc = "admitted" THEN Noting(r, AfterPolicy(r), {"grant"}) ELSE UNCHANGED <<req, log>>
  /\ UNCHANGED <<jobVars, costVars>>

\* Mutated form of Enqueue: a store error does not stop the call.
ErrorAdmits(r) ==
  /\ At(r, "asking")
  /\ CreateRequest(r)
  /\ IF call'[r].pc = "queued" THEN Refuse(r, "needs_approval") ELSE Goto(r, AfterPolicy(r))
  /\ UNCHANGED <<jobVars, costVars>>

\* A store error denies the call.
Enqueue(r) ==
  /\ At(r, "asking")
  /\ CreateRequest(r)
  /\ Refuse(r, IF call'[r].pc = "queued" THEN "needs_approval" ELSE "deny")
  /\ UNCHANGED <<jobVars, costVars>>

Operate(o) ==
  OperatorStep(o) /\ UNCHANGED <<jobVars, costVars, req, log>>

TimePasses == Tick /\ UNCHANGED <<jobVars, costVars, req, log>>

-----------------------------------------------------------------------------
\* Mutated form of RateLimit: the refusal is sent but not recorded.
ThrottlesSilently(r) ==
  /\ At(r, "budget")
  /\ Goto(r, "done") \/ Goto(r, IF Shape(r).kind = "tool" THEN "job" ELSE "upstream")
  /\ UNCHANGED <<approvalVars, jobVars, costVars>>

\* A limiter that failed open is noted; not by the gRPC transport, which has
\* no further gates.
RateLimit(r) ==
  /\ At(r, "budget")
  /\ \/ Refuse(r, "throttled")
     \/ Goto(r, IF Shape(r).kind = "tool" THEN "job" ELSE "upstream")
     \/ Shape(r).kind = "tool" /\ Noting(r, "job", {"rateOpen"})
  /\ UNCHANGED <<approvalVars, jobVars, costVars>>

ViaGrant(r) == "grant" \in req[r].notes

\* What ServeHTTP makes of a ceiling's verdict: a grant overrides a refusal.
Heed(r, verdict, refusal, over, open, pc) ==
  CASE verdict = "refused" /\ ~ViaGrant(r) -> Refuse(r, refusal)
    [] verdict = "refused" /\ ViaGrant(r)  -> Noting(r, pc, {over})
    [] verdict = "failedOpen"              -> Noting(r, pc, {open})
    [] OTHER                               -> Goto(r, pc)

\* Mutated forms of JobGate: a call with a grant is not counted; a refusal
\* is noted but does not stop the call.
GrantSkipsMeter(r) ==
  /\ At(r, "job")
  /\ IF "job" \in Wired /\ ~ViaGrant(r)
     THEN /\ JobCheck(r) \/ JobCheckFailsOpen(r)
          /\ Heed(r, gate'[r].pc, "job_budget_exceeded", "jobOver", "jobOpen", "cost")
     ELSE Goto(r, "cost") /\ UNCHANGED jobVars
  /\ UNCHANGED <<approvalVars, costVars>>

RefusalIsANote(r) ==
  /\ At(r, "job")
  /\ IF "job" \in Wired
     THEN (JobCheck(r) \/ JobCheckFailsOpen(r)) /\ Noting(r, "cost", {"jobOver"})
     ELSE Goto(r, "cost") /\ UNCHANGED jobVars
  /\ UNCHANGED <<approvalVars, costVars>>

JobGate(r) ==
  /\ At(r, "job")
  /\ IF "job" \in Wired
     THEN /\ JobCheck(r) \/ JobCheckFailsOpen(r)
          /\ Heed(r, gate'[r].pc, "job_budget_exceeded", "jobOver", "jobOpen", "cost")
     ELSE Goto(r, "cost") /\ UNCHANGED jobVars
  /\ UNCHANGED <<approvalVars, costVars>>

CostGate(r) ==
  /\ At(r, "cost")
  /\ IF "cost" \in Wired
     THEN /\ CostCheck(r) \/ CostCheckFailsOpen(r)
          /\ Heed(r, bill'[r].pc, "cost_budget_exceeded", "costOver", "costOpen", "upstream")
     ELSE Goto(r, "upstream") /\ UNCHANGED costVars
  /\ UNCHANGED <<approvalVars, jobVars>>

SuccessDecision(r) == IF Shape(r).kind = "lifecycle" THEN "passthrough" ELSE "allow"

\* forward: ModifyResponse records the response; with a 101 the reverse proxy
\* goes on to switch protocols.
Respond(r) ==
  /\ At(r, "upstream") /\ Shape(r).kind # "rpc"
  /\ \/ Finish(r, SuccessDecision(r), req[r].notes, "done")
     \/ Upgrades /\ Finish(r, SuccessDecision(r), req[r].notes, "switching")
  /\ UNCHANGED <<approvalVars, jobVars, costVars>>

\* forward: ErrorHandler, when there is no response or the switch fails.
UpstreamError(r) ==
  /\ At(r, "upstream") \/ At(r, "switching")
  /\ Finish(r, "error", {}, "done")
  /\ UNCHANGED <<approvalVars, jobVars, costVars>>

Switched(r) ==
  /\ At(r, "switching") /\ Goto(r, "done")
  /\ UNCHANGED <<approvalVars, jobVars, costVars>>

\* forward of the gRPC transport: the upstream stream is open and two
\* goroutines relay the messages of either side.
OpenStream(r) ==
  /\ At(r, "upstream") /\ Goto(r, "relaying")
  /\ UNCHANGED <<approvalVars, jobVars, costVars>>

\* The caller's side ends first: a half-close, or an error that ends the call.
CallerEnds(r) ==
  /\ At(r, "relaying")
  /\ Goto(r, "halfClosed") \/ Finish(r, "error", {}, "done")
  /\ UNCHANGED <<approvalVars, jobVars, costVars>>

\* Upstream's side ends with the status of the call.
UpstreamEnds(r) ==
  /\ At(r, "relaying") \/ At(r, "halfClosed")
  /\ Finish(r, "allow", {}, "done") \/ Finish(r, "error", {}, "done")
  /\ UNCHANGED <<approvalVars, jobVars, costVars>>

ServeHTTP(r) ==
  \/ \E shape \in Shapes : shape.kind # "rpc" /\ Receive(r, shape)
  \/ /\ Shape(r).kind # "rpc"
     /\ \/ AutoBlock(r) \/ PeekJob(r) \/ Decide(r)
        \/ TakeGrant(r) \/ Enqueue(r)
        \/ RateLimit(r) \/ JobGate(r) \/ CostGate(r)
        \/ Respond(r) \/ UpstreamError(r) \/ Switched(r)

\* The gRPC transport: fewer gates, and streams instead of a response.
Handler(r) ==
  \/ \E shape \in Shapes : shape.kind = "rpc" /\ Receive(r, shape)
  \/ /\ Shape(r).kind = "rpc"
     /\ \/ AutoBlock(r) \/ PeekJob(r) \/ Decide(r) \/ RateLimit(r)
        \/ OpenStream(r) \/ UpstreamError(r) \/ CallerEnds(r) \/ UpstreamEnds(r)

Next == TimePasses \/ (\E r \in Calls : ServeHTTP(r) \/ Handler(r)) \/ (\E o \in Operators : Operate(o))

Spec == Init /\ [][Next]_vars

-----------------------------------------------------------------------------
Logged(r, decisions) == \E i \in DOMAIN log[r] : log[r][i].decision \in decisions
IsTool(r) == Shape(r).kind = "tool"

\* Calls that were sent upstream.
Sent(r) == (\E pc \in {"upstream", "switching", "relaying", "halfClosed"} : At(r, pc))
           \/ (Shape(r).kind # "malformed" /\ Logged(r, {"allow", "passthrough", "error"}))

(* The documented promise of finish, "records exactly one audit entry for  *)
(* a completed request": on every path through the gates and through       *)
(* forward, a request whose handling ended has one entry, or none if its   *)
(* caller never authenticated.                                             *)
OneEntryEach ==
  \A r \in Calls : At(r, "done") =>
    Len(log[r]) = IF Shape(r).kind = "unauthenticated" THEN 0 ELSE 1

(* What holds of it whatever upstream answers: the only request with a     *)
(* second entry is one whose response was recorded and whose switch of     *)
(* protocols then failed; every other path through the gates of either     *)
(* transport records one.                                                  *)
ExtraEntryIsFailedSwitch ==
  \A r \in Calls : At(r, "done") =>
    \/ Len(log[r]) = IF Shape(r).kind = "unauthenticated" THEN 0 ELSE 1
    \/ /\ Upgrades /\ Shape(r).kind # "rpc" /\ Len(log[r]) = 2
       /\ log[r][1].decision = SuccessDecision(r) /\ log[r][2].decision = "error"

(* The meters can be reconciled with the audit log: a job's count is the   *)
(* number of its tool calls that were sent or that a ceiling refused, by   *)
(* their audit entries or by their place in the pipeline, where those      *)
(* whose check failed open may or may not be counted; no call that policy, *)
(* an approval or the rate limiter held back was charged.                  *)
Charged(j) ==
  {r \in Calls : /\ IsTool(r) /\ Shape(r).job = j
                 /\ \/ At(r, "cost") \/ Sent(r)
                    \/ Logged(r, {"job_budget_exceeded", "cost_budget_exceeded"})}
MeterMatchesLog ==
  "job" \in Wired => \A j \in Jobs :
    LET sure == {r \in Charged(j) : "jobOpen" \notin req[r].notes}
    IN  count[j] \in Cardinality(sure)..Cardinality(Charged(j))

(* A ceiling is exceeded only by approved calls: the tool calls of a job   *)
(* sent upstream without a grant, and without a note that the meter failed *)
(* open, number at most the request limit and cost at most the cost limit. *)
OnItsOwn(j, open) ==
  {r \in Calls : Sent(r) /\ IsTool(r) /\ Shape(r).job = j /\ ~ViaGrant(r)
                    /\ open \notin req[r].notes}
OverrunsApproved ==
  \A j \in Jobs :
    /\ "job" \in Wired => Cardinality(OnItsOwn(j, "jobOpen")) <= RequestLimit
    /\ "cost" \in Wired =>
         Cardinality(UNION {{r} \X (1..bill[r].cost) : r \in OnItsOwn(j, "costOpen")}) <= CostLimit

(* The pipeline fails closed: whatever else raced with it, a gated request *)
(* is sent upstream only if policy allowed it, or if policy asked for      *)
(* approval and an operator approved a request with this request's key.    *)
SentWasDecided ==
  \A r \in Calls : Sent(r) /\ Shape(r).kind # "lifecycle" =>
    \/ req[r].outcome = "allow"
    \/ /\ req[r].outcome = "needs_approval"
       /\ call[r].pc = "admitted"
       /\ status[call[r].via] = "approved" /\ keyOf[call[r].via] = Shape(r).key

(* Served concurrently by the pipeline, the components still behave as     *)
(* their own modules say: their theorems hold of the proxy.                *)
ComponentsImplemented == ApprovalSpec /\ JobSpec /\ CostSpec
=============================================================================

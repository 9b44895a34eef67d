----------------------------- MODULE CostBudget -----------------------------
(***************************************************************************)
(* The per-job cost ceiling: Checker (costbudget/usecase/checker.go) over  *)
(* a Meter (costbudget/adapter/inmemory_meter.go, postgres_meter.go).      *)
(*                                                                         *)
(* As the per-job request ceiling, but each call adds the declared cost of *)
(* its tool, which may be zero, and is refused when the total it gets back *)
(* is above the ceiling.  A refused call's cost stays in the total.        *)
(***************************************************************************)
EXTENDS JobCalls, Integers, FiniteSets

CONSTANTS Tools,
          ToolCosts,     \* Config.ToolCosts: the tools with a declared cost
          DefaultCost,   \* Config.DefaultCost, 0 when unset
          CostLimit      \* Config.Limit()

\* Config does not reject a negative declared cost; the documentation gives
\* it no meaning, and the ceiling is only claimed without one.
ASSUME CostBudgetAssumption ==
  /\ CostLimit \in Nat \ {0} /\ DefaultCost \in Nat
  /\ DOMAIN ToolCosts \subseteq Tools /\ \A t \in DOMAIN ToolCosts : ToolCosts[t] \in Nat

VARIABLES total,  \* the meter
          bill    \* each call's progress, its cost, what it peeked, its Verdict

costVars == <<total, bill>>

Bills == [pc : {"idle", "peeked", "passed", "refused", "failedOpen"},
          job : Jobs, cost : Nat, over : BOOLEAN, total : Nat]

CostTypeOK == total \in [Jobs -> Nat] /\ bill \in [Calls -> Bills]

Unbilled == [pc |-> "idle", job |-> AnyJob, cost |-> 0,
             over |-> FALSE, total |-> 0]

CostInit == total = [j \in Jobs |-> 0] /\ bill = [c \in Calls |-> Unbilled]

-----------------------------------------------------------------------------
CostOf(tool) ==
  IF tool \in DOMAIN ToolCosts THEN ToolCosts[tool]
  ELSE IF DefaultCost > 0 THEN DefaultCost ELSE 1

CostAtCeiling(j) == total[j] >= CostLimit

CostIsOverBudget(c, j, tool) ==
  /\ bill[c].pc = "idle"
  /\ \E over \in BOOLEAN :
       /\ (over <=> CostAtCeiling(j)) \/ (MeterCanFail /\ ~over)
       /\ bill' = [bill EXCEPT ![c] = [pc |-> "peeked", job |-> j, cost |-> CostOf(tool),
                                       over |-> over, total |-> 0]]
  /\ UNCHANGED total

Add(j, amount) == total' = [total EXCEPT ![j] = @ + amount]

CostVerdict(c, pc, sum) ==
  bill' = [bill EXCEPT ![c] = [pc |-> pc, job |-> @.job, cost |-> @.cost,
                               over |-> @.over, total |-> sum]]

\* Mutated form of CostCheck: the ceiling is compared with the total before the call.
ChecksBeforeAdding(c) ==
  LET j == bill[c].job
  IN  /\ bill[c].pc = "peeked"
      /\ Add(j, bill[c].cost)
      /\ CostVerdict(c, IF total[j] > CostLimit THEN "refused" ELSE "passed", total[j] + bill[c].cost)

CostCheck(c) ==
  LET j   == bill[c].job
      sum == total[j] + bill[c].cost
  IN  /\ bill[c].pc = "peeked"
      /\ Add(j, bill[c].cost)
      /\ CostVerdict(c, IF sum > CostLimit THEN "refused" ELSE "passed", sum)

CostCheckFailsOpen(c) ==
  /\ MeterCanFail
  /\ bill[c].pc = "peeked"
  /\ Add(bill[c].job, bill[c].cost) \/ UNCHANGED total
  /\ CostVerdict(c, "failedOpen", 0)

CostNext ==
  \E c \in Calls :
    \/ \E j \in Jobs, tool \in Tools : CostIsOverBudget(c, j, tool)
    \/ CostCheck(c)
    \/ CostCheckFailsOpen(c)

CostSpec == CostInit /\ [][CostNext]_costVars

-----------------------------------------------------------------------------
CostPassed(j) == {c \in Calls : bill[c].pc = "passed" /\ bill[c].job = j}

\* The units of cost the calls of a job that passed were charged, one pair
\* per unit: the size of this set is the sum of their costs.
Spent(j) == UNION {{c} \X (1..bill[c].cost) : c \in CostPassed(j)}

(* The ceiling is hard: the calls of a job that pass Check on the meter's  *)
(* word cost at most CostLimit together, however their peeks and checks    *)
(* interleave and whichever queries fail.                                  *)
CostCeiling == \A j \in Jobs : Cardinality(Spent(j)) <= CostLimit

(* What policy was told agrees with the gate that follows, except for free *)
(* calls: a call with a cost whose peek said "over budget" never passes.   *)
CostPeekPredictsGate ==
  \A c \in Calls : bill[c].over /\ bill[c].cost > 0 => bill[c].pc # "passed"

(* A job that was refused once stays refused, free and cheap calls         *)
(* included: the refused call's cost is in the total and nothing resets it.*)
CostRefusedForever ==
  [][\A c, d \in Calls :
       (bill[c].pc = "refused" /\ bill'[d].pc = "passed" /\ bill[d].pc # "passed")
         => bill'[d].job # bill[c].job]_costVars
=============================================================================

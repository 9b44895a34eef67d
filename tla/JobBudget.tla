----------------------------- MODULE JobBudget ------------------------------
(***************************************************************************)
(* The per-job request ceiling: Checker (jobbudget/usecase/checker.go)     *)
(* over a Meter (jobbudget/adapter/inmemory_meter.go, postgres_meter.go).  *)
(*                                                                         *)
(* A call first peeks at its job's count for the policy decision           *)
(* (IsOverBudget) and later, if policy lets it through, increments the     *)
(* count and is refused when the result is above the limit (Check).  Both  *)
(* meters make the increment and the read of its result one atomic step.   *)
(* With the Postgres meter either query can fail: the peek then says "not  *)
(* over" and the check fails open, whether or not the increment committed. *)
(***************************************************************************)
EXTENDS JobCalls, Naturals, FiniteSets

CONSTANT RequestLimit   \* Config.Limit()

ASSUME JobBudgetAssumption == RequestLimit \in Nat \ {0}

VARIABLES count,  \* the meter
          gate    \* each call's progress, what it peeked and its Verdict

jobVars == <<count, gate>>

Gates == [pc : {"idle", "peeked", "passed", "refused", "failedOpen"},
          job : Jobs, over : BOOLEAN, n : Nat]

JobTypeOK == count \in [Jobs -> Nat] /\ gate \in [Calls -> Gates]

Ungated == [pc |-> "idle", job |-> AnyJob, over |-> FALSE, n |-> 0]

JobInit == count = [j \in Jobs |-> 0] /\ gate = [c \in Calls |-> Ungated]

-----------------------------------------------------------------------------
JobAtCeiling(j) == count[j] >= RequestLimit

JobIsOverBudget(c, j) ==
  /\ gate[c].pc = "idle"
  /\ \E over \in BOOLEAN :
       /\ (over <=> JobAtCeiling(j)) \/ (MeterCanFail /\ ~over)
       /\ gate' = [gate EXCEPT ![c] = [pc |-> "peeked", job |-> j, over |-> over, n |-> 0]]
  /\ UNCHANGED count

Increment(j) == count' = [count EXCEPT ![j] = @ + 1]

JobVerdict(c, pc, n) ==
  gate' = [gate EXCEPT ![c] = [pc |-> pc, job |-> @.job, over |-> @.over, n |-> n]]

\* Mutated form of JobCheck: the read and the write of the count are not one
\* step.
ReadThenWrite(c) ==
  LET j == gate[c].job
  IN  /\ gate[c].pc = "peeked"
      /\ JobVerdict(c, IF JobAtCeiling(j) THEN "refused" ELSE "passed", count[j] + 1)
      /\ Increment(j) \/ UNCHANGED count

JobCheck(c) ==
  LET j == gate[c].job
      n == count[j] + 1
  IN  /\ gate[c].pc = "peeked"
      /\ Increment(j)
      /\ JobVerdict(c, IF n > RequestLimit THEN "refused" ELSE "passed", n)

JobCheckFailsOpen(c) ==
  /\ MeterCanFail
  /\ gate[c].pc = "peeked"
  /\ Increment(gate[c].job) \/ UNCHANGED count
  /\ JobVerdict(c, "failedOpen", 0)

JobNext ==
  \E c \in Calls :
    \/ \E j \in Jobs : JobIsOverBudget(c, j)
    \/ JobCheck(c)
    \/ JobCheckFailsOpen(c)

JobSpec == JobInit /\ [][JobNext]_jobVars

-----------------------------------------------------------------------------
JobPassed(j) == {c \in Calls : gate[c].pc = "passed" /\ gate[c].job = j}

(* The ceiling is hard: however the peeks and checks of concurrent calls   *)
(* interleave, and even when increments are lost to failed queries, at     *)
(* most RequestLimit calls of a job pass Check on the meter's word.        *)
JobCeiling == \A j \in Jobs : Cardinality(JobPassed(j)) <= RequestLimit

(* What policy was told agrees with the gate that follows: a call whose    *)
(* peek said "over budget" never passes Check, because a count never goes  *)
(* down between the two.                                                   *)
JobPeekPredictsGate == \A c \in Calls : gate[c].over => gate[c].pc # "passed"

(* A job that was refused once stays refused: the refused call was counted *)
(* too, and nothing resets a job's count.                                  *)
JobRefusedForever ==
  [][\A c, d \in Calls :
       (gate[c].pc = "refused" /\ gate'[d].pc = "passed" /\ gate[d].pc # "passed")
         => gate'[d].job # gate[c].job]_jobVars
=============================================================================

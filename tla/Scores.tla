------------------------------- MODULE Scores -------------------------------
(***************************************************************************)
(* The arithmetic that decides over one completed window of an identity    *)
(* (anomaly/usecase/detector.go): the score that is logged, the score that *)
(* blocks, and the cumulative sum of the drift chart.  Deviations are      *)
(* integers, in a unit small enough for the margin to be Margin of them;   *)
(* their floating-point computation is left out.                           *)
(***************************************************************************)
EXTENDS Integers

CONSTANTS Margin,            \* volumeDeclineMargin
          ScoreThreshold,    \* ml_score.score_threshold
          BlockThreshold     \* auto_block.score_threshold

\* Config.validate: a block needs at least the score that is logged.
ASSUME ScoresAssumption ==
  /\ Margin \in Nat /\ ScoreThreshold \in Nat /\ BlockThreshold \in Nat
  /\ BlockThreshold >= ScoreThreshold

\* The deviations of a window: deny scores the ratio for the log, denyBlock for the block.
Deviations ==
  [rate : Int, diversity : Int, deny : Int, denyBlock : Int, toolCalls : Int, interArrival : Int]

AbsZ(x) == IF x < 0 THEN -x ELSE x

Larger(best, v) == IF v > best THEN v ELSE best

MaxAbsZ(z) ==
  Larger(Larger(Larger(AbsZ(z.rate), AbsZ(z.diversity)), AbsZ(z.deny)), AbsZ(z.interArrival))

\* The denials count only if the tool calls did not decline, the spacing only if the calls
\* did not.
MaxHarmfulZ(z) ==
  LET spread == Larger(z.rate, z.diversity)
      denied == IF z.toolCalls >= -Margin THEN Larger(spread, z.denyBlock) ELSE spread
      best   == IF z.rate >= -Margin THEN Larger(denied, -z.interArrival) ELSE denied
  IN  Larger(best, 0)

\* Mutated form of FinalScore: the blocking score is not promoted.
ScoreForLog(z) == MaxAbsZ(z)

\* What is logged: the larger of the two.
FinalScore(z) == Larger(MaxAbsZ(z), MaxHarmfulZ(z))

Anomalous(z) == FinalScore(z) > ScoreThreshold

Blocks(z) == MaxHarmfulZ(z) > BlockThreshold

\* cusumStep before its alarm.
Accumulated(sum, z, k) == Larger(0, sum + z - k)
=============================================================================

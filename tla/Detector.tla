------------------------------ MODULE Detector ------------------------------
(***************************************************************************)
(* The anomaly detector for one identity, on replicas that share a block   *)
(* store or not, together with the auto-block gate of the proxy            *)
(* (anomaly/usecase/detector.go, auto_block.go, auto_block_gc.go, gc.go,   *)
(* anomaly/adapter/postgres_block_store.go).  Every map of the code is     *)
(* keyed by tenant and identity, so identities do not meet.                *)
(*                                                                         *)
(* A call is checked at the gate and published to the detector when its    *)
(* audit entry is written; others run in between.  How far a completed     *)
(* window deviates from its baseline is a choice, and zero for a baseline  *)
(* that has too few samples.                                               *)
(***************************************************************************)
EXTENDS Integers, FiniteSets, Sequences, Functions, FiniteSetsExt, Scores

CONSTANTS Replicas, Tools,
          Setups,                        \* the deployments considered
          Window,                        \* window_seconds
          RateMinCalls, RateMultiplier,
          DenyMinCalls, DenyThreshold,   \* the threshold in percent
          MLMinCalls, MinSamples,
          DriftMinCalls, K, H,
          BlockDuration, GCInterval,
          None,
          MaxTime                        \* bound

\* What the gate lets pass is allowed, denied, or not a tool call.
Entries == [decision : {"allow", "deny", "passthrough"}, tool : Tools]

\* Config.validate on the settings the module is about.
ASSUME DetectorAssumption ==
  /\ {Window, RateMinCalls, DenyMinCalls, MinSamples, DriftMinCalls, K, BlockDuration, GCInterval,
      MaxTime} \subseteq Nat \ {0}
  /\ MLMinCalls >= 2 /\ H > K /\ BlockDuration <= 2 * GCInterval
  /\ \A s \in Setups : /\ s.replicas \subseteq Replicas /\ s.postgres \in BOOLEAN
                       /\ s.windows \subseteq Deviations /\ s.maxCalls \in Nat
                       /\ s.entries \subseteq Entries

VARIABLES clock, setup,
          started,      \* how many calls were made
          passed,       \* the calls of each replica that passed the gate and are not yet published
          state,        \* the identityState of each replica, None without one
          blocked,      \* the entry of each block store, None without one
          log,          \* the anomalies emitted
          blockings,    \* history: the calls of Block that reached the store
          lastPassed    \* history: when a call that had passed the gate was last published

vars == <<clock, setup, started, passed, state, blocked, log, blockings, lastPassed>>

Times  == 0..MaxTime
Stores == Replicas \union {"postgres"}
StoreOf(r) == IF setup.postgres THEN "postgres" ELSE r
Kinds  == {"rate_spike", "novel_tool", "deny_rate_spike", "ml_score", "drift"}
Latched == {"rate_spike", "deny_rate_spike", "ml_score"}

WindowCounts == [total : Nat, toolCalls : Nat, deny : Nat, uniqueTools : SUBSET Tools]
NoCounts == [total |-> 0, toolCalls |-> 0, deny |-> 0, uniqueTools |-> {}]

\* The baselines are the number of windows folded into them.  windows, told and drifts are
\* history: the windows completed, the anomalies of the current one, and the deviations that
\* went into each cumulative sum since it was last zero for an alarm.
IdentityStates ==
  [tools : SUBSET Tools, windowStart : Times, cur : WindowCounts, prev : WindowCounts,
   flaggedThisWindow : SUBSET Latched, lastSeen : Times,
   samples : Nat, toolSamples : Nat, cusum : [{"rate", "diversity"} -> Nat],
   windows : Nat, told : [Latched -> Nat], drifts : [{"rate", "diversity"} -> Seq(Int)]]

BlockEntries == [until : 1..(MaxTime + BlockDuration), by : Replicas]

ASSUME NoneAssumption == None \notin IdentityStates \union BlockEntries

TypeOK ==
  /\ clock \in 1..MaxTime /\ setup \in Setups
  /\ started \in 0..setup.maxCalls /\ passed \in [Replicas -> Nat]
  /\ state \in [Replicas -> IdentityStates \union {None}]
  /\ blocked \in [Stores -> BlockEntries \union {None}]
  /\ log \subseteq [kind : Kinds, replica : Replicas, at : Times, blocks : BOOLEAN]
  /\ blockings \subseteq [replica : Replicas, at : Times]
  /\ lastPassed \in Times

Init ==
  /\ clock = 1 /\ setup \in Setups
  /\ started = 0 /\ passed = [r \in Replicas |-> 0]
  /\ state = [r \in Replicas |-> None] /\ blocked = [s \in Stores |-> None]
  /\ log = {} /\ blockings = {} /\ lastPassed = 0
-----------------------------------------------------------------------------
(* The checks of recordAndCheck.                                           *)

IsToolCall(e) == e.decision # "passthrough"

NewState(now) ==
  [tools |-> {}, windowStart |-> now, cur |-> NoCounts, prev |-> NoCounts,
   flaggedThisWindow |-> {}, lastSeen |-> now, samples |-> 0, toolSamples |-> 0,
   cusum |-> [f \in {"rate", "diversity"} |-> 0],
   windows |-> 0, told |-> [k \in Latched |-> 0], drifts |-> [f \in {"rate", "diversity"} |-> <<>>]]

WindowOver(st, now) == now >= st.windowStart + Window

Rollover(st, now) ==
  [st EXCEPT !.prev = st.cur, !.cur = NoCounts, !.windowStart = now, !.flaggedThisWindow = {},
             !.windows = @ + 1, !.told = [k \in Latched |-> 0]]

Counted(cur, e) ==
  IF IsToolCall(e)
  THEN [total |-> cur.total + 1, toolCalls |-> cur.toolCalls + 1,
        deny |-> cur.deny + (IF e.decision = "deny" THEN 1 ELSE 0),
        uniqueTools |-> cur.uniqueTools \union {e.tool}]
  ELSE [cur EXCEPT !.total = @ + 1]

RateSpike(st) ==
  /\ st.prev.total > 0 /\ st.cur.total >= RateMinCalls
  /\ st.cur.total > st.prev.total * RateMultiplier

DenyRateSpike(st) ==
  /\ st.cur.toolCalls >= DenyMinCalls
  /\ st.cur.deny * 100 > DenyThreshold * st.cur.toolCalls

NovelTool(st, e) == IsToolCall(e) /\ e.tool \notin st.tools

\* One anomaly of a kind per window.
Flag(st, kinds) ==
  [st EXCEPT !.flaggedThisWindow = @ \union kinds,
             !.told = [k \in Latched |-> @[k] + (IF k \in kinds THEN 1 ELSE 0)]]
-----------------------------------------------------------------------------
(* The checks of a completed window.                                       *)

\* What the deviations can be: zero without enough samples; and the two scores of the denials
\* have one numerator, the blocking one the larger divisor unless the other's is zero.
Possible(st, z) ==
  /\ st.samples < MinSamples => z.rate = 0 /\ z.interArrival = 0
  /\ st.toolSamples < MinSamples =>
       z.diversity = 0 /\ z.deny = 0 /\ z.denyBlock = 0 /\ z.toolCalls = 0
  /\ z.deny # 0 => z.deny * z.denyBlock >= 0 /\ AbsZ(z.denyBlock) <= AbsZ(z.deny)

Drifted(st, f, z) == Accumulated(st.cusum[f], z[f], K) > H

\* Mutated form of CheckDrift: an alarm does not restart the sum.
KeepsSum(st, z) ==
  IF st.prev.total < DriftMinCalls THEN st
  ELSE [st EXCEPT !.cusum = [f \in {"rate", "diversity"} |-> Accumulated(@[f], z[f], K)],
                  !.drifts = [f \in {"rate", "diversity"} |->
                               IF Drifted(st, f, z) THEN <<>> ELSE Append(@[f], z[f])]]

\* checkDrift: both cumulative sums, each zero again after an alarm.
CheckDrift(st, z) ==
  IF st.prev.total < DriftMinCalls THEN st
  ELSE [st EXCEPT !.cusum = [f \in {"rate", "diversity"} |->
                               IF Drifted(st, f, z) THEN 0 ELSE Accumulated(@[f], z[f], K)],
                  !.drifts = [f \in {"rate", "diversity"} |->
                               IF Drifted(st, f, z) THEN <<>> ELSE Append(@[f], z[f])]]

DriftAlarm(st, z) ==
  st.prev.total >= DriftMinCalls /\ \E f \in {"rate", "diversity"} : Drifted(st, f, z)

\* The features of the tool calls need enough tool calls.
Scored(st, z) ==
  IF st.prev.toolCalls >= MLMinCalls THEN z
  ELSE [z EXCEPT !.diversity = 0, !.deny = 0, !.denyBlock = 0, !.toolCalls = 0]

\* A window that is not anomalous joins the baselines it has evidence for.
Fold(st) ==
  [st EXCEPT !.samples = @ + 1,
             !.toolSamples = @ + (IF st.prev.toolCalls >= MLMinCalls THEN 1 ELSE 0)]

MLScored(st) == st.prev.total >= MLMinCalls

MLAnomalous(st, z) == MLScored(st) /\ Anomalous(Scored(st, z))

MLTold(st, z) == MLAnomalous(st, z) /\ "ml_score" \notin st.flaggedThisWindow

MLBlocks(st, z) == MLScored(st) /\ Blocks(Scored(st, z))

\* checkMLScore: the window is folded or it is told.
CheckMLScore(st, z) ==
  LET folded == IF MLScored(st) /\ ~ MLAnomalous(st, z) THEN Fold(st) ELSE st
  IN  IF MLTold(st, z) THEN Flag(folded, {"ml_score"}) ELSE folded
-----------------------------------------------------------------------------
(* recordAndCheck for an entry that is not skipped.                        *)

Before(r) == IF state[r] = None THEN NewState(clock) ELSE state[r]

\* The call is counted, in a new window if the old one is over.
Entered(r, e) ==
  LET st == IF WindowOver(Before(r), clock) THEN Rollover(Before(r), clock) ELSE Before(r)
  IN  [st EXCEPT !.lastSeen = clock, !.cur = Counted(@, e)]

\* The checks of every call.
Spikes(st) ==
  {k \in {"rate_spike", "deny_rate_spike"} :
     /\ k \notin st.flaggedThisWindow
     /\ IF k = "rate_spike" THEN RateSpike(st) ELSE DenyRateSpike(st)}

Watched(st, e) ==
  [Flag(st, Spikes(st)) EXCEPT !.tools = IF NovelTool(st, e) THEN @ \union {e.tool} ELSE @]

\* Mutated form of ScoresNow: on every call, as the other heuristics.
ScoresEveryCall(over) == TRUE

\* A window is judged by the call that ends it.
ScoresNow(over) == over

Judges(r) == ScoresNow(WindowOver(Before(r), clock))

NextState(r, e, z) ==
  LET st == Watched(Entered(r, e), e)
  IN  IF Judges(r) THEN CheckMLScore(CheckDrift(st, z), z) ELSE st

BlocksNow(r, e, z) ==
  LET st == Watched(Entered(r, e), e)
  IN  Judges(r) /\ (DriftAlarm(st, z) \/ MLBlocks(st, z))

\* The anomalies of the call, and whether each of them blocked.
Told(r, e, z) ==
  LET entered == Entered(r, e)
      st      == Watched(entered, e)
      As(kind, blocks) == [kind |-> kind, replica |-> r, at |-> clock, blocks |-> blocks]
  IN  {As(k, FALSE) : k \in Spikes(entered)}
        \union {As(k, FALSE) : k \in {x \in {"novel_tool"} : NovelTool(entered, e)}}
        \union {As(k, TRUE) : k \in {x \in {"drift"} : Judges(r) /\ DriftAlarm(st, z)}}
        \union {As(k, MLBlocks(st, z)) : k \in {x \in {"ml_score"} : Judges(r) /\ MLTold(st, z)}}
-----------------------------------------------------------------------------
(* The gate and the block stores.                                          *)

Active(s, now) == blocked[s] # None /\ now < blocked[s].until

\* Block: a later one replaces the entry.  A write that fails is logged and not retried.
Block(r, ok) ==
  IF ok
  THEN /\ blocked' = [blocked EXCEPT ![StoreOf(r)] = [until |-> clock + BlockDuration, by |-> r]]
       /\ blockings' = blockings \union {[replica |-> r, at |-> clock]}
  ELSE UNCHANGED <<blocked, blockings>>

\* Mutated form of Skips: the calls the gate refused are traffic as well.
SkipsNothing(decision) == FALSE

Skips(decision) == decision = "blocked"

\* Publish of the audit entry of a call.
Publish(r, e, z, ok) ==
  IF Skips(e.decision) THEN UNCHANGED <<state, log, blocked, blockings>>
  ELSE /\ IF state[r] = None THEN z = [x \in DOMAIN z |-> 0] ELSE Possible(state[r], z)
       /\ state' = [state EXCEPT ![r] = NextState(r, e, z)]
       /\ log' = log \union Told(r, e, z)
       /\ IF BlocksNow(r, e, z) THEN Block(r, ok) ELSE UNCHANGED <<blocked, blockings>>

\* The gate refuses a call: its entry is published at once.
Refuse(r, z) ==
  /\ started < setup.maxCalls /\ Active(StoreOf(r), clock)
  /\ started' = started + 1
  /\ Publish(r, [decision |-> "blocked", tool |-> CHOOSE t \in Tools : TRUE], z, TRUE)
  /\ UNCHANGED <<clock, setup, passed, lastPassed>>

\* The gate lets a call pass, also when the shared store does not answer.
Pass(r) ==
  /\ started < setup.maxCalls
  /\ ~ Active(StoreOf(r), clock) \/ setup.postgres
  /\ started' = started + 1
  /\ passed' = [passed EXCEPT ![r] = @ + 1]
  /\ UNCHANGED <<clock, setup, state, blocked, log, blockings, lastPassed>>

\* A call that passed the gate has been decided and its entry is written.
Finish(r, e, z, ok) ==
  /\ passed[r] > 0
  /\ ok \/ setup.postgres
  /\ passed' = [passed EXCEPT ![r] = @ - 1]
  /\ Publish(r, e, z, ok)
  /\ lastPassed' = clock
  /\ UNCHANGED <<clock, setup, started>>

\* An operator lifts the block.  The second delete of the table's Unblock, which may come after
\* another block, is this step at that later time.
Unblock(s) ==
  /\ blocked[s] # None
  /\ blocked' = [blocked EXCEPT ![s] = None]
  /\ UNCHANGED <<clock, setup, started, passed, state, log, blockings, lastPassed>>

\* GCBlocksOnce, or the reaper of the table: expired entries go.
Sweep(s) ==
  /\ blocked[s] # None /\ ~ Active(s, clock)
  /\ blocked' = [blocked EXCEPT ![s] = None]
  /\ UNCHANGED <<clock, setup, started, passed, state, log, blockings, lastPassed>>

\* Mutated form of Stale: any silence at the tick.
StaleSoon(st, now) == st.lastSeen < now

\* Two intervals of silence.
Stale(st, now) == st.lastSeen + 2 * GCInterval < now

\* gc with the time of its tick.
GC(r) ==
  /\ state[r] # None /\ Stale(state[r], clock)
  /\ state' = [state EXCEPT ![r] = None]
  /\ UNCHANGED <<clock, setup, started, passed, blocked, log, blockings, lastPassed>>

Tick ==
  /\ clock < MaxTime
  /\ clock' = clock + 1
  /\ UNCHANGED <<setup, started, passed, state, blocked, log, blockings, lastPassed>>

Next ==
  \/ Tick
  \/ \E s \in Stores : Unblock(s) \/ Sweep(s)
  \/ \E r \in setup.replicas :
       \/ Pass(r)
       \/ GC(r)
       \/ \E z \in setup.windows :
            \/ Refuse(r, z)
            \/ \E e \in setup.entries, ok \in BOOLEAN : Finish(r, e, z, ok)

Spec == Init /\ [][Next]_vars
-----------------------------------------------------------------------------
(* Properties.                                                             *)

\* checkMLScore, checkDriftFeature: every block that reached the store is explained by an
\* anomaly of the same moment that says it blocked, whichever score drove it and whatever was
\* flagged before.
BlockIsLogged ==
  \A b \in blockings : \E a \in log : a.blocks /\ a.replica = b.replica /\ a.at = b.at

\* gc and Config.validate: a replica that has blocked the identity keeps its baseline at least
\* for as long as that block lasts.
FrozenWhileBlocked ==
  \A s \in Stores : Active(s, clock) => state[blocked[s].by] # None

\* recordAndCheck: a block is strictly time-bounded.  The calls the gate refuses never extend
\* it: it ends a block duration after the last call that had passed the gate.
RetriesNeverExtend ==
  \A s \in Stores : blocked[s] # None => blocked[s].until <= lastPassed + BlockDuration

\* recordAndCheck, checkMLScore: a sustained spike produces one anomaly of each kind per window,
\* and a window enters the baseline at most once, so no more windows are folded than were
\* completed.
JudgedOnce ==
  \A r \in Replicas : state[r] # None =>
    /\ \A k \in Latched : state[r].told[k] <= 1
    /\ state[r].samples <= state[r].windows
    /\ state[r].toolSamples <= state[r].samples

\* cusumStep: the running sum of the drift chart is the largest sum of deviations over the
\* allowance that ends in the last window and began after the last alarm, or zero.
CusumIsLargestRise ==
  LET Rise(ds, i) == SumFunctionOnSet(ds, i..Len(ds)) - K * (Len(ds) - i + 1)
  IN  \A r \in Replicas : state[r] # None =>
        \A f \in {"rate", "diversity"} :
          LET ds == state[r].drifts[f]
          IN  state[r].cusum[f] = Max({0} \union {Rise(ds, i) : i \in 1..Len(ds)})
=============================================================================

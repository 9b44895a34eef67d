--------------------------- MODULE DetectorProofs ---------------------------
(***************************************************************************)
(* The properties of the detector for every number of replicas, tools and  *)
(* calls and every setting Config.validate accepts.                        *)
(***************************************************************************)
EXTENDS Detector, TLAPS

\* maxHarmfulZ, checkMLScore: a window that blocks is anomalous, because the blocking score is
\* promoted and its threshold is not the lower one.
LEMMA BlocksAreAnomalous ==
  ASSUME NEW z \in Deviations, Blocks(z)
  PROVE  Anomalous(z)
  BY ScoresAssumption
     DEF Deviations, Blocks, Anomalous, FinalScore, MaxAbsZ, MaxHarmfulZ, Larger, AbsZ

\* maxHarmfulZ: a window that is no busier and no more diverse never blocks for denials it has
\* fewer tool calls for, nor for spacing it has fewer calls for.
THEOREM DeclineNeverBlocks ==
  ASSUME NEW z \in Deviations,
         z.rate <= 0, z.diversity <= 0,
         z.denyBlock <= 0 \/ z.toolCalls < -Margin,
         z.interArrival >= 0 \/ z.rate < -Margin
  PROVE  ~ Blocks(z)
  BY ScoresAssumption DEF Deviations, Blocks, MaxHarmfulZ, Larger
-----------------------------------------------------------------------------
(* What one call does to the state of an identity.                         *)

\* What holds of every state next to its type.
Sound(st) ==
  /\ st.lastSeen <= clock
  /\ st.samples <= st.windows /\ st.toolSamples <= st.samples
  /\ \A k \in Latched : st.told[k] = IF k \in st.flaggedThisWindow THEN 1 ELSE 0

\* A state that a call has entered: a window that is over is not folded yet and flagged nothing.
LEMMA EnteredFacts ==
  ASSUME TypeOK, NEW r \in Replicas, NEW e \in Entries, state[r] # None => Sound(state[r])
  PROVE  /\ Entered(r, e) \in IdentityStates
         /\ Sound(Entered(r, e))
         /\ Entered(r, e).lastSeen = clock
         /\ Judges(r) => /\ Entered(r, e).samples < Entered(r, e).windows
                         /\ Entered(r, e).flaggedThisWindow = {}
<1> DEFINE old == Before(r)
           st  == IF WindowOver(old, clock) THEN Rollover(old, clock) ELSE old
<1>1. clock \in Times /\ state[r] \in IdentityStates \union {None}
  BY DetectorAssumption DEF TypeOK, Times
<1>2. NewState(clock) \in IdentityStates /\ Sound(NewState(clock))
  <2>1. NoCounts \in WindowCounts
    BY Zenon DEF NoCounts, WindowCounts
  <2>2. /\ [f \in {"rate", "diversity"} |-> 0] \in [{"rate", "diversity"} -> Nat]
        /\ [k \in Latched |-> 0] \in [Latched -> Nat]
        /\ [f \in {"rate", "diversity"} |-> <<>>] \in [{"rate", "diversity"} -> Seq(Int)]
    OBVIOUS
  <2>3. NewState(clock) \in IdentityStates
    BY <1>1, <2>1, <2>2, Zenon DEF NewState, IdentityStates
  <2>4. Sound(NewState(clock))
    BY <1>1 DEF NewState, Sound, Times
  <2> QED
    BY <2>3, <2>4, Zenon
<1>3. old \in IdentityStates /\ Sound(old)
  BY <1>1, <1>2, Zenon DEF Before
<1> HIDE DEF old
<1>4. Rollover(old, clock) \in IdentityStates
  <2>1. NoCounts \in WindowCounts
    BY Zenon DEF NoCounts, WindowCounts
  <2>2. [k \in Latched |-> 0] \in [Latched -> Nat] /\ old.windows + 1 \in Nat
    BY <1>3 DEF IdentityStates
  <2> QED
    BY <1>1, <1>3, <2>1, <2>2, Zenon DEF Rollover, IdentityStates
<1>5. /\ Sound(Rollover(old, clock))
      /\ Rollover(old, clock).samples < Rollover(old, clock).windows
      /\ Rollover(old, clock).flaggedThisWindow = {}
  <2> DEFINE new == Rollover(old, clock)
  <2>1. /\ new.lastSeen = old.lastSeen /\ new.samples = old.samples
        /\ new.toolSamples = old.toolSamples /\ new.windows = old.windows + 1
        /\ new.flaggedThisWindow = {} /\ new.told = [k \in Latched |-> 0]
    BY <1>3, Zenon DEF Rollover, IdentityStates
  <2>2. old.samples \in Nat /\ old.windows \in Nat
    BY <1>3, Zenon DEF IdentityStates
  <2> QED
    BY <1>3, <2>1, <2>2 DEF Sound
<1>6. st \in IdentityStates /\ Sound(st)
      /\ (Judges(r) => st.samples < st.windows /\ st.flaggedThisWindow = {})
  BY <1>3, <1>4, <1>5, Zenon DEF Judges, ScoresNow, old
<1> HIDE DEF st
<1>7. Counted(st.cur, e) \in WindowCounts
  <2> DEFINE cur == st.cur
  <2>1. cur \in WindowCounts
    BY <1>6, Zenon DEF IdentityStates
  <2>2. e.tool \in Tools
    BY Zenon DEF Entries
  <2> HIDE DEF cur
  <2>3. Counted(cur, e) \in WindowCounts
    BY <2>1, <2>2 DEF Counted, WindowCounts
  <2> QED
    BY <2>3, Zenon DEF cur
<1>8. Entered(r, e) = [st EXCEPT !.lastSeen = clock, !.cur = Counted(st.cur, e)]
  BY Zenon DEF Entered, st, old
<1>9. Entered(r, e) \in IdentityStates
  BY <1>1, <1>6, <1>7, <1>8, ZenonT(30) DEF IdentityStates
<1>10. /\ Entered(r, e).lastSeen = clock
       /\ Entered(r, e).samples = st.samples /\ Entered(r, e).windows = st.windows
       /\ Entered(r, e).toolSamples = st.toolSamples
       /\ Entered(r, e).told = st.told
       /\ Entered(r, e).flaggedThisWindow = st.flaggedThisWindow
  BY <1>6, <1>8, Zenon DEF IdentityStates
<1> QED
  BY <1>1, <1>6, <1>9, <1>10 DEF Sound, Times

\* Flagging kinds that were not flagged keeps the history in step.
LEMMA FlagFacts ==
  ASSUME NEW st \in IdentityStates, Sound(st), NEW kinds \in SUBSET Latched,
         kinds \cap st.flaggedThisWindow = {}
  PROVE  /\ Flag(st, kinds) \in IdentityStates /\ Sound(Flag(st, kinds))
         /\ \A x \in {"tools", "windowStart", "cur", "prev", "lastSeen", "samples", "toolSamples",
                      "cusum", "windows", "drifts"} : Flag(st, kinds)[x] = st[x]
         /\ Flag(st, kinds).flaggedThisWindow = st.flaggedThisWindow \union kinds
<1>1. \A k \in Latched : st.told[k] \in Nat
  BY Zenon DEF IdentityStates
<1>2. Flag(st, kinds) \in IdentityStates
  <2>1. st.flaggedThisWindow \union kinds \in SUBSET Latched
    BY Zenon DEF IdentityStates
  <2>2. [k \in Latched |-> st.told[k] + (IF k \in kinds THEN 1 ELSE 0)] \in [Latched -> Nat]
    BY <1>1
  <2> QED
    BY <2>1, <2>2, Zenon DEF Flag, IdentityStates
<1>3. /\ \A x \in {"tools", "windowStart", "cur", "prev", "lastSeen", "samples", "toolSamples",
                   "cusum", "windows", "drifts"} : Flag(st, kinds)[x] = st[x]
      /\ Flag(st, kinds).flaggedThisWindow = st.flaggedThisWindow \union kinds
      /\ Flag(st, kinds).told = [k \in Latched |-> st.told[k] + (IF k \in kinds THEN 1 ELSE 0)]
  BY Zenon DEF Flag, IdentityStates
<1>4. Sound(Flag(st, kinds))
  BY <1>1, <1>3 DEF Sound
<1> QED
  BY <1>2, <1>3, <1>4, Zenon

\* The checks of every call flag what was not flagged, and leave the baselines alone.
LEMMA WatchedFacts ==
  ASSUME NEW st \in IdentityStates, Sound(st), NEW e \in Entries
  PROVE  /\ Watched(st, e) \in IdentityStates /\ Sound(Watched(st, e))
         /\ Watched(st, e).lastSeen = st.lastSeen
         /\ Watched(st, e).samples = st.samples /\ Watched(st, e).windows = st.windows
         /\ "ml_score" \in Watched(st, e).flaggedThisWindow => "ml_score" \in st.flaggedThisWindow
<1> DEFINE fl == Flag(st, Spikes(st))
<1>1. Spikes(st) \in SUBSET Latched /\ Spikes(st) \cap st.flaggedThisWindow = {}
      /\ "ml_score" \notin Spikes(st)
  BY Zenon DEF Spikes, Latched
<1>2. /\ fl \in IdentityStates /\ Sound(fl)
      /\ fl.lastSeen = st.lastSeen /\ fl.samples = st.samples /\ fl.windows = st.windows
      /\ fl.flaggedThisWindow = st.flaggedThisWindow \union Spikes(st)
  BY <1>1, FlagFacts, Zenon
<1> HIDE DEF fl
<1>3. \E ts \in SUBSET Tools : Watched(st, e) = [fl EXCEPT !.tools = ts]
  BY <1>2, ZenonT(30) DEF Watched, fl, IdentityStates, Entries
<1> QED
  BY <1>1, <1>2, <1>3, ZenonT(30) DEF IdentityStates, Sound

\* checkDrift touches the two cumulative sums only.
LEMMA DriftFacts ==
  ASSUME NEW st \in IdentityStates, Sound(st), NEW z \in Deviations
  PROVE  /\ CheckDrift(st, z) \in IdentityStates /\ Sound(CheckDrift(st, z))
         /\ \A x \in {"prev", "lastSeen", "samples", "toolSamples", "windows", "told",
                      "flaggedThisWindow"} : CheckDrift(st, z)[x] = st[x]
<1> DEFINE sums == [f \in {"rate", "diversity"} |->
                      IF Drifted(st, f, z) THEN 0 ELSE Accumulated(st.cusum[f], z[f], K)]
           devs == [f \in {"rate", "diversity"} |->
                      IF Drifted(st, f, z) THEN <<>> ELSE Append(st.drifts[f], z[f])]
<1>1. sums \in [{"rate", "diversity"} -> Nat]
  <2>1. ASSUME NEW f \in {"rate", "diversity"} PROVE Accumulated(st.cusum[f], z[f], K) \in Nat
    <3>1. st.cusum[f] \in Nat /\ z[f] \in Int /\ K \in Nat
      BY DetectorAssumption, Zenon DEF IdentityStates, Deviations
    <3> QED
      BY <3>1 DEF Accumulated, Larger
  <2> QED
    BY <2>1, Zenon
<1>2. devs \in [{"rate", "diversity"} -> Seq(Int)]
  <2>1. ASSUME NEW f \in {"rate", "diversity"} PROVE Append(st.drifts[f], z[f]) \in Seq(Int)
    <3>1. st.drifts[f] \in Seq(Int) /\ z[f] \in Int
      BY Zenon DEF IdentityStates, Deviations
    <3> QED
      BY <3>1
  <2> QED
    BY <2>1
<1>3. CheckDrift(st, z) \in {st, [st EXCEPT !.cusum = sums, !.drifts = devs]}
  BY Zenon DEF CheckDrift
<1> HIDE DEF sums, devs
<1>4. [st EXCEPT !.cusum = sums, !.drifts = devs] \in IdentityStates
  BY <1>1, <1>2, Zenon DEF IdentityStates
<1>5. \A x \in {"prev", "lastSeen", "samples", "toolSamples", "windows", "told",
                "flaggedThisWindow"} : CheckDrift(st, z)[x] = st[x]
  BY <1>3, Zenon DEF IdentityStates
<1> QED
  BY <1>3, <1>4, <1>5 DEF Sound

\* checkMLScore folds the window at most once.
LEMMA MLFacts ==
  ASSUME NEW st \in IdentityStates, Sound(st), NEW z \in Deviations, st.samples < st.windows
  PROVE  /\ CheckMLScore(st, z) \in IdentityStates /\ Sound(CheckMLScore(st, z))
         /\ CheckMLScore(st, z).lastSeen = st.lastSeen
<1> DEFINE folded == IF MLScored(st) /\ ~ MLAnomalous(st, z) THEN Fold(st) ELSE st
<1>1. /\ Fold(st) \in IdentityStates
      /\ Fold(st).samples = st.samples + 1
      /\ Fold(st).toolSamples \in {st.toolSamples, st.toolSamples + 1}
      /\ \A x \in {"lastSeen", "windows", "told", "flaggedThisWindow"} : Fold(st)[x] = st[x]
  <2>1. \E n \in {0, 1} :
          Fold(st) = [st EXCEPT !.samples = st.samples + 1, !.toolSamples = st.toolSamples + n]
    BY Zenon DEF Fold, IdentityStates
  <2>2. PICK n \in {0, 1} :
          Fold(st) = [st EXCEPT !.samples = st.samples + 1, !.toolSamples = st.toolSamples + n]
    BY <2>1, Zenon
  <2>3. st.samples + 1 \in Nat /\ st.toolSamples + n \in Nat
        /\ st.toolSamples + n \in {st.toolSamples, st.toolSamples + 1}
    BY DEF IdentityStates
  <2> QED
    BY <2>2, <2>3, ZenonT(30) DEF IdentityStates
<1>2. st.samples \in Nat /\ st.toolSamples \in Nat /\ st.windows \in Nat
  BY Zenon DEF IdentityStates
<1>3. Sound(Fold(st))
  BY <1>1, <1>2 DEF Sound
<1>4. /\ folded \in IdentityStates /\ Sound(folded) /\ folded.lastSeen = st.lastSeen
      /\ folded.flaggedThisWindow = st.flaggedThisWindow
  BY <1>1, <1>3, Zenon
<1> HIDE DEF folded
<1>5. CASE MLTold(st, z)
  <2>1. {"ml_score"} \in SUBSET Latched /\ {"ml_score"} \cap folded.flaggedThisWindow = {}
    BY <1>4, <1>5, Zenon DEF Latched, MLTold
  <2>2. CheckMLScore(st, z) = Flag(folded, {"ml_score"})
    BY <1>5, Zenon DEF CheckMLScore, folded
  <2> QED
    BY <1>4, <2>1, <2>2, FlagFacts
<1>6. CASE ~ MLTold(st, z)
  BY <1>4, <1>6, Zenon DEF CheckMLScore, folded
<1> QED
  BY <1>5, <1>6, Zenon

\* recordAndCheck as a whole.
LEMMA NextStateFacts ==
  ASSUME TypeOK, NEW r \in Replicas, NEW e \in Entries, NEW z \in Deviations,
         state[r] # None => Sound(state[r])
  PROVE  /\ NextState(r, e, z) \in IdentityStates /\ Sound(NextState(r, e, z))
         /\ NextState(r, e, z).lastSeen = clock
<1> DEFINE st == Watched(Entered(r, e), e)
           dr == CheckDrift(st, z)
<1>1. /\ Entered(r, e) \in IdentityStates /\ Sound(Entered(r, e))
      /\ Entered(r, e).lastSeen = clock
      /\ Judges(r) => Entered(r, e).samples < Entered(r, e).windows
  BY EnteredFacts, Zenon
<1>2. /\ st \in IdentityStates /\ Sound(st) /\ st.lastSeen = clock
      /\ Judges(r) => st.samples < st.windows
  BY <1>1, WatchedFacts, Zenon
<1>3. NextState(r, e, z) = IF Judges(r) THEN CheckMLScore(dr, z) ELSE st
  BY Zenon DEF NextState
<1> HIDE DEF st
<1>4. /\ dr \in IdentityStates /\ Sound(dr) /\ dr.lastSeen = clock
      /\ Judges(r) => dr.samples < dr.windows
  BY <1>2, DriftFacts, Zenon
<1> HIDE DEF dr
<1>5. CASE Judges(r)
  BY <1>3, <1>4, <1>5, MLFacts, Zenon
<1>6. CASE ~ Judges(r)
  BY <1>2, <1>3, <1>6, Zenon
<1> QED
  BY <1>5, <1>6, Zenon

\* The deviations that checkMLScore scores are deviations.
LEMMA ScoredType ==
  ASSUME NEW st, NEW z \in Deviations
  PROVE  Scored(st, z) \in Deviations
<1>1. CASE st.prev.toolCalls >= MLMinCalls
  BY <1>1, Zenon DEF Scored
<1>2. CASE ~ (st.prev.toolCalls >= MLMinCalls)
  <2>1. \A y \in Int :
          [z EXCEPT !.diversity = y, !.deny = y, !.denyBlock = y, !.toolCalls = y] \in Deviations
    BY Zenon DEF Deviations
  <2>2. 0 \in Int
    OBVIOUS
  <2>3. [z EXCEPT !.diversity = 0, !.deny = 0, !.denyBlock = 0, !.toolCalls = 0] \in Deviations
    BY <2>1, <2>2, Zenon
  <2> QED
    BY <1>2, <2>3, Zenon DEF Scored
<1> QED
  BY <1>1, <1>2, Zenon

\* Every call that blocks tells an anomaly that says so.
LEMMA BlockTold ==
  ASSUME TypeOK, NEW r \in Replicas, NEW e \in Entries, NEW z \in Deviations,
         state[r] # None => Sound(state[r]), BlocksNow(r, e, z)
  PROVE  \E a \in Told(r, e, z) : a.blocks /\ a.replica = r /\ a.at = clock
<1> DEFINE st == Watched(Entered(r, e), e)
<1>1. Judges(r) /\ (DriftAlarm(st, z) \/ MLBlocks(st, z))
  BY Zenon DEF BlocksNow
<1>2. CASE DriftAlarm(st, z)
  <2>1. [kind |-> "drift", replica |-> r, at |-> clock, blocks |-> TRUE] \in Told(r, e, z)
    BY <1>1, <1>2, Zenon DEF Told
  <2> QED
    BY <2>1, Zenon
<1>3. CASE MLBlocks(st, z)
  <2>1. Scored(st, z) \in Deviations
    BY ScoredType, Zenon
  <2>2. MLAnomalous(st, z)
    BY <1>3, <2>1, BlocksAreAnomalous, Zenon DEF MLBlocks, MLAnomalous
  <2>3. "ml_score" \notin st.flaggedThisWindow
    BY <1>1, EnteredFacts, WatchedFacts, Zenon
  <2>4. MLTold(st, z)
    BY <2>2, <2>3, Zenon DEF MLTold
  <2>5. [kind |-> "ml_score", replica |-> r, at |-> clock, blocks |-> MLBlocks(st, z)] \in Told(r, e, z)
    BY <1>1, <2>4, Zenon DEF Told
  <2> QED
    BY <1>3, <2>5, Zenon
<1> QED
  BY <1>1, <1>2, <1>3, Zenon
-----------------------------------------------------------------------------
(* The inductive invariant.  A block is dated by the call that made it: it *)
(* ends a duration after the last call its replica published, and no later *)
(* than a duration after the last call that passed the gate anywhere.      *)

AllSound == \A r \in Replicas : state[r] # None => Sound(state[r])

BlockDated ==
  \A s \in Stores : Active(s, clock) =>
    /\ state[blocked[s].by] # None
    /\ blocked[s].until <= state[blocked[s].by].lastSeen + BlockDuration

IInv ==
  /\ TypeOK /\ lastPassed <= clock
  /\ AllSound /\ BlockDated /\ RetriesNeverExtend /\ BlockIsLogged

\* The anomalies of a call are entries of the log.
LEMMA ToldType ==
  ASSUME TypeOK, NEW r \in Replicas, NEW e, NEW z
  PROVE  Told(r, e, z) \subseteq [kind : Kinds, replica : Replicas, at : Times, blocks : BOOLEAN]
<1>1. clock \in Times
  BY DEF TypeOK, Times
<1>2. MLBlocks(Watched(Entered(r, e), e), z) \in BOOLEAN
  BY Zenon DEF MLBlocks
<1>3. Spikes(Entered(r, e)) \subseteq Kinds
  BY Zenon DEF Spikes, Kinds
<1>4. ASSUME NEW k \in Kinds, NEW b \in BOOLEAN
      PROVE  [kind |-> k, replica |-> r, at |-> clock, blocks |-> b]
               \in [kind : Kinds, replica : Replicas, at : Times, blocks : BOOLEAN]
  BY <1>1, Zenon
<1>5. {"novel_tool", "drift", "ml_score"} \subseteq Kinds
  BY Zenon DEF Kinds
<1> QED
  BY <1>2, <1>3, <1>4, <1>5, ZenonT(30) DEF Told

\* The invariant holds before the first call.
THEOREM InitInv == Init => IInv
<1> SUFFICES ASSUME Init PROVE IInv
  OBVIOUS
<1>1. TypeOK
  BY DetectorAssumption DEF Init, TypeOK, Times
<1>2. lastPassed <= clock /\ AllSound /\ RetriesNeverExtend /\ BlockIsLogged
  BY DEF Init, AllSound, RetriesNeverExtend, BlockIsLogged
<1>3. BlockDated
  BY Zenon DEF Init, BlockDated, Active
<1> QED
  BY <1>1, <1>2, <1>3, Zenon DEF IInv

\* A call that is published keeps the invariant; lastPassed' is the time of the call.
LEMMA FinishInv ==
  ASSUME IInv, NEW r \in setup.replicas, NEW e \in setup.entries, NEW z \in setup.windows,
         NEW ok \in BOOLEAN, Finish(r, e, z, ok)
  PROVE  IInv'
<1>1. /\ TypeOK /\ lastPassed <= clock /\ AllSound /\ BlockDated /\ RetriesNeverExtend
      /\ BlockIsLogged
  BY Zenon DEF IInv
<1>2. r \in Replicas /\ e \in Entries /\ z \in Deviations
  BY <1>1, DetectorAssumption, Zenon DEF TypeOK
<1>3. e.decision # "blocked"
  BY <1>2, Zenon DEF Entries
<1>4. /\ state' = [state EXCEPT ![r] = NextState(r, e, z)]
      /\ log' = log \union Told(r, e, z)
      /\ IF BlocksNow(r, e, z) THEN Block(r, ok) ELSE UNCHANGED <<blocked, blockings>>
  BY <1>3, Zenon DEF Finish, Publish, Skips
<1>5. /\ clock' = clock /\ setup' = setup /\ started' = started /\ lastPassed' = clock
      /\ passed' = [passed EXCEPT ![r] = @ - 1] /\ passed[r] > 0
  BY Zenon DEF Finish
<1> DEFINE new == NextState(r, e, z)
           entry == [until |-> clock + BlockDuration, by |-> r]
<1>6. /\ new \in IdentityStates /\ Sound(new) /\ new.lastSeen = clock
  BY <1>1, <1>2, NextStateFacts, Zenon DEF AllSound
<1>7. new # None
  BY <1>6, NoneAssumption, Zenon
<1> HIDE DEF new
<1>8. /\ clock \in 1..MaxTime /\ MaxTime \in Nat /\ BlockDuration \in Nat
      /\ lastPassed \in Times /\ StoreOf(r) \in Stores
      /\ blocked \in [Stores -> BlockEntries \union {None}]
      /\ state \in [Replicas -> IdentityStates \union {None}]
  BY <1>1, <1>2, DetectorAssumption, Zenon DEF TypeOK, StoreOf, Stores
<1>9. entry \in BlockEntries /\ entry # None
  BY <1>2, <1>8, NoneAssumption DEF BlockEntries
<1>10. \/ UNCHANGED <<blocked, blockings>>
       \/ /\ BlocksNow(r, e, z)
          /\ blocked' = [blocked EXCEPT ![StoreOf(r)] = entry]
          /\ blockings' = blockings \union {[replica |-> r, at |-> clock]}
  BY <1>4, Zenon DEF Block
<1> HIDE DEF entry
<1>11. \A s \in Stores : blocked'[s] = blocked[s] \/ blocked'[s] = entry
  BY <1>8, <1>10, Zenon
<1>12. state' = [state EXCEPT ![r] = new]
  BY <1>4, Zenon DEF new
<1>13. TypeOK'
  <2>1. state' \in [Replicas -> IdentityStates \union {None}]
    BY <1>6, <1>8, <1>12, Zenon
  <2>2. blocked' \in [Stores -> BlockEntries \union {None}]
    BY <1>8, <1>9, <1>10, Zenon
  <2>3. log' \subseteq [kind : Kinds, replica : Replicas, at : Times, blocks : BOOLEAN]
    BY <1>1, <1>2, <1>4, ToldType, Zenon DEF TypeOK
  <2>4. blockings' \subseteq [replica : Replicas, at : Times]
    BY <1>1, <1>2, <1>8, <1>10 DEF TypeOK, Times
  <2>5. passed' \in [Replicas -> Nat]
    BY <1>1, <1>2, <1>5 DEF TypeOK
  <2> QED
    BY <1>1, <1>5, <1>8, <2>1, <2>2, <2>3, <2>4, <2>5 DEF TypeOK, Times
<1>14. AllSound'
  BY <1>1, <1>5, <1>6, <1>8, <1>12, Zenon DEF AllSound, Sound
<1>15. RetriesNeverExtend'
  <2> SUFFICES ASSUME NEW s \in Stores, blocked'[s] # None
               PROVE  blocked'[s].until <= lastPassed' + BlockDuration
    BY Zenon DEF RetriesNeverExtend
  <2>1. CASE blocked'[s] = entry
    BY <1>5, <1>8, <2>1 DEF entry
  <2>2. CASE blocked'[s] = blocked[s]
    <3>1. blocked[s].until \in Nat /\ blocked[s].until <= lastPassed + BlockDuration
      BY <1>1, <1>8, <2>2 DEF RetriesNeverExtend, BlockEntries
    <3> QED
      BY <1>1, <1>5, <1>8, <2>2, <3>1 DEF Times
  <2> QED
    BY <1>11, <2>1, <2>2, Zenon
<1>16. BlockDated'
  <2> SUFFICES ASSUME NEW s \in Stores, blocked'[s] # None, clock < blocked'[s].until
               PROVE  /\ state'[blocked'[s].by] # None
                      /\ blocked'[s].until <= state'[blocked'[s].by].lastSeen + BlockDuration
    BY <1>5, Zenon DEF BlockDated, Active
  <2>1. CASE blocked'[s] = entry
    BY <1>2, <1>6, <1>7, <1>8, <1>12, <2>1 DEF entry
  <2>2. CASE blocked'[s] = blocked[s]
    <3> DEFINE q == blocked[s].by
    <3>1. /\ q \in Replicas /\ blocked[s].until \in Nat
          /\ state[q] # None /\ blocked[s].until <= state[q].lastSeen + BlockDuration
      BY <1>1, <1>8, <2>2 DEF BlockDated, Active, BlockEntries
    <3>2. CASE q = r
      <4>1. state[q].lastSeen <= clock /\ state[q].lastSeen \in Nat
        BY <1>1, <1>8, <3>1 DEF AllSound, Sound, IdentityStates, Times
      <4> QED
        BY <1>2, <1>6, <1>7, <1>8, <1>12, <2>2, <3>1, <3>2, <4>1
    <3>3. CASE q # r
      BY <1>8, <1>12, <2>2, <3>1, <3>3, Zenon
    <3> QED
      BY <3>2, <3>3, Zenon
  <2> QED
    BY <1>11, <2>1, <2>2, Zenon
<1>17. BlockIsLogged'
  <2> SUFFICES ASSUME NEW b \in blockings'
               PROVE  \E a \in log' : a.blocks /\ a.replica = b.replica /\ a.at = b.at
    BY Zenon DEF BlockIsLogged
  <2>1. CASE b \in blockings
    BY <1>1, <1>4, <2>1, Zenon DEF BlockIsLogged
  <2>2. CASE b \notin blockings
    <3>1. BlocksNow(r, e, z) /\ b = [replica |-> r, at |-> clock]
      BY <1>10, <2>2, Zenon
    <3>2. \E a \in Told(r, e, z) : a.blocks /\ a.replica = r /\ a.at = clock
      BY <1>1, <1>2, <3>1, BlockTold, Zenon DEF AllSound
    <3> QED
      BY <1>4, <3>1, <3>2, Zenon
  <2> QED
    BY <2>1, <2>2, Zenon
<1> QED
  BY <1>5, <1>8, <1>13, <1>14, <1>15, <1>16, <1>17 DEF IInv, Times

\* The steps that publish nothing: the clock, the gate, the operator and the two collectors.
LEMMA QuietInv ==
  ASSUME IInv, UNCHANGED <<setup, log, blockings, lastPassed>>,
         clock' \in 1..MaxTime, clock <= clock', started' \in 0..setup.maxCalls,
         passed' \in [Replicas -> Nat],
         \A r \in Replicas :
           \/ state'[r] = state[r]
           \/ state'[r] = None /\ state[r] # None /\ clock' = clock /\ Stale(state[r], clock),
         state' \in [Replicas -> IdentityStates \union {None}],
         \A s \in Stores : blocked'[s] \in {blocked[s], None},
         blocked' \in [Stores -> BlockEntries \union {None}]
  PROVE  IInv'
<1>1. /\ TypeOK /\ lastPassed <= clock /\ AllSound /\ BlockDated /\ RetriesNeverExtend
      /\ BlockIsLogged
  BY Zenon DEF IInv
<1>2. /\ clock \in Nat /\ clock' \in Nat /\ lastPassed \in Nat
      /\ BlockDuration \in Nat /\ GCInterval \in Nat /\ BlockDuration <= 2 * GCInterval
      /\ blocked \in [Stores -> BlockEntries \union {None}]
      /\ state \in [Replicas -> IdentityStates \union {None}]
  BY <1>1, DetectorAssumption DEF TypeOK, Times
<1>3. TypeOK'
  BY <1>1, Zenon DEF TypeOK
<1>4. AllSound'
  <2> SUFFICES ASSUME NEW r \in Replicas, state'[r] # None PROVE Sound(state[r])'
    BY Zenon DEF AllSound
  <2>1. state'[r] = state[r] /\ Sound(state[r]) /\ state[r].lastSeen \in Nat
    BY <1>1, <1>2 DEF AllSound, IdentityStates, Times
  <2> QED
    BY <1>2, <2>1 DEF Sound
<1>5. RetriesNeverExtend' /\ BlockIsLogged'
  BY <1>1, Zenon DEF RetriesNeverExtend, BlockIsLogged
<1>6. BlockDated'
  <2> SUFFICES ASSUME NEW s \in Stores, blocked'[s] # None, clock' < blocked'[s].until
               PROVE  /\ state'[blocked'[s].by] # None
                      /\ blocked'[s].until <= state'[blocked'[s].by].lastSeen + BlockDuration
    BY Zenon DEF BlockDated, Active
  <2> DEFINE q == blocked[s].by
  <2>1. blocked'[s] = blocked[s]
    OBVIOUS
  <2>2. q \in Replicas /\ blocked[s].until \in Nat
    BY <1>2, <2>1 DEF BlockEntries
  <2>3. /\ state[q] # None /\ blocked[s].until <= state[q].lastSeen + BlockDuration
    BY <1>1, <1>2, <2>1, <2>2 DEF BlockDated, Active
  <2>4. state[q].lastSeen \in Nat
    BY <1>2, <2>2, <2>3 DEF IdentityStates, Times
  <2>5. ~ (clock' = clock /\ Stale(state[q], clock))
    BY <1>2, <2>1, <2>2, <2>3, <2>4 DEF Stale
  <2> QED
    BY <2>1, <2>2, <2>3, <2>5, Zenon
<1> QED
  BY <1>1, <1>2, <1>3, <1>4, <1>5, <1>6 DEF IInv

\* Every step of the detector, the gate and the collectors keeps the invariant.
THEOREM NextInv == IInv /\ [Next]_vars => IInv'
<1> SUFFICES ASSUME IInv, [Next]_vars PROVE IInv'
  OBVIOUS
<1>1. TypeOK
  BY Zenon DEF IInv
<1>2. /\ clock \in 1..MaxTime /\ MaxTime \in Nat /\ setup.maxCalls \in Nat
      /\ setup.replicas \subseteq Replicas
      /\ state \in [Replicas -> IdentityStates \union {None}]
      /\ blocked \in [Stores -> BlockEntries \union {None}]
      /\ started \in 0..setup.maxCalls /\ passed \in [Replicas -> Nat]
  BY <1>1, DetectorAssumption, Zenon DEF TypeOK
<1>3. CASE Tick
  BY <1>2, <1>3, QuietInv DEF Tick
<1>4. CASE \E s \in Stores : Unblock(s) \/ Sweep(s)
  BY <1>2, <1>4, QuietInv DEF Unblock, Sweep
<1>5. CASE \E r \in setup.replicas : Pass(r)
  BY <1>2, <1>5, QuietInv DEF Pass
<1>6. CASE \E r \in setup.replicas : GC(r)
  BY <1>2, <1>6, QuietInv DEF GC
<1>7. CASE \E r \in setup.replicas, z \in setup.windows : Refuse(r, z)
  BY <1>2, <1>7, QuietInv DEF Refuse, Publish, Skips
<1>8. CASE \E r \in setup.replicas, z \in setup.windows, e \in setup.entries, ok \in BOOLEAN :
             Finish(r, e, z, ok)
  BY <1>8, FinishInv, Zenon
<1>9. CASE UNCHANGED vars
  BY <1>2, <1>9, QuietInv DEF vars
<1> QED
  BY <1>3, <1>4, <1>5, <1>6, <1>7, <1>8, <1>9, Zenon DEF Next

\* The invariant holds always.
THEOREM SpecInv == Spec => []IInv
  BY InitInv, NextInv, PTL DEF Spec

\* checkMLScore, checkDriftFeature: no block without the anomaly that explains it.
THEOREM BlocksAreLogged == Spec => []BlockIsLogged
<1>1. IInv => BlockIsLogged
  BY Zenon DEF IInv
<1> QED
  BY <1>1, SpecInv, PTL

\* recordAndCheck: the calls the gate refuses never extend a block.
THEOREM BlocksAreBounded == Spec => []RetriesNeverExtend
<1>1. IInv => RetriesNeverExtend
  BY Zenon DEF IInv
<1> QED
  BY <1>1, SpecInv, PTL

\* gc, Config.validate: the replica that blocked keeps the baseline while the block lasts.
THEOREM BaselineIsFrozen == Spec => []FrozenWhileBlocked
<1>1. IInv => FrozenWhileBlocked
  BY Zenon DEF IInv, BlockDated, FrozenWhileBlocked
<1> QED
  BY <1>1, SpecInv, PTL

\* recordAndCheck: one anomaly of a kind per window, and a window is folded at most once.
THEOREM OncePerWindow == Spec => []JudgedOnce
<1>1. IInv => JudgedOnce
  BY DEF IInv, AllSound, Sound, JudgedOnce
<1> QED
  BY <1>1, SpecInv, PTL
=============================================================================

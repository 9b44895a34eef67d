----------------------------- MODULE Baselines -----------------------------
(***************************************************************************)
(* What the anomaly detectors of a fleet remember, and where: each         *)
(* replica's baselines in memory, one per identity and, for one tenant,    *)
(* one of its calls ("tenant", tenant_anomaly) and one of its new          *)
(* identities ("churn", identity_churn); the rows a replica checkpoints    *)
(* them to on every garbage-collection tick and reloads at a restart; and  *)
(* the window totals that all replicas add to.  An identity's own windows  *)
(* and heuristics are in Detector; here its baseline is the era it was     *)
(* learned in, a new one each time the identity is met as a stranger.      *)
(*                                                                         *)
(* Publish holds the detector's mutex from the lookup to the last window   *)
(* total, so it is one step.  The collector takes its snapshot under the   *)
(* mutex and talks to Postgres after releasing it: one step a statement.   *)
(***************************************************************************)
EXTENDS Integers, FiniteSets, Sequences

CONSTANTS
  Replicas,      \* instance IDs
  Identities,    \* the tenant's identities
  Window,        \* window_seconds
  Interval,      \* gc_interval_seconds
  MinSamples,    \* minSamplesForZScore
  Deployments,   \* the deployments, limits included, to start from
  None

(***************************************************************************)
(* A deployment: which replicas and identities there are, whether          *)
(* postgres_storage is on, which aggregates are enabled, the least total   *)
(* that is scored, and the bounds: calls, collections, failed statements,  *)
(* crashes, and the last tick of the clock.                                *)
(***************************************************************************)
Metrics == {"tenant", "churn"}
Spendings == {"calls", "collections", "faults", "crashes"}
Setups == [replicas : SUBSET Replicas, identities : SUBSET Identities, postgres : BOOLEAN,
           enabled : SUBSET Metrics, min : Nat \ {0}, calls : Nat, collections : Nat,
           faults : Nat, crashes : Nat, horizon : Nat]

ASSUME BaselinesAssumption ==
  /\ {Window, Interval} \subseteq Nat \ {0}
  /\ MinSamples \in Nat
  /\ Deployments \subseteq Setups
  /\ \A d \in Deployments : d.horizon >= Window
  /\ None \notin [era : Nat, seen : Nat]
  /\ None \notin [start : Nat, cur : Nat, seen : Nat, learned : Seq([window : Nat, total : Nat])]

VARIABLES
  setup,    \* the deployment
  clock,
  spent,    \* how much of each bound is used
  up,       \* the replicas that run
  state,    \* state[i][k]: replica i's baseline of identity k
  tally,    \* tally[i][m]: its window and baseline of aggregate m
  rows,     \* rows[i][k]: anomaly_baselines
  saved,    \* saved[i][m]: tenant_baselines and identity_churn_baselines
  totals,   \* totals[m][w]: tenant_window_totals and identity_churn_window_totals
  gc,       \* gc[i]: what replica i's collector is doing
  evicted,  \* the <<replica, identity, era>> evicted, and not kept by a failure
  events,   \* events[m][w]: what really happened in window w
  missed    \* the <<aggregate, window>> of which a replica lost its share

vars == <<setup, clock, spent, up, state, tally, rows, saved, totals, gc, evicted,
          events, missed>>

Times == 0..setup.horizon
CanSpend(b) == spent[b] < setup[b]
Spend(b) == [spent EXCEPT ![b] = @ + 1]

Resting == [pc |-> "idle", deleted |-> {}, toSave |-> << >>, learned |-> << >>]

(***************************************************************************)
(* A fleet that has just been deployed.  The clock starts one window after *)
(* the zero time, which a restored window starts at.                       *)
(***************************************************************************)
Init ==
  /\ setup \in Deployments
  /\ clock = Window
  /\ spent = [b \in Spendings |-> 0]
  /\ up = setup.replicas
  /\ state = [i \in Replicas |-> [k \in Identities |-> None]]
  /\ tally = [i \in Replicas |-> [m \in Metrics |-> None]]
  /\ rows = state
  /\ saved = tally
  /\ totals = [m \in Metrics |-> [w \in Times |-> 0]]
  /\ gc = [i \in Replicas |-> Resting]
  /\ evicted = {}
  /\ events = totals
  /\ missed = {}

-----------------------------------------------------------------------------
(***************************************************************************)
(* Publish.  now.Truncate(window): every replica's windows start at the    *)
(* same times.                                                             *)
(***************************************************************************)
SinceFirstCall(t) == t
Truncate(t) == t - (t % Window)

(***************************************************************************)
(* AddAndGet(tenant, w, n): the shared row grows by n and the new total    *)
(* comes back.  When the statement fails, before or after it took effect,  *)
(* the replica goes on with its own n.  Without Postgres there is no row.  *)
(***************************************************************************)
AddAndGet(m, w, n) ==
  LET t == totals[m][w]
      answered == [total |-> t + n, got |-> t + n, failed |-> FALSE]
  IN  IF ~setup.postgres THEN {[total |-> t, got |-> n, failed |-> FALSE]}
      ELSE {answered} \union
           (IF CanSpend("faults")
            THEN {[total |-> t, got |-> n, failed |-> TRUE],
                  [total |-> t + n, got |-> n, failed |-> TRUE]}
            ELSE {})

(***************************************************************************)
(* A finished window's total is folded into the baseline unless it is too  *)
(* small or anomalous; whether it is anomalous is left open, except that   *)
(* a baseline of fewer than MinSamples windows scores nothing.             *)
(***************************************************************************)
Folds(learned, w, total) ==
  LET folded == Append(learned, [window |-> w, total |-> total])
  IN  IF total < setup.min THEN {learned}
      ELSE IF Len(learned) < MinSamples THEN {folded}
      ELSE {learned, folded}

(***************************************************************************)
(* One event of aggregate m counted on replica i: the possible outcomes,   *)
(* the finished window merged first.                                       *)
(***************************************************************************)
Counted(i, m) ==
  LET ts == IF tally[i][m] = None
            THEN [start |-> Truncate(clock), cur |-> 0, seen |-> 0, learned |-> << >>]
            ELSE tally[i][m]
      Now(start, cur, learned) ==
        [start |-> start, cur |-> cur + 1, seen |-> clock, learned |-> learned]
  IN  IF clock - ts.start < Window
      THEN {[tally |-> Now(ts.start, ts.cur, ts.learned), window |-> ts.start,
             total |-> totals[m][ts.start], failed |-> FALSE, missed |-> FALSE]}
      ELSE UNION {{[tally |-> Now(Truncate(clock), 0, learned), window |-> ts.start,
                    total |-> a.total, failed |-> a.failed,
                    missed |-> a.total # totals[m][ts.start] + ts.cur]
                     : learned \in Folds(ts.learned, ts.start, a.got)}
                  : a \in AddAndGet(m, ts.start, ts.cur)}

NotCounted(i, m) ==
  {[tally |-> tally[i][m], window |-> 0, total |-> totals[m][0], failed |-> FALSE,
    missed |-> FALSE]}

checkTenantDrift(i) ==
  IF "tenant" \in setup.enabled THEN Counted(i, "tenant") ELSE NotCounted(i, "tenant")

checkIdentityChurn(i, isNewIdentity) ==
  IF "churn" \in setup.enabled /\ isNewIdentity THEN Counted(i, "churn")
  ELSE NotCounted(i, "churn")

\* What really happened, for the properties: by the clock, not by a replica.
Period(t) == (t \div Window) * Window
Happened(m, n) == [events[m] EXCEPT ![Period(clock)] = @ + n]

(***************************************************************************)
(* recordAndCheck of a call that was not blocked: it counts for the tenant *)
(* and, when the identity has no baseline here, as a new identity.         *)
(***************************************************************************)
Publish(i, k) ==
  LET isNewIdentity == state[i][k] = None
  IN  /\ i \in up
      /\ k \in setup.identities
      /\ CanSpend("calls")
      /\ state' = [state EXCEPT ![i][k] =
           [era |-> IF isNewIdentity THEN spent.calls + 1 ELSE @.era, seen |-> clock]]
      /\ \E t \in checkTenantDrift(i), c \in checkIdentityChurn(i, isNewIdentity) :
           LET out == [tenant |-> t, churn |-> c]
               faults == Cardinality({m \in Metrics : out[m].failed})
           IN  /\ spent.faults + faults <= setup.faults
               /\ spent' = [Spend("calls") EXCEPT !.faults = @ + faults]
               /\ tally' = [tally EXCEPT ![i] = [m \in Metrics |-> out[m].tally]]
               /\ totals' = [m \in Metrics |->
                    [totals[m] EXCEPT ![out[m].window] = out[m].total]]
               /\ missed' = missed \union
                    {<<m, out[m].window>> : m \in {x \in Metrics : out[x].missed}}
      /\ events' = [tenant |-> Happened("tenant", 1),
                    churn |-> Happened("churn", IF isNewIdentity THEN 1 ELSE 0)]
      /\ UNCHANGED <<setup, clock, up, rows, saved, gc, evicted>>

-----------------------------------------------------------------------------
(***************************************************************************)
(* gc, under the mutex: what has been idle for more than two intervals is  *)
(* dropped, and what remains is copied for the checkpoint.  A tick waits   *)
(* for a slow checkpoint, so a collection may start at any time.           *)
(***************************************************************************)
Idle(b) == b # None /\ b.seen < clock - 2 * Interval

UpsertsFirst == <<"saving", "deleting">>
SaveAllOrder == <<"deleting", "saving">>
After(pc) == IF pc = SaveAllOrder[1] THEN SaveAllOrder[2] ELSE "pruning"

OpenWindows(i, ms) ==
  {<<m, tally[i][m].start>> : m \in {x \in ms : tally[i][x] # None /\ tally[i][x].cur > 0}}

GcTick(i) ==
  LET stale == {k \in Identities : Idle(state[i][k])}
      quiet == {m \in Metrics : Idle(tally[i][m])}
      gone == {<<i, k, state[i][k].era>> : k \in stale}
      kept == {k \in Identities : state[i][k] # None} \ stale
      heard == {m \in Metrics : tally[i][m] # None} \ quiet
  IN  /\ i \in up
      /\ gc[i].pc = "idle"
      /\ CanSpend("collections")
      /\ spent' = Spend("collections")
      /\ state' = [state EXCEPT ![i] = [k \in Identities |-> IF k \in stale THEN None ELSE @[k]]]
      /\ tally' = [tally EXCEPT ![i] = [m \in Metrics |-> IF m \in quiet THEN None ELSE @[m]]]
      /\ gc' = [gc EXCEPT ![i] =
           IF setup.postgres
           THEN [pc |-> SaveAllOrder[1], deleted |-> gone,
                 toSave |-> [k \in kept |-> state[i][k]],
                 learned |-> [m \in heard |-> tally[i][m].learned]]
           ELSE Resting]
      /\ evicted' = evicted \union gone
      /\ missed' = missed \union OpenWindows(i, quiet)
      /\ UNCHANGED <<setup, clock, up, rows, saved, totals, events>>

(***************************************************************************)
(* SaveAll.  The batches of evicted identities come first; the first batch *)
(* that fails, with or without effect, ends the whole call.                *)
(***************************************************************************)
DeleteBatches(i) ==
  /\ gc[i].pc = "deleting"
  /\ \E done \in SUBSET gc[i].deleted :
       LET failed == done # gc[i].deleted
       IN  /\ rows' = [rows EXCEPT ![i] =
                [k \in Identities |-> IF \E d \in done : d[2] = k THEN None ELSE @[k]]]
           /\ \/ /\ ~failed
                 /\ gc' = [gc EXCEPT ![i].pc = After("deleting")]
                 /\ UNCHANGED <<spent, evicted>>
              \/ /\ gc[i].deleted # {}
                 /\ CanSpend("faults")
                 /\ spent' = Spend("faults")
                 /\ gc' = [gc EXCEPT ![i].pc = "pruning"]
                 /\ evicted' = evicted \ (gc[i].deleted \ done)
  /\ UNCHANGED <<setup, clock, up, state, tally, saved, totals, events, missed>>

SaveBatches(i) ==
  LET all == DOMAIN gc[i].toSave
  IN  /\ gc[i].pc = "saving"
      /\ \E done \in SUBSET all :
           /\ rows' = [rows EXCEPT ![i] = [k \in Identities |->
                IF k \in done
                THEN [era |-> gc[i].toSave[k].era, seen |-> gc[i].toSave[k].seen, updated |-> clock]
                ELSE @[k]]]
           /\ \/ /\ done = all
                 /\ gc' = [gc EXCEPT ![i].pc = After("saving")]
                 /\ UNCHANGED spent
              \/ /\ all # {}
                 /\ CanSpend("faults")
                 /\ spent' = Spend("faults")
                 /\ gc' = [gc EXCEPT ![i].pc = "pruning"]
      /\ UNCHANGED <<setup, clock, up, state, tally, saved, totals, evicted, events, missed>>

(***************************************************************************)
(* PruneStale: the rows of every replica that nobody has written for       *)
(* abandonedInstancePruneFactor intervals.                                 *)
(***************************************************************************)
PruneStale(i) ==
  /\ gc[i].pc = "pruning"
  /\ \/ /\ rows' = [j \in Replicas |-> [k \in Identities |->
             IF rows[j][k] # None /\ rows[j][k].updated < clock - 4 * Interval
             THEN None ELSE rows[j][k]]]
        /\ UNCHANGED spent
     \/ /\ CanSpend("faults")
        /\ spent' = Spend("faults")
        /\ UNCHANGED rows
  /\ gc' = [gc EXCEPT ![i].pc = "tenant"]
  /\ UNCHANGED <<setup, clock, up, state, tally, saved, totals, evicted, events, missed>>

(***************************************************************************)
(* The aggregates' baselines, each in one transaction that fails whole.    *)
(***************************************************************************)
SaveTally(i, m) ==
  LET some == m \in DOMAIN gc[i].learned
  IN  /\ gc[i].pc = m
      /\ \/ /\ saved' = IF some THEN [saved EXCEPT ![i][m] = gc[i].learned[m]] ELSE saved
            /\ UNCHANGED spent
         \/ /\ some
            /\ CanSpend("faults")
            /\ spent' = Spend("faults")
            /\ UNCHANGED saved
      /\ UNCHANGED <<setup, clock, up, state, tally, rows, totals, evicted, events, missed>>

SaveTenantBaselines(i) == SaveTally(i, "tenant") /\ gc' = [gc EXCEPT ![i].pc = "churn"]
SaveChurnBaselines(i) == SaveTally(i, "churn") /\ gc' = [gc EXCEPT ![i] = Resting]

-----------------------------------------------------------------------------
(***************************************************************************)
(* A replica stops, at any point of a collection, with nothing saved on    *)
(* the way out.  An eviction whose delete was still to come is excused.    *)
(***************************************************************************)
Crash(i) ==
  /\ i \in up
  /\ CanSpend("crashes")
  /\ spent' = Spend("crashes")
  /\ up' = up \ {i}
  /\ state' = [state EXCEPT ![i] = [k \in Identities |-> None]]
  /\ tally' = [tally EXCEPT ![i] = [m \in Metrics |-> None]]
  /\ gc' = [gc EXCEPT ![i] = Resting]
  /\ evicted' = evicted \ (IF gc[i].pc = "deleting" THEN gc[i].deleted ELSE {})
  /\ missed' = missed \union OpenWindows(i, Metrics)
  /\ UNCHANGED <<setup, clock, rows, saved, totals, events>>

(***************************************************************************)
(* The start of a replica.  A row of an aggregate holds its baseline       *)
(* alone: its window starts at the zero time, and so does its lastSeen.    *)
(***************************************************************************)
LoadBaselines(i) ==
  [k \in Identities |-> IF rows[i][k] = None THEN None
                        ELSE [era |-> rows[i][k].era, seen |-> rows[i][k].seen]]

LoadTally(i, m) ==
  IF saved[i][m] = None THEN None
  ELSE [start |-> 0, cur |-> 0, seen |-> 0, learned |-> saved[i][m]]

LoadTenantBaselines(i) == LoadTally(i, "tenant")
LoadChurnBaselines(i) == LoadTally(i, "churn")

Start(i) ==
  /\ i \in setup.replicas \ up
  /\ up' = up \union {i}
  /\ state' = [state EXCEPT ![i] = LoadBaselines(i)]
  /\ tally' = [tally EXCEPT ![i] =
       [tenant |-> LoadTenantBaselines(i), churn |-> LoadChurnBaselines(i)]]
  /\ UNCHANGED <<setup, clock, spent, rows, saved, totals, gc, evicted, events, missed>>

Tick ==
  /\ clock < setup.horizon
  /\ clock' = clock + 1
  /\ UNCHANGED <<setup, spent, up, state, tally, rows, saved, totals, gc, evicted,
                 events, missed>>

Next ==
  \/ Tick
  \/ \E i \in Replicas :
       \/ \E k \in Identities : Publish(i, k)
       \/ GcTick(i) \/ DeleteBatches(i) \/ SaveBatches(i) \/ PruneStale(i)
       \/ SaveTenantBaselines(i) \/ SaveChurnBaselines(i)
       \/ Crash(i) \/ Start(i)

Spec == Init /\ [][Next]_vars

-----------------------------------------------------------------------------
(***************************************************************************)
(* The variables keep their types.                                         *)
(***************************************************************************)
TypeOK ==
  /\ setup \in Deployments
  /\ clock \in Times
  /\ \A b \in Spendings : spent[b] \in 0..setup[b]
  /\ up \subseteq setup.replicas
  /\ \A i \in Replicas :
       /\ \A k \in Identities :
            /\ state[i][k] \in [era : Nat, seen : Times] \union {None}
            /\ rows[i][k] \in [era : Nat, seen : Times, updated : Times] \union {None}
       /\ gc[i].pc \in {"idle", "deleting", "saving", "pruning"} \union Metrics
  /\ \A m \in Metrics : {totals[m], events[m]} \subseteq [Times -> Nat]

(***************************************************************************)
(* An identity that the collector evicted is a stranger when it comes      *)
(* back: the baseline it was evicted with is never in the memory of that   *)
(* replica again, whatever upserts failed and however often the replica    *)
(* restarted, unless the delete of its row failed or the replica stopped   *)
(* before it.  Deleting before saving (gc.go, SaveAll) is about this.      *)
(***************************************************************************)
EvictedStaysGone ==
  \A i \in up, k \in Identities :
    state[i][k] # None => <<i, k, state[i][k].era>> \notin evicted

(***************************************************************************)
(* The replicas count every event of a window once, in that window's row:  *)
(* a row never exceeds what happened, and once no replica holds a share of *)
(* the window back and none was lost (a failed AddAndGet, an eviction, a   *)
(* crash) it is what happened.  A baseline learns each window at most      *)
(* once, restarts included, and never a total above what happened.         *)
(***************************************************************************)
WindowCountedOnce ==
  /\ \A m \in Metrics, w \in Times :
       /\ totals[m][w] <= events[m][w]
       /\ (/\ setup.postgres
           /\ m \in setup.enabled
           /\ <<m, w>> \notin missed
           /\ \A i \in up : <<m, w>> \notin OpenWindows(i, Metrics))
            => totals[m][w] = events[m][w]
  /\ \A i \in up, m \in Metrics :
       tally[i][m] # None =>
         LET l == tally[i][m].learned
         IN  \A n \in DOMAIN l :
               /\ l[n].total <= events[m][l[n].window]
               /\ n > 1 => l[n - 1].window < l[n].window
=============================================================================
